------------------------- MODULE AddressBookProofs -------------------------
(***************************************************************************)
(* The address book, for any number of writers and readers: what is in the *)
(* file while the writers run one after the other, what a writer that      *)
(* truncates the file holds, and what every process reads.                 *)
(***************************************************************************)
EXTENDS AddressBook, TLAPS, SequenceTheorems

(* A file that is open is there.                                           *)
OpenFile == \A p \in Processes : proc[p].pc \in {"read", "write"} => file # Missing

TypeInv == TypeOK /\ OpenFile

(* One writer at a time.                                                   *)
Alone == \A p, q \in Writers : Active(p) /\ Active(q) => p = q

(* What a process has read is the file from its start.                     *)
ReadSoFar(p) ==
    /\ Len(proc[p].buf) <= Len(file)
    /\ proc[p].buf = SubSeq(file, 1, Len(proc[p].buf))

(* Until a writer truncates the file it holds what is in it.               *)
Held(p) ==
    /\ proc[p].pc = "read" => ReadSoFar(p)
    /\ proc[p].pc = "prompt" /\ "open" \notin faults =>
          \/ file = Missing /\ proc[p].book = <<>>
          \/ Parses(file) /\ proc[p].book = BookIn(file)
    /\ proc[p].pc = "truncate" /\ "open" \notin faults =>
          \/ file = Missing
          \/ Parses(file) /\ proc[p].book = Append(BookIn(file), <<p, p>>)

HeldInv == TypeInv /\ (Apart => Alone /\ \A p \in Writers : Held(p))

(* While nothing fails: the file is the saved book, or its next version in *)
(* the writing.                                                            *)
FileIsSaved ==
    \/ saved = <<>> /\ file = Missing
    \/ file # Missing /\ file = SerializeToOstream(Records(saved))

Writing(p) ==
    /\ proc[p].buf = SerializeToOstream(proc[p].book)
    /\ proc[p].off <= Len(proc[p].buf)
    /\ file = SubSeq(proc[p].buf, 1, proc[p].off)

Saving(p) ==
    /\ proc[p].pc \in {"prompt", "truncate"} => proc[p].off = 0
    /\ proc[p].pc = "prompt" => proc[p].book = Records(saved)
    /\ proc[p].pc \in {"truncate", "write"} =>
          proc[p].book = Records(Append(saved, p))
    /\ proc[p].pc = "write" => Writing(p)

SavedInv ==
    /\ HeldInv
    /\ Apart /\ faults = {} =>
         /\ (\A p \in Writers : proc[p].pc # "write") => FileIsSaved
         /\ \A p \in Writers : Saving(p)

-----------------------------------------------------------------------------
(* The file format.                                                        *)

LEMMA UnitTypes ==
    ASSUME NEW x \in Names
    PROVE  HeadOf(x) \in Units /\ TailOf(x) \in Units /\ Hole \in Units
BY DEF HeadOf, TailOf, Hole, Units, Names

LEMMA SerializeProperties ==
    ASSUME NEW book \in Seq(Persons)
    PROVE  LET s == SerializeToOstream(book) IN
           /\ s \in Seq(Units)
           /\ Len(s) = 2 * Len(book)
           /\ \A k \in 1 .. Len(book) : /\ s[2 * k - 1] = HeadOf(book[k][1])
                                        /\ s[2 * k] = TailOf(book[k][2])
<1> DEFINE n == Len(book)
           e(k) == IF k % 2 = 1 THEN HeadOf(book[(k + 1) \div 2][1])
                                ELSE TailOf(book[k \div 2][2])
           s == [k \in 1 .. 2 * n |-> e(k)]
<1>1. n \in Nat /\ \A k \in 1 .. n : book[k] \in Persons
  BY LenProperties, ElementOfSeq
<1>2. \A k \in 1 .. n : book[k][1] \in Names /\ book[k][2] \in Names
  BY <1>1 DEF Persons
<1>3. SerializeToOstream(book) = s
  BY DEF SerializeToOstream
<1>4. ASSUME NEW k \in 1 .. 2 * n PROVE e(k) \in Units
  <2>1. CASE k % 2 = 1
    <3>1. (k + 1) \div 2 \in 1 .. n BY <1>1, <2>1
    <3> QED BY <3>1, <1>2, <2>1, UnitTypes
  <2>2. CASE k % 2 # 1
    <3>1. k \div 2 \in 1 .. n BY <1>1, <2>2
    <3> QED BY <3>1, <1>2, <2>2, UnitTypes
  <2> QED BY <2>1, <2>2
<1>5. ASSUME NEW k \in 1 .. n
      PROVE  s[2 * k - 1] = HeadOf(book[k][1]) /\ s[2 * k] = TailOf(book[k][2])
  <2>1. /\ 2 * k - 1 \in 1 .. 2 * n /\ 2 * k \in 1 .. 2 * n
        /\ (2 * k - 1) % 2 = 1 /\ (2 * k) % 2 # 1
        /\ ((2 * k - 1) + 1) \div 2 = k /\ (2 * k) \div 2 = k
    BY <1>1
  <2>2. e(2 * k - 1) = HeadOf(book[k][1]) /\ e(2 * k) = TailOf(book[k][2])
    BY <2>1
  <2> HIDE DEF e
  <2> QED BY <2>1, <2>2
<1>6. s \in Seq(Units)
  <2>1. 2 * n \in Nat BY <1>1
  <2> HIDE DEF e
  <2> QED BY <1>4, <2>1, IsASeq
<1>7. Len(s) = 2 * n
  <2>1. 2 * n \in Nat BY <1>1
  <2>2. DOMAIN s = 1 .. 2 * n OBVIOUS
  <2> HIDE DEF s, n
  <2> QED BY <2>1, <2>2, <1>6, LenProperties
<1> HIDE DEF s
<1> QED BY <1>3, <1>5, <1>6, <1>7

LEMMA BookInProperties ==
    ASSUME NEW s \in Seq(Units)
    PROVE  /\ BookIn(s) \in Seq(Persons)
           /\ Len(BookIn(s)) = (Len(s) + 1) \div 2
           /\ \A k \in 1 .. (Len(s) + 1) \div 2 : BookIn(s)[k] =
                 <<s[2 * k - 1][2], IF 2 * k <= Len(s) THEN s[2 * k][2] ELSE Missing>>
<1> DEFINE n == (Len(s) + 1) \div 2
           e(k) == <<s[2 * k - 1][2], IF 2 * k <= Len(s) THEN s[2 * k][2] ELSE Missing>>
           b == [k \in 1 .. n |-> e(k)]
<1>1. Len(s) \in Nat /\ n \in Nat /\ \A k \in 1 .. Len(s) : s[k] \in Units
  BY LenProperties, ElementOfSeq
<1>2. \A k \in 1 .. Len(s) : s[k][2] \in Names
  BY <1>1 DEF Units
<1>3. ASSUME NEW k \in 1 .. n PROVE e(k) \in Persons
  <2>1. 2 * k - 1 \in 1 .. Len(s) BY <1>1
  <2>2. s[2 * k - 1][2] \in Names BY <2>1, <1>2
  <2>3. 2 * k <= Len(s) => s[2 * k][2] \in Names
    <3>1. 2 * k <= Len(s) => 2 * k \in 1 .. Len(s) BY <1>1
    <3> QED BY <3>1, <1>2
  <2>4. Missing \in Names BY DEF Names
  <2> QED BY <2>2, <2>3, <2>4 DEF Persons
<1>4. BookIn(s) = b
  BY DEF BookIn
<1>5. b \in Seq(Persons)
  <2> HIDE DEF e, n
  <2> QED BY <1>1, <1>3, IsASeq
<1>6. Len(b) = n
  <2>1. DOMAIN b = 1 .. n OBVIOUS
  <2> HIDE DEF b, n
  <2> QED BY <2>1, <1>1, <1>5, LenProperties
<1>7. \A k \in 1 .. n : b[k] = e(k) OBVIOUS
<1> HIDE DEF b
<1> QED BY <1>4, <1>5, <1>6, <1>7

(* A fact about the model of the file: SerializeToOstream and BookIn, both *)
(* external, agree.                                                        *)
LEMMA RoundTrip ==
    ASSUME NEW book \in Seq(Persons)
    PROVE  Parses(SerializeToOstream(book)) /\ BookIn(SerializeToOstream(book)) = book
<1> DEFINE s == SerializeToOstream(book)
           n == Len(book)
<1>1. /\ s \in Seq(Units) /\ Len(s) = 2 * n
      /\ \A k \in 1 .. n : /\ s[2 * k - 1] = HeadOf(book[k][1])
                           /\ s[2 * k] = TailOf(book[k][2])
  BY SerializeProperties
<1>2. n \in Nat /\ \A k \in 1 .. n : book[k] \in Persons
  BY LenProperties, ElementOfSeq
<1> HIDE DEF s
<1>3. ASSUME NEW k \in 1 .. Len(s)
      PROVE  s[k][1] = (IF k % 2 = 1 THEN "head" ELSE "tail")
  <2>1. CASE k % 2 = 1
    <3>1. (k + 1) \div 2 \in 1 .. n /\ 2 * ((k + 1) \div 2) - 1 = k
      <4>1. k \in 1 .. 2 * n BY <1>1
      <4>2. PICK m \in Nat : k = 2 * m + 1
        <5>1. k = 2 * (k \div 2) + 1 /\ k \div 2 \in Nat BY <2>1, <4>1, <1>2
        <5> QED BY <5>1
      <4>3. (k + 1) \div 2 = m + 1 BY <4>2
      <4> QED BY <4>1, <4>2, <4>3, <1>2
    <3>2. s[k] = HeadOf(book[(k + 1) \div 2][1])
      BY <3>1, <1>1
    <3> QED BY <3>2, <2>1 DEF HeadOf
  <2>2. CASE k % 2 # 1
    <3>1. k \div 2 \in 1 .. n /\ 2 * (k \div 2) = k
      BY <1>1, <1>2, <2>2
    <3>2. s[k] = TailOf(book[k \div 2][2])
      BY <3>1, <1>1
    <3> QED BY <3>2, <2>2 DEF TailOf
  <2> QED BY <2>1, <2>2
<1>4. Len(s) % 2 = 0 /\ (Len(s) + 1) \div 2 = n
  BY <1>1, <1>2
<1>5. /\ BookIn(s) \in Seq(Persons) /\ Len(BookIn(s)) = n
      /\ \A k \in 1 .. n : BookIn(s)[k] =
            <<s[2 * k - 1][2], IF 2 * k <= Len(s) THEN s[2 * k][2] ELSE Missing>>
  BY <1>1, <1>4, BookInProperties
<1>6. ASSUME NEW k \in 1 .. n PROVE BookIn(s)[k] = book[k]
  <2>1. 2 * k <= Len(s) BY <1>1, <1>2
  <2>2. BookIn(s)[k] = <<s[2 * k - 1][2], s[2 * k][2]>> BY <2>1, <1>5
  <2>3. s[2 * k - 1][2] = book[k][1] /\ s[2 * k][2] = book[k][2]
    BY <1>1 DEF HeadOf, TailOf
  <2>4. book[k] = <<book[k][1], book[k][2]>> BY <1>2 DEF Persons
  <2> QED BY <2>2, <2>3, <2>4
<1>7. BookIn(s) = book
  BY <1>5, <1>6, SeqEqual
<1> QED BY <1>3, <1>4, <1>7 DEF Parses, s

LEMMA MaxOfTwo ==
    ASSUME NEW a \in Nat, NEW b \in Nat, a <= b
    PROVE  Max({a, b}) = b
<1>1. b \in {a, b} /\ \A y \in {a, b} : b >= y OBVIOUS
<1>2. \A x \in {a, b} : (\A y \in {a, b} : x >= y) => x = b OBVIOUS
<1> QED BY <1>1, <1>2 DEF Max

(* A piece of a book written where the file ends makes the file longer.    *)
LEMMA OverlaidAtEnd ==
    ASSUME NEW b \in Seq(Units), NEW o \in 0 .. Len(b), NEW n \in o + 1 .. Len(b)
    PROVE  Overlaid(SubSeq(b, 1, o), o, SubSeq(b, o + 1, n)) = SubSeq(b, 1, n)
<1> DEFINE s == SubSeq(b, 1, o)
           u == SubSeq(b, o + 1, n)
           r == SubSeq(b, 1, n)
<1>1. Len(b) \in Nat /\ o \in Nat /\ n \in Nat /\ o < n /\ n <= Len(b)
      /\ \A k \in 1 .. Len(b) : b[k] \in Units
  BY LenProperties, ElementOfSeq
<1>2. s \in Seq(Units) /\ Len(s) = o /\ \A k \in 1 .. o : s[k] = b[k]
  BY <1>1, SubSeqProperties
<1>3. Len(u) = n - o /\ \A k \in 1 .. n - o : u[k] = b[o + k]
  <2>1. o + 1 \in Int /\ n \in Int /\ n - (o + 1) + 1 = n - o /\ o + 1 <= n
    BY <1>1
  <2>2. \A k \in o + 1 .. n : b[k] \in Units BY <1>1
  <2>3. Len(u) = n - o /\ \A k \in 1 .. n - o : u[k] = b[(o + 1) + k - 1]
    BY <2>1, <2>2, SubSeqProperties
  <2>4. \A k \in 1 .. n - o : (o + 1) + k - 1 = o + k BY <1>1
  <2> QED BY <2>3, <2>4
<1>4. r \in Seq(Units) /\ Len(r) = n /\ \A k \in 1 .. n : r[k] = b[k]
  BY <1>1, SubSeqProperties
<1> HIDE DEF s, u, r
<1>5. Max({Len(s), o + Len(u)}) = n
  <2>1. o + Len(u) = n BY <1>1, <1>3
  <2> QED BY <2>1, <1>1, <1>2, MaxOfTwo
<1> DEFINE v == Overlaid(s, o, u)
<1>6. /\ DOMAIN v = 1 .. n
      /\ \A k \in 1 .. n : v[k] = IF k \in o + 1 .. o + Len(u) THEN u[k - o]
                                  ELSE IF k <= Len(s) THEN s[k] ELSE Hole
  BY <1>5 DEF Overlaid
<1>7. v = [k \in 1 .. n |-> v[k]]
  BY <1>5, <1>6 DEF Overlaid
<1> HIDE DEF v
<1>8. ASSUME NEW k \in 1 .. n PROVE v[k] = b[k]
  <2>1. CASE k <= o
    <3>1. k \notin o + 1 .. o + Len(u) /\ k \in 1 .. o BY <2>1, <1>1, <1>3
    <3> QED BY <3>1, <1>2, <1>6
  <2>2. CASE k > o
    <3>1. k \in o + 1 .. o + Len(u) /\ k - o \in 1 .. n - o /\ o + (k - o) = k
      BY <2>2, <1>1, <1>3
    <3> QED BY <3>1, <1>3, <1>6
  <2> QED BY <2>1, <2>2, <1>1
<1>9. r = [k \in 1 .. n |-> r[k]]
  BY <1>4, LenProperties
<1> QED BY <1>4, <1>7, <1>8, <1>9 DEF v, s, u, r

LEMMA OverlaidType ==
    ASSUME NEW s \in Seq(Units), NEW o \in Nat, NEW u \in Seq(Units)
    PROVE  Overlaid(s, o, u) \in Seq(Units)
<1> DEFINE m == Max({Len(s), o + Len(u)})
           e(k) == IF k \in o + 1 .. o + Len(u) THEN u[k - o]
                   ELSE IF k <= Len(s) THEN s[k] ELSE Hole
<1>1. Len(s) \in Nat /\ Len(u) \in Nat
  BY LenProperties
<1>2. m \in Nat
  <2>1. {Len(s), o + Len(u)} = {o + Len(u), Len(s)} OBVIOUS
  <2>2. o + Len(u) \in Nat BY <1>1
  <2>3. Len(s) <= o + Len(u) \/ o + Len(u) <= Len(s) BY <1>1
  <2> QED BY <1>1, <2>1, <2>2, <2>3, MaxOfTwo
<1>3. Missing \in Names /\ Hole \in Units
  BY DEF Names, Hole, Units
<1>4. ASSUME NEW k \in 1 .. m PROVE e(k) \in Units
  <2>1. k \in o + 1 .. o + Len(u) => k - o \in 1 .. Len(u) BY <1>1
  <2>2. k <= Len(s) => k \in 1 .. Len(s) OBVIOUS
  <2> QED BY <2>1, <2>2, <1>3, ElementOfSeq
<1>5. Overlaid(s, o, u) = [k \in 1 .. m |-> e(k)]
  BY DEF Overlaid
<1> HIDE DEF m, e
<1> QED BY <1>2, <1>4, <1>5, IsASeq

-----------------------------------------------------------------------------
(* Type correctness.                                                       *)

Phases == {"start", "read", "prompt", "truncate", "write",
           "listed", "saved", "failed", "crashed"}

Process == [pc : Phases, buf : Seq(Units), off : Nat, book : Seq(Persons)]

LEMMA ProcessFacts ==
    ASSUME TypeOK, NEW p \in Processes
    PROVE  /\ proc[p] \in Process
           /\ proc[p].buf \in Seq(Units) /\ proc[p].off \in Nat
           /\ proc[p].book \in Seq(Persons)
           /\ Len(proc[p].buf) \in Nat
BY LenProperties DEF TypeOK, Process, Phases

LEMMA BecomesFacts ==
    ASSUME TypeOK, NEW p \in Processes, NEW record \in Process, Becomes(p, record)
    PROVE  /\ proc' \in [Processes -> Process]
           /\ proc'[p] = record
           /\ \A q \in Processes \ {p} : proc'[q] = proc[q]
<1>1. proc \in [Processes -> Process]
  BY DEF TypeOK, Process, Phases
<1> QED BY <1>1 DEF Becomes

LEMMA EmptySequences == <<>> \in Seq(Units) /\ <<>> \in Seq(Persons) /\ Len(<<>>) = 0
BY EmptySeq

LEMMA IdleIn ==
    ASSUME NEW how \in Phases, NEW book \in Seq(Persons)
    PROVE  /\ [Idle EXCEPT !.pc = how] \in Process
           /\ [Idle EXCEPT !.pc = how].pc = how
           /\ [Idle EXCEPT !.pc = how].buf = <<>>
           /\ [Idle EXCEPT !.pc = how].book = <<>>
           /\ [Idle EXCEPT !.pc = how].off = 0
           /\ [Idle EXCEPT !.pc = how, !.book = book] \in Process
           /\ [Idle EXCEPT !.pc = how, !.book = book].pc = how
           /\ [Idle EXCEPT !.pc = how, !.book = book].book = book
           /\ [Idle EXCEPT !.pc = how, !.book = book].off = 0
<1>1. <<>> \in Seq(Units) /\ <<>> \in Seq(Persons)
  BY EmptySequences
<1>2. /\ Idle \in Process /\ Idle.buf = <<>> /\ Idle.book = <<>> /\ Idle.off = 0
  <2>1. \A u \in Seq(Units), b \in Seq(Persons) :
           [pc |-> "start", buf |-> u, off |-> 0, book |-> b] \in Process
    BY DEF Process, Phases
  <2>2. Idle \in Process
    BY <1>1, <2>1, Zenon DEF Idle
  <2> QED BY <2>2 DEF Idle
<1> QED BY <1>2 DEF Process

(* What a process becomes in each step.                                    *)
LEMMA EndsFacts ==
    ASSUME TypeOK, NEW p \in Processes, NEW how \in Phases, Ends(p, how)
    PROVE  /\ proc' \in [Processes -> Process]
           /\ proc'[p].pc = how
           /\ proc'[p].book = proc[p].book
           /\ \A q \in Processes \ {p} : proc'[q] = proc[q]
<1>1. proc[p].book \in Seq(Persons)
  BY ProcessFacts
<1> DEFINE record == [Idle EXCEPT !.pc = how, !.book = proc[p].book]
<1>2. record \in Process /\ record.pc = how /\ record.book = proc[p].book
  BY <1>1, IdleIn
<1>3. Becomes(p, record)
  BY DEF Ends
<1> HIDE DEF record
<1> QED BY <1>2, <1>3, BecomesFacts

LEMMA OpenFacts ==
    ASSUME TypeOK, NEW p \in Processes, Open(p)
    PROVE  /\ proc[p].pc = "start" /\ file # Missing
           /\ proc' \in [Processes -> Process]
           /\ proc'[p].pc = "read" /\ proc'[p].buf = <<>>
           /\ \A q \in Processes \ {p} : proc'[q] = proc[q]
           /\ UNCHANGED <<file, entered, saved, faults>>
<1> DEFINE record == [Idle EXCEPT !.pc = "read"]
<1>1. record \in Process /\ record.pc = "read" /\ record.buf = <<>>
  BY EmptySequences, IdleIn DEF Phases
<1>2. Becomes(p, record)
  BY DEF Open
<1> HIDE DEF record
<1>3. /\ proc' \in [Processes -> Process] /\ proc'[p] = record
      /\ \A q \in Processes \ {p} : proc'[q] = proc[q]
  BY <1>1, <1>2, BecomesFacts
<1> QED BY <1>1, <1>3 DEF Open, Begins

LEMMA OpenFailsFacts ==
    ASSUME TypeOK, NEW p \in Processes, OpenFails(p)
    PROVE  /\ proc[p].pc = "start"
           /\ proc' \in [Processes -> Process]
           /\ proc'[p].pc = IF p \in Writers THEN "prompt" ELSE "failed"
           /\ proc'[p].book = <<>> /\ proc'[p].off = 0
           /\ \A q \in Processes \ {p} : proc'[q] = proc[q]
           /\ faults' = IF file = Missing THEN faults ELSE faults \cup {"open"}
           /\ UNCHANGED <<file, entered, saved>>
<1> DEFINE how == IF p \in Writers THEN "prompt" ELSE "failed"
           record == [Idle EXCEPT !.pc = how]
<1>1. how \in Phases BY DEF Phases
<1>2. Becomes(p, record)
  BY DEF OpenFails
<1> HIDE DEF how
<1>3. record \in Process /\ record.pc = how /\ record.book = <<>> /\ record.off = 0
  BY <1>1, EmptySequences, IdleIn
<1> HIDE DEF record
<1>4. /\ proc' \in [Processes -> Process] /\ proc'[p] = record
      /\ \A q \in Processes \ {p} : proc'[q] = proc[q]
  BY <1>2, <1>3, BecomesFacts
<1> QED BY <1>3, <1>4 DEF OpenFails, Begins, how

LEMMA ReadFacts ==
    ASSUME TypeOK, NEW p \in Processes, Read(p), file # Missing
    PROVE  /\ proc[p].pc = "read"
           /\ proc' \in [Processes -> Process]
           /\ proc'[p].pc = "read" /\ proc'[p].book = proc[p].book
           /\ \E n \in Len(proc[p].buf) + 1 .. Len(file) :
                proc'[p].buf = proc[p].buf \o SubSeq(file, Len(proc[p].buf) + 1, n)
           /\ \A q \in Processes \ {p} : proc'[q] = proc[q]
           /\ UNCHANGED <<file, history>>
<1>1. /\ proc[p] \in Process /\ proc[p].buf \in Seq(Units)
      /\ Len(proc[p].buf) \in Nat /\ file \in Seq(Units) /\ Len(file) \in Nat
  BY ProcessFacts, LenProperties DEF TypeOK
<1>2. PICK n \in Len(proc[p].buf) + 1 .. Len(file) :
         Becomes(p, [proc[p] EXCEPT !.buf = @ \o SubSeq(file, Len(@) + 1, n)])
  BY DEF Read
<1> DEFINE piece == SubSeq(file, Len(proc[p].buf) + 1, n)
           record == [proc[p] EXCEPT !.buf = proc[p].buf \o piece]
<1>3. piece \in Seq(Units)
  <2>1. \A k \in Len(proc[p].buf) + 1 .. n : file[k] \in Units
    BY <1>1, ElementOfSeq
  <2> QED BY <1>1, <2>1, SubSeqProperties
<1>4. proc[p].buf \o piece \in Seq(Units)
  BY <1>1, <1>3, ConcatProperties
<1>5. Becomes(p, record)
  BY <1>2
<1> HIDE DEF piece
<1>6. /\ record \in Process /\ record.pc = proc[p].pc /\ record.book = proc[p].book
      /\ record.buf = proc[p].buf \o piece
  BY <1>1, <1>4 DEF Process
<1> HIDE DEF record
<1>7. /\ proc' \in [Processes -> Process] /\ proc'[p] = record
      /\ \A q \in Processes \ {p} : proc'[q] = proc[q]
  BY <1>5, <1>6, BecomesFacts
<1> QED BY <1>6, <1>7 DEF Read, piece

LEMMA ParsedFacts ==
    ASSUME TypeOK, NEW p \in Processes, Parsed(p)
    PROVE  /\ proc[p].pc = "read" /\ AtEnd(p) /\ Parses(proc[p].buf)
           /\ proc' \in [Processes -> Process]
           /\ proc'[p].pc = IF p \in Writers THEN "prompt" ELSE "listed"
           /\ proc'[p].book = BookIn(proc[p].buf) /\ proc'[p].off = 0
           /\ \A q \in Processes \ {p} : proc'[q] = proc[q]
           /\ UNCHANGED <<file, history>>
<1> DEFINE how == IF p \in Writers THEN "prompt" ELSE "listed"
           b == BookIn(proc[p].buf)
           record == [Idle EXCEPT !.pc = how, !.book = b]
<1>1. how \in Phases BY DEF Phases
<1>2. b \in Seq(Persons)
  BY ProcessFacts, BookInProperties
<1>3. Becomes(p, record)
  BY DEF Parsed
<1> HIDE DEF how, b
<1>4. record \in Process /\ record.pc = how /\ record.book = b /\ record.off = 0
  BY <1>1, <1>2, IdleIn
<1> HIDE DEF record
<1>5. /\ proc' \in [Processes -> Process] /\ proc'[p] = record
      /\ \A q \in Processes \ {p} : proc'[q] = proc[q]
  BY <1>3, <1>4, BecomesFacts
<1> QED BY <1>4, <1>5 DEF Parsed, how, b

LEMMA PromptFacts ==
    ASSUME TypeOK, NEW p \in Writers, PromptForAddress(p)
    PROVE  /\ proc[p].pc = "prompt"
           /\ proc' \in [Processes -> Process]
           /\ proc'[p].pc = "truncate"
           /\ proc'[p].book = Append(proc[p].book, <<p, p>>)
           /\ proc'[p].off = proc[p].off
           /\ \A q \in Processes \ {p} : proc'[q] = proc[q]
           /\ entered' \in Seq(Writers)
           /\ UNCHANGED <<file, saved, faults, collided>>
<1> DEFINE b == Append(proc[p].book, <<p, p>>)
           record == [proc[p] EXCEPT !.pc = "truncate", !.book = b]
<1>1. p \in Processes /\ proc[p] \in Process /\ proc[p].book \in Seq(Persons)
  BY ProcessFacts DEF Processes
<1>2. b \in Seq(Persons)
  <2>1. <<p, p>> \in Persons BY DEF Persons, Names
  <2> QED BY <1>1, <2>1, AppendProperties
<1>3. Becomes(p, record)
  BY DEF PromptForAddress, add_person
<1> HIDE DEF b
<1>4. /\ record \in Process /\ record.pc = "truncate" /\ record.book = b
      /\ record.off = proc[p].off
  BY <1>1, <1>2 DEF Process, Phases
<1> HIDE DEF record
<1>5. /\ proc' \in [Processes -> Process] /\ proc'[p] = record
      /\ \A q \in Processes \ {p} : proc'[q] = proc[q]
  BY <1>1, <1>3, <1>4, BecomesFacts
<1>6. entered' \in Seq(Writers)
  BY AppendProperties DEF PromptForAddress, TypeOK
<1> QED BY <1>4, <1>5, <1>6 DEF PromptForAddress, b

LEMMA TruncateFacts ==
    ASSUME TypeOK, NEW p \in Writers, Truncate(p)
    PROVE  /\ proc[p].pc = "truncate"
           /\ proc' \in [Processes -> Process]
           /\ proc'[p].pc = "write"
           /\ proc'[p].book = proc[p].book
           /\ proc'[p].buf = SerializeToOstream(proc[p].book)
           /\ proc'[p].off = proc[p].off
           /\ \A q \in Processes \ {p} : proc'[q] = proc[q]
           /\ file' = <<>>
           /\ UNCHANGED history
<1> DEFINE u == SerializeToOstream(proc[p].book)
           record == [proc[p] EXCEPT !.pc = "write", !.buf = u]
<1>1. p \in Processes /\ proc[p] \in Process /\ proc[p].book \in Seq(Persons)
  BY ProcessFacts DEF Processes
<1>2. u \in Seq(Units)
  BY <1>1, SerializeProperties
<1>3. Becomes(p, record)
  BY DEF Truncate
<1> HIDE DEF u
<1>4. /\ record \in Process /\ record.pc = "write" /\ record.buf = u
      /\ record.book = proc[p].book /\ record.off = proc[p].off
  BY <1>1, <1>2 DEF Process, Phases
<1> HIDE DEF record
<1>5. /\ proc' \in [Processes -> Process] /\ proc'[p] = record
      /\ \A q \in Processes \ {p} : proc'[q] = proc[q]
  BY <1>1, <1>3, <1>4, BecomesFacts
<1> QED BY <1>4, <1>5 DEF Truncate, u

LEMMA WriteFacts ==
    ASSUME TypeOK, NEW p \in Writers, Write(p), file # Missing
    PROVE  /\ proc[p].pc = "write"
           /\ proc' \in [Processes -> Process]
           /\ proc'[p].pc = "write"
           /\ proc'[p].book = proc[p].book
           /\ proc'[p].buf = proc[p].buf
           /\ proc'[p].off \in proc[p].off + 1 .. Len(proc[p].buf)
           /\ file' = Overlaid(file, proc[p].off,
                        SubSeq(proc[p].buf, proc[p].off + 1, proc'[p].off))
           /\ file' \in Seq(Units)
           /\ \A q \in Processes \ {p} : proc'[q] = proc[q]
           /\ UNCHANGED history
<1>1. /\ p \in Processes /\ proc[p] \in Process /\ proc[p].buf \in Seq(Units)
      /\ Len(proc[p].buf) \in Nat /\ proc[p].off \in Nat /\ file \in Seq(Units)
  BY ProcessFacts DEF Processes, TypeOK
<1>2. PICK n \in proc[p].off + 1 .. Len(proc[p].buf) :
         /\ file' = Overlaid(file, proc[p].off, SubSeq(proc[p].buf, proc[p].off + 1, n))
         /\ Becomes(p, [proc[p] EXCEPT !.off = n])
  BY DEF Write
<1> DEFINE record == [proc[p] EXCEPT !.off = n]
           u == SubSeq(proc[p].buf, proc[p].off + 1, n)
<1>3. u \in Seq(Units)
  <2>1. \A k \in proc[p].off + 1 .. n : proc[p].buf[k] \in Units
    BY <1>1, ElementOfSeq
  <2> QED BY <1>1, <2>1, SubSeqProperties
<1>4. file' \in Seq(Units)
  BY <1>1, <1>2, <1>3, OverlaidType
<1>5. /\ record \in Process /\ record.pc = proc[p].pc /\ record.buf = proc[p].buf
      /\ record.book = proc[p].book /\ record.off = n
  <2>1. n \in Nat BY <1>1
  <2>2. \A r \in Process, m \in Nat :
          LET after == [r EXCEPT !.off = m] IN
          /\ after \in Process /\ after.pc = r.pc /\ after.buf = r.buf
          /\ after.book = r.book /\ after.off = m
    BY DEF Process
  <2> QED BY <1>1, <2>1, <2>2
<1>6. Becomes(p, record) BY <1>2
<1> HIDE DEF record
<1>7. /\ proc' \in [Processes -> Process] /\ proc'[p] = record
      /\ \A q \in Processes \ {p} : proc'[q] = proc[q]
  BY <1>1, <1>5, <1>6, BecomesFacts
<1> QED BY <1>2, <1>4, <1>5, <1>7 DEF Write

(* A step that ends a process: saved grows with a writer that returns 0.   *)
EndStep(p) ==
    \/ ParseFails(p)
    \/ p \in Writers /\ (TruncateFails(p) \/ Written(p) \/ WriteFails(p) \/ Crash(p))

LEMMA EndStepFacts ==
    ASSUME TypeOK, NEW p \in Processes, EndStep(p)
    PROVE  /\ proc' \in [Processes -> Process]
           /\ proc'[p].pc \in {"failed", "saved", "crashed"}
           /\ proc'[p].book = proc[p].book
           /\ \A q \in Processes \ {p} : proc'[q] = proc[q]
           /\ saved' \in Seq(Writers)
           /\ faults' \in {faults, faults \cup {"write"}}
           /\ faults' = {} => (proc[p].pc = "write" => Written(p))
           /\ ~ Written(p) /\ faults' = {} => saved' = saved
           /\ UNCHANGED <<file, entered, collided>>
<1>1. PICK how \in {"failed", "saved", "crashed"} : Ends(p, how)
  BY DEF EndStep, ParseFails, TruncateFails, Written, WriteFails, Crash
<1>2. /\ proc' \in [Processes -> Process]
      /\ proc'[p].pc = how /\ proc'[p].book = proc[p].book
      /\ \A q \in Processes \ {p} : proc'[q] = proc[q]
  BY <1>1, EndsFacts DEF Phases
<1>3. saved' \in Seq(Writers)
  <2>1. saved \in Seq(Writers) BY DEF TypeOK
  <2>2. p \in Writers => Append(saved, p) \in Seq(Writers) BY <2>1, AppendProperties
  <2> QED BY <2>1, <2>2
        DEF EndStep, ParseFails, TruncateFails, Written, WriteFails, Crash, history
<1>4. /\ faults' \in {faults, faults \cup {"write"}}
      /\ faults' = {} => (proc[p].pc = "write" => Written(p))
      /\ ~ Written(p) /\ faults' = {} => saved' = saved
      /\ UNCHANGED <<file, entered, collided>>
  BY DEF EndStep, ParseFails, TruncateFails, Written, WriteFails, Crash, history
<1> QED BY <1>1, <1>2, <1>3, <1>4

LEMMA StepCases ==
    ASSUME [Next]_vars
    PROVE  \/ UNCHANGED vars
           \/ \E p \in Processes :
                Open(p) \/ OpenFails(p) \/ Read(p) \/ Parsed(p) \/ EndStep(p)
           \/ \E p \in Writers : PromptForAddress(p) \/ Truncate(p) \/ Write(p)
<1>1. Writers \subseteq Processes
  BY DEF Processes
<1> QED BY <1>1 DEF Next, Loads, Stores, EndStep

LEMMA TypeInit == Init => TypeInv
<1> SUFFICES ASSUME Init PROVE TypeInv
  OBVIOUS
<1>1. Idle \in Process /\ Idle.pc = "start"
  <2>1. \A u \in Seq(Units), b \in Seq(Persons) :
           [pc |-> "start", buf |-> u, off |-> 0, book |-> b] \in Process
    BY DEF Process, Phases
  <2>2. Idle \in Process
    BY EmptySequences, <2>1, Zenon DEF Idle
  <2> QED BY <2>2 DEF Idle
<1>2. <<>> \in Seq(Writers) BY EmptySeq
<1>3. proc \in [Processes -> Process] /\ \A p \in Processes : proc[p].pc = "start"
  BY <1>1 DEF Init
<1> QED BY <1>2, <1>3 DEF Init, TypeInv, TypeOK, OpenFile, Process, Phases

LEMMA TypeStep == TypeInv /\ [Next]_vars => TypeInv'
<1> SUFFICES ASSUME TypeInv, [Next]_vars PROVE TypeInv'
  OBVIOUS
<1>1. TypeOK /\ Writers \subseteq Processes
  BY DEF TypeInv, Processes
<1>2. /\ file \in Seq(Units) \cup {Missing}
      /\ entered \in Seq(Writers) /\ saved \in Seq(Writers)
      /\ faults \subseteq {"open", "write"} /\ collided \subseteq Processes
  BY <1>1 DEF TypeOK
<1>3. ASSUME file' \in Seq(Units) \cup {Missing},
             proc' \in [Processes -> Process],
             entered' \in Seq(Writers), saved' \in Seq(Writers),
             faults' \subseteq {"open", "write"}, collided' \subseteq Processes,
             \A q \in Processes : proc'[q].pc \in {"read", "write"} => file' # Missing
      PROVE  TypeInv'
  BY <1>3 DEF TypeInv, TypeOK, OpenFile, Process, Phases
<1>4. ASSUME NEW p \in Processes, Begins(p) PROVE collided' \subseteq Processes
  BY <1>1, <1>2, <1>4 DEF Begins
<1>5. ASSUME NEW q \in Processes, proc[q].pc \in {"read", "write"}
      PROVE  file # Missing
  BY <1>5 DEF TypeInv, OpenFile
<1>6. CASE UNCHANGED vars
  <2>1. proc \in [Processes -> Process] BY <1>1 DEF TypeOK, Process, Phases
  <2> QED BY <2>1, <1>2, <1>3, <1>5, <1>6 DEF vars, history
<1>7. ASSUME NEW p \in Processes, Open(p) PROVE TypeInv'
  <2>1. collided' \subseteq Processes BY <1>4, <1>7 DEF Open
  <2> QED BY <2>1, <1>1, <1>2, <1>3, <1>7, OpenFacts
<1>8. ASSUME NEW p \in Processes, OpenFails(p) PROVE TypeInv'
  <2>1. collided' \subseteq Processes BY <1>4, <1>8 DEF OpenFails
  <2>2. \A q \in Processes : proc'[q].pc \in {"read", "write"} =>
           q # p /\ proc'[q] = proc[q]
    BY <1>1, <1>8, OpenFailsFacts
  <2> QED BY <2>1, <2>2, <1>1, <1>2, <1>3, <1>5, <1>8, OpenFailsFacts
<1>9. ASSUME NEW p \in Processes, Read(p) PROVE TypeInv'
  <2>1. file # Missing BY <1>5, <1>9 DEF Read
  <2> QED BY <2>1, <1>1, <1>2, <1>3, <1>9, ReadFacts DEF history
<1>10. ASSUME NEW p \in Processes, Parsed(p) PROVE TypeInv'
  <2>1. file # Missing BY <1>5, <1>10 DEF Parsed
  <2> QED BY <2>1, <1>1, <1>2, <1>3, <1>10, ParsedFacts DEF history
<1>11. ASSUME NEW p \in Processes, EndStep(p) PROVE TypeInv'
  <2>1. \A q \in Processes : proc'[q].pc \in {"read", "write"} =>
           q # p /\ proc'[q] = proc[q]
    BY <1>1, <1>11, EndStepFacts
  <2> QED BY <2>1, <1>1, <1>2, <1>3, <1>5, <1>11, EndStepFacts
<1>12. ASSUME NEW p \in Writers, PromptForAddress(p) PROVE TypeInv'
  <2>1. \A q \in Processes : proc'[q].pc \in {"read", "write"} =>
           q # p /\ proc'[q] = proc[q]
    BY <1>1, <1>12, PromptFacts
  <2> QED BY <2>1, <1>1, <1>2, <1>3, <1>5, <1>12, PromptFacts
<1>13. ASSUME NEW p \in Writers, Truncate(p) PROVE TypeInv'
  <2>1. file' \in Seq(Units) /\ file' # Missing
    BY <1>1, <1>13, TruncateFacts, EmptySequences, AddressBookAssumption
  <2> QED BY <2>1, <1>1, <1>2, <1>3, <1>13, TruncateFacts DEF history
<1>14. ASSUME NEW p \in Writers, Write(p) PROVE TypeInv'
  <2>1. file # Missing BY <1>1, <1>5, <1>14 DEF Write
  <2>2. file' \in Seq(Units) /\ file' # Missing
    BY <2>1, <1>1, <1>14, WriteFacts, AddressBookAssumption
  <2> QED BY <2>1, <2>2, <1>1, <1>2, <1>3, <1>14, WriteFacts DEF history
<1> QED BY <1>6, <1>7, <1>8, <1>9, <1>10, <1>11, <1>12, <1>13, <1>14, StepCases

(* The file, the persons entered and saved and what every process holds    *)
(* have their types, whoever runs at once and whatever fails.              *)
THEOREM TypeCorrect == Spec => []TypeOK
<1>1. TypeInv => TypeOK
  BY DEF TypeInv
<1> QED BY <1>1, TypeInit, TypeStep, PTL DEF Spec

-----------------------------------------------------------------------------
(* One writer at a time, and what it holds.                                *)

LEMMA Monotone ==
    ASSUME [Next]_vars
    PROVE  collided \subseteq collided' /\ faults \subseteq faults'
<1> USE DEF history
<1>1. CASE UNCHANGED vars BY <1>1 DEF vars
<1>2. ASSUME NEW p \in Processes, Begins(p) PROVE collided \subseteq collided'
  BY <1>2 DEF Begins
<1>3. ASSUME NEW p \in Processes, Open(p) \/ OpenFails(p)
      PROVE  collided \subseteq collided' /\ faults \subseteq faults'
  BY <1>2, <1>3 DEF Open, OpenFails
<1>4. ASSUME NEW p \in Processes, Read(p) \/ Parsed(p) \/ EndStep(p)
      PROVE  collided \subseteq collided' /\ faults \subseteq faults'
  BY <1>4 DEF Read, Parsed, EndStep, ParseFails, TruncateFails, Written, WriteFails, Crash
<1>5. ASSUME NEW p \in Writers, PromptForAddress(p) \/ Truncate(p) \/ Write(p)
      PROVE  collided \subseteq collided' /\ faults \subseteq faults'
  BY <1>5 DEF PromptForAddress, Truncate, Write
<1> QED BY <1>1, <1>3, <1>4, <1>5, StepCases

LEMMA AloneKept ==
    ASSUME Alone, NEW p \in Processes, Active(p)' => Active(p),
           \A q \in Processes \ {p} : proc'[q] = proc[q]
    PROVE  Alone'
<1> SUFFICES ASSUME NEW q \in Writers, NEW r \in Writers, Active(q)', Active(r)'
             PROVE  q = r
  BY DEF Alone
<1>1. q \in Processes /\ r \in Processes BY DEF Processes
<1>2. Active(q) /\ Active(r) BY <1>1 DEF Active
<1> QED BY <1>2 DEF Alone

(* A writer that starts while another runs collides with it.               *)
LEMMA AloneBegun ==
    ASSUME Alone, Apart', NEW p \in Processes, Begins(p),
           \A q \in Processes \ {p} : proc'[q] = proc[q]
    PROVE  Alone'
<1> SUFFICES ASSUME NEW q \in Writers, NEW r \in Writers, Active(q)', Active(r)', q # r
             PROVE  FALSE
  BY DEF Alone
<1>1. q \in Processes /\ r \in Processes BY DEF Processes
<1> DEFINE others == {o \in Processes \ {p} : Active(o)}
<1>2. collided' = collided \cup (IF others \cap Writers # {} THEN {p} ELSE {})
                           \cup (IF p \in Writers THEN others ELSE {})
  BY DEF Begins
<1>3. CASE q # p /\ r # p
  <2>1. Active(q) /\ Active(r) BY <1>1, <1>3 DEF Active
  <2> QED BY <2>1 DEF Alone
<1>4. CASE q = p
  <2>1. Active(r) /\ r # p BY <1>1, <1>4 DEF Active
  <2>2. r \in others \cap Writers BY <2>1, <1>1
  <2>3. p \in collided' \cap Writers BY <2>2, <1>2, <1>4
  <2> QED BY <2>3 DEF Apart
<1>5. CASE r = p
  <2>1. Active(q) /\ q # p BY <1>1, <1>5 DEF Active
  <2>2. q \in others \cap Writers BY <2>1, <1>1
  <2>3. p \in collided' \cap Writers BY <2>2, <1>2, <1>5
  <2> QED BY <2>3 DEF Apart
<1> QED BY <1>3, <1>4, <1>5

LEMMA HeldKept ==
    ASSUME NEW q \in Writers, Held(q), proc'[q] = proc[q],
           UNCHANGED file, faults \subseteq faults'
    PROVE  Held(q)'
BY DEF Held, ReadSoFar

(* A writer that is not active holds nothing.                              *)
LEMMA HeldInactive ==
    ASSUME NEW q \in Writers, ~ Active(q)'
    PROVE  Held(q)'
BY DEF Held, Active

LEMMA ReadKept ==
    ASSUME TypeInv, NEW p \in Processes, ReadSoFar(p), Read(p)
    PROVE  proc'[p].pc = "read" /\ ReadSoFar(p)'
<1>1. TypeOK /\ proc[p].pc = "read" /\ file # Missing
  BY DEF TypeInv, OpenFile, Read
<1>2. /\ file \in Seq(Units) /\ Len(file) \in Nat
      /\ proc[p].buf \in Seq(Units) /\ Len(proc[p].buf) \in Nat
  BY <1>1, ProcessFacts, LenProperties DEF TypeOK
<1> DEFINE o == Len(proc[p].buf)
<1>3. o <= Len(file) /\ proc[p].buf = SubSeq(file, 1, o)
  BY DEF ReadSoFar
<1>4. PICK n \in o + 1 .. Len(file) :
         proc'[p].buf = proc[p].buf \o SubSeq(file, o + 1, n)
  BY <1>1, ReadFacts
<1>5. proc'[p].pc = "read" /\ UNCHANGED file
  BY <1>1, ReadFacts
<1>6. proc'[p].buf = SubSeq(file, 1, n)
  <2>1. 1 \in 1 .. Len(file) + 1 /\ o \in 0 .. Len(file) /\ n \in o .. Len(file)
        /\ 1 - 1 = 0
    BY <1>2, <1>3
  <2> HIDE DEF o
  <2>2. SubSeq(file, 1, o) \o SubSeq(file, o + 1, n) = SubSeq(file, 1, n)
    BY <2>1, <1>2, ConcatAdjacentSubSeq
  <2> QED BY <2>2, <1>3, <1>4
<1>7. Len(SubSeq(file, 1, n)) = n
  <2>1. \A k \in 1 .. n : file[k] \in Units BY <1>2, ElementOfSeq
  <2>2. n \in Nat /\ n >= 1 BY <1>2
  <2> QED BY <2>1, <2>2, SubSeqProperties
<1>8. n <= Len(file) BY <1>2
<1> QED BY <1>5, <1>6, <1>7, <1>8 DEF ReadSoFar

(* A book that is parsed is the file.                                      *)
LEMMA ParsedIsFile ==
    ASSUME TypeInv, NEW p \in Processes, ReadSoFar(p), Parsed(p)
    PROVE  proc[p].buf = file /\ Parses(file) /\ file # Missing
<1>1. /\ TypeOK /\ proc[p].pc = "read" /\ file # Missing
      /\ Len(proc[p].buf) >= Len(file) /\ Parses(proc[p].buf)
  BY DEF TypeInv, OpenFile, Parsed, AtEnd
<1>2. file \in Seq(Units) /\ Len(file) \in Nat /\ Len(proc[p].buf) \in Nat
  BY <1>1, ProcessFacts, LenProperties DEF TypeOK
<1>3. Len(proc[p].buf) <= Len(file) /\ proc[p].buf = SubSeq(file, 1, Len(proc[p].buf))
  BY DEF ReadSoFar
<1>4. Len(proc[p].buf) = Len(file)
  BY <1>1, <1>2, <1>3
<1>5. SubSeq(file, 1, Len(file)) = file
  BY <1>2, SubSeqFull
<1> QED BY <1>1, <1>3, <1>4, <1>5

LEMMA HeldStep == HeldInv /\ [Next]_vars => HeldInv'
<1> SUFFICES ASSUME HeldInv, [Next]_vars, Apart'
             PROVE  Alone' /\ \A q \in Writers : Held(q)'
  BY TypeStep DEF HeldInv
<1>1. TypeInv /\ TypeOK /\ Writers \subseteq Processes
  BY DEF HeldInv, TypeInv, Processes
<1>2. collided \subseteq collided' /\ faults \subseteq faults'
  BY Monotone
<1>3. Alone /\ \A q \in Writers : Held(q)
  BY <1>2 DEF HeldInv, Apart
<1> DEFINE Good == Alone' /\ \A q \in Writers : Held(q)'
<1>4. CASE UNCHANGED vars
  <2>1. Alone' BY <1>3, <1>4 DEF vars, Alone, Active
  <2>2. \A q \in Writers : Held(q)' BY <1>2, <1>3, <1>4, HeldKept DEF vars
  <2> QED BY <2>1, <2>2
<1>5. ASSUME NEW p \in Processes, \A q \in Processes \ {p} : proc'[q] = proc[q],
             UNCHANGED file, Alone', p \in Writers => Held(p)'
      PROVE  Good
  <2>1. ASSUME NEW q \in Writers, q # p PROVE Held(q)'
    <3>1. proc'[q] = proc[q] BY <2>1, <1>1, <1>5
    <3> QED BY <3>1, <1>2, <1>3, <1>5, HeldKept
  <2> QED BY <2>1, <1>5
<1>6. ASSUME NEW p \in Processes, Open(p) PROVE Good
  <2>1. /\ \A q \in Processes \ {p} : proc'[q] = proc[q]
        /\ proc'[p].pc = "read" /\ proc'[p].buf = <<>> /\ file # Missing
        /\ UNCHANGED file
    BY <1>1, <1>6, OpenFacts
  <2>2. Alone' BY <2>1, <1>3, <1>6, AloneBegun DEF Open
  <2>3. file \in Seq(Units) /\ Len(file) \in Nat BY <2>1, <1>1, LenProperties DEF TypeOK
  <2>4. SubSeq(file, 1, 0) = <<>> BY SubSeqEmpty
  <2>5. Held(p)' BY <2>1, <2>3, <2>4, EmptySequences DEF Held, ReadSoFar
  <2> QED BY <2>1, <2>2, <2>5, <1>5
<1>7. ASSUME NEW p \in Processes, OpenFails(p) PROVE Good
  <2>1. /\ \A q \in Processes \ {p} : proc'[q] = proc[q]
        /\ proc'[p].pc \in {"prompt", "failed"} /\ proc'[p].book = <<>>
        /\ faults' = IF file = Missing THEN faults ELSE faults \cup {"open"}
        /\ UNCHANGED file
    BY <1>1, <1>7, OpenFailsFacts
  <2>2. Alone' BY <2>1, <1>3, <1>7, AloneBegun DEF OpenFails
  <2>3. Held(p)' BY <2>1 DEF Held
  <2> QED BY <2>1, <2>2, <2>3, <1>5
<1>8. ASSUME NEW p \in Processes, Read(p) PROVE Good
  <2>1. file # Missing BY <1>1, <1>8 DEF TypeInv, OpenFile, Read
  <2>2. /\ \A q \in Processes \ {p} : proc'[q] = proc[q]
        /\ proc[p].pc = "read" /\ UNCHANGED file
    BY <2>1, <1>1, <1>8, ReadFacts
  <2>3. Alone' BY <2>2, <1>3, AloneKept DEF Active
  <2>4. p \in Writers => Held(p)'
    <3>1. p \in Writers => ReadSoFar(p) BY <2>2, <1>3 DEF Held
    <3> QED BY <3>1, <1>1, <1>8, ReadKept DEF Held
  <2> QED BY <2>2, <2>3, <2>4, <1>5
<1>9. ASSUME NEW p \in Processes, Parsed(p) PROVE Good
  <2>1. /\ \A q \in Processes \ {p} : proc'[q] = proc[q]
        /\ proc[p].pc = "read" /\ UNCHANGED file
        /\ proc'[p].pc \in {"prompt", "listed"} /\ proc'[p].book = BookIn(proc[p].buf)
    BY <1>1, <1>9, ParsedFacts
  <2>2. Alone' BY <2>1, <1>3, AloneKept DEF Active
  <2>3. p \in Writers => Held(p)'
    <3> SUFFICES ASSUME p \in Writers PROVE Held(p)' OBVIOUS
    <3>1. proc[p].buf = file /\ Parses(file)
      BY <2>1, <1>1, <1>3, <1>9, ParsedIsFile DEF Held
    <3>2. Parses(file)' /\ BookIn(file)' = BookIn(file)
      BY <2>1, <3>1 DEF Parses, BookIn
    <3> QED BY <2>1, <3>1, <3>2 DEF Held
  <2> QED BY <2>1, <2>2, <2>3, <1>5
<1>10. ASSUME NEW p \in Processes, EndStep(p) PROVE Good
  <2>1. /\ \A q \in Processes \ {p} : proc'[q] = proc[q]
        /\ proc'[p].pc \in {"failed", "saved", "crashed"} /\ UNCHANGED file
    BY <1>1, <1>10, EndStepFacts
  <2>2. ~ Active(p)' BY <2>1 DEF Active
  <2>3. Alone' BY <2>1, <2>2, <1>3, AloneKept
  <2>4. p \in Writers => Held(p)' BY <2>2, HeldInactive
  <2> QED BY <2>1, <2>3, <2>4, <1>5
<1>11. ASSUME NEW p \in Writers, PromptForAddress(p) PROVE Good
  <2>1. /\ \A q \in Processes \ {p} : proc'[q] = proc[q]
        /\ proc[p].pc = "prompt" /\ UNCHANGED <<file, faults>>
        /\ proc'[p].pc = "truncate"
        /\ proc'[p].book = Append(proc[p].book, <<p, p>>)
    BY <1>1, <1>11, PromptFacts
  <2>2. Alone' BY <2>1, <1>1, <1>3, AloneKept DEF Active
  <2>3. Held(p)' BY <2>1, <1>3 DEF Held
  <2> QED BY <2>1, <2>2, <2>3, <1>1, <1>5
<1>12. ASSUME NEW p \in Writers, Active(p), Active(p)', proc'[p].pc = "write",
              \A q \in Processes \ {p} : proc'[q] = proc[q]
       PROVE  Good
  <2>1. Alone' BY <1>1, <1>3, <1>12, AloneKept
  <2>2. ASSUME NEW q \in Writers PROVE Held(q)'
    <3>1. CASE q = p BY <3>1, <1>12 DEF Held
    <3>2. CASE q # p
      <4>1. ~ Active(q) BY <3>2, <1>3, <1>12 DEF Alone
      <4>2. ~ Active(q)' BY <4>1, <3>2, <1>1, <1>12 DEF Active
      <4> QED BY <4>2, HeldInactive
    <3> QED BY <3>1, <3>2
  <2> QED BY <2>1, <2>2
<1>13. ASSUME NEW p \in Writers, Truncate(p) PROVE Good
  <2>1. /\ \A q \in Processes \ {p} : proc'[q] = proc[q]
        /\ proc[p].pc = "truncate" /\ proc'[p].pc = "write"
    BY <1>1, <1>13, TruncateFacts
  <2> QED BY <2>1, <1>12 DEF Active
<1>14. ASSUME NEW p \in Writers, Write(p) PROVE Good
  <2>1. file # Missing BY <1>1, <1>14 DEF TypeInv, OpenFile, Write
  <2>2. /\ \A q \in Processes \ {p} : proc'[q] = proc[q]
        /\ proc[p].pc = "write" /\ proc'[p].pc = "write"
    BY <2>1, <1>1, <1>14, WriteFacts
  <2> QED BY <2>2, <1>12 DEF Active
<1> QED BY <1>4, <1>6, <1>7, <1>8, <1>9, <1>10, <1>11, <1>13, <1>14, StepCases

LEMMA HeldInit == Init => HeldInv
<1> SUFFICES ASSUME Init PROVE HeldInv
  OBVIOUS
<1>1. \A p \in Writers : proc[p].pc = "start"
  BY DEF Init, Idle, Processes
<1> QED BY <1>1, TypeInit DEF HeldInv, Alone, Active, Held

(* The file that a writer truncates is what it holds, but for the person   *)
(* it adds: no book and no damaged file is thrown away, unless writers     *)
(* collide or an open fails, whatever crashes.                             *)
THEOREM TruncatesOnlyWhatItHolds == Spec => HeldBeforeTruncated
<1>1. HeldInv /\ [Next]_vars =>
        [\A p \in Writers :
            (/\ proc[p].pc = "truncate" /\ proc'[p].pc = "write"
             /\ Apart /\ "open" \notin faults)
              => \/ file = Missing
                 \/ Parses(file) /\ proc[p].book = Append(BookIn(file), <<p, p>>)]_vars
  BY DEF HeldInv, Held
<1> QED BY <1>1, HeldInit, HeldStep, PTL DEF Spec, HeldBeforeTruncated

-----------------------------------------------------------------------------
(* The book of all the persons that were saved.                            *)

LEMMA RecordsType ==
    ASSUME NEW v \in Seq(Writers)
    PROVE  /\ Records(v) \in Seq(Persons) /\ Len(Records(v)) = Len(v)
           /\ \A k \in 1 .. Len(v) : Records(v)[k] = <<v[k], v[k]>>
<1> DEFINE e(k) == <<v[k], v[k]>>
           r == [k \in 1 .. Len(v) |-> e(k)]
<1>1. Len(v) \in Nat BY LenProperties
<1>2. \A k \in 1 .. Len(v) : e(k) \in Persons
  BY ElementOfSeq DEF Persons, Names
<1>3. r \in Seq(Persons)
  <2> HIDE DEF e
  <2> QED BY <1>1, <1>2, IsASeq
<1>4. DOMAIN r = 1 .. Len(v) /\ \A k \in 1 .. Len(v) : r[k] = e(k) OBVIOUS
<1>5. Records(v) = r BY DEF Records
<1> HIDE DEF r
<1>6. Len(r) = Len(v) BY <1>1, <1>3, <1>4, LenProperties
<1> QED BY <1>3, <1>4, <1>5, <1>6

LEMMA RecordsProperties ==
    ASSUME NEW s \in Seq(Writers), NEW w \in Writers
    PROVE  /\ Records(<<>>) = <<>>
           /\ Records(Append(s, w)) = Append(Records(s), <<w, w>>)
<1>1. \A v \in Seq(Writers) : /\ Records(v) \in Seq(Persons) /\ Len(Records(v)) = Len(v)
                              /\ \A k \in 1 .. Len(v) : Records(v)[k] = <<v[k], v[k]>>
  BY RecordsType
<1>2. /\ Append(s, w) \in Seq(Writers) /\ Len(Append(s, w)) = Len(s) + 1
      /\ \A k \in 1 .. Len(s) : Append(s, w)[k] = s[k]
      /\ Append(s, w)[Len(s) + 1] = w
  BY AppendProperties
<1>3. Len(s) \in Nat BY LenProperties
<1>4. Records(<<>>) = <<>>
  <2>1. <<>> \in Seq(Writers) /\ Len(<<>>) = 0 BY EmptySeq
  <2>2. Records(<<>>) \in Seq(Persons) /\ Len(Records(<<>>)) = 0 BY <1>1, <2>1
  <2> QED BY <2>2, EmptySeq
<1> DEFINE l == Records(Append(s, w))
           r == Append(Records(s), <<w, w>>)
<1>5. /\ l \in Seq(Persons) /\ Len(l) = Len(s) + 1
      /\ \A k \in 1 .. Len(s) : l[k] = <<s[k], s[k]>>
      /\ l[Len(s) + 1] = <<w, w>>
  <2>1. \A k \in 1 .. Len(s) : k \in 1 .. Len(s) + 1 BY <1>3
  <2>2. Len(s) + 1 \in 1 .. Len(s) + 1 BY <1>3
  <2> QED BY <2>1, <2>2, <1>1, <1>2
<1>6. /\ r \in Seq(Persons) /\ Len(r) = Len(s) + 1
      /\ \A k \in 1 .. Len(s) : r[k] = <<s[k], s[k]>>
      /\ r[Len(s) + 1] = <<w, w>>
  <2>1. <<w, w>> \in Persons BY DEF Persons, Names
  <2> QED BY <2>1, <1>1, AppendProperties
<1>7. l = r
  <2> HIDE DEF l, r
  <2>1. \A k \in 1 .. Len(s) + 1 : k \in 1 .. Len(s) \/ k = Len(s) + 1 BY <1>3
  <2>2. \A k \in 1 .. Len(l) : l[k] = r[k] BY <2>1, <1>5, <1>6
  <2> QED BY <2>2, <1>5, <1>6, SeqEqual
<1> QED BY <1>4, <1>7

LEMMA SavedInit == Init => SavedInv
<1> SUFFICES ASSUME Init PROVE SavedInv
  OBVIOUS
<1>1. \A p \in Writers : proc[p].pc = "start"
  BY DEF Init, Idle, Processes
<1> QED BY <1>1, HeldInit DEF SavedInv, Saving, FileIsSaved, Init

LEMMA SavingKept ==
    ASSUME NEW q \in Writers, Saving(q), proc'[q] = proc[q], UNCHANGED <<file, saved>>
    PROVE  Saving(q)'
BY DEF Saving, Writing, Records, SerializeToOstream

LEMMA SavingInactive ==
    ASSUME NEW q \in Writers, ~ Active(q)'
    PROVE  Saving(q)'
BY DEF Saving, Active

LEMMA FileIsSavedKept ==
    ASSUME FileIsSaved, UNCHANGED <<file, saved>>
    PROVE  FileIsSaved'
BY DEF FileIsSaved, Records, SerializeToOstream

LEMMA SavedStep == SavedInv /\ [Next]_vars => SavedInv'
<1> SUFFICES ASSUME SavedInv, [Next]_vars, Apart', faults' = {}
             PROVE  /\ ((\A q \in Writers : proc[q].pc # "write") => FileIsSaved)'
                    /\ \A q \in Writers : Saving(q)'
  BY HeldStep DEF SavedInv
<1>1. /\ HeldInv /\ TypeInv /\ TypeOK /\ Writers \subseteq Processes
      /\ saved \in Seq(Writers)
  BY DEF SavedInv, HeldInv, TypeInv, TypeOK, Processes
<1>2. Apart /\ faults = {}
  BY Monotone DEF Apart
<1>3. /\ Alone /\ \A q \in Writers : Held(q)
      /\ (\A q \in Writers : proc[q].pc # "write") => FileIsSaved
      /\ \A q \in Writers : Saving(q)
  BY <1>1, <1>2 DEF SavedInv, HeldInv
<1> DEFINE Resting == ((\A q \in Writers : proc[q].pc # "write") => FileIsSaved)'
           Good == Resting /\ \A q \in Writers : Saving(q)'
<1>4. CASE UNCHANGED vars
  <2>1. \A q \in Writers : Saving(q)'
    BY <1>3, <1>4, SavingKept DEF vars, history
  <2>2. Resting BY <1>3, <1>4, FileIsSavedKept DEF vars, history
  <2> QED BY <2>1, <2>2
<1>5. ASSUME NEW p \in Processes, \A q \in Processes \ {p} : proc'[q] = proc[q],
             UNCHANGED <<file, saved>>,
             p \in Writers => proc[p].pc # "write" /\ Saving(p)'
      PROVE  Good
  <2>1. ASSUME NEW q \in Writers, q # p PROVE Saving(q)'
    <3>1. proc'[q] = proc[q] BY <2>1, <1>1, <1>5
    <3> QED BY <3>1, <1>3, <1>5, SavingKept
  <2>2. ASSUME \A q \in Writers : proc'[q].pc # "write" PROVE FileIsSaved'
    <3>1. \A q \in Writers : proc[q].pc # "write" BY <2>2, <1>1, <1>5
    <3> QED BY <3>1, <1>3, <1>5, FileIsSavedKept
  <2> QED BY <2>1, <2>2, <1>5
<1>6. ASSUME NEW p \in Processes, Open(p) PROVE Good
  <2>1. /\ \A q \in Processes \ {p} : proc'[q] = proc[q]
        /\ proc[p].pc = "start" /\ proc'[p].pc = "read" /\ UNCHANGED <<file, saved>>
    BY <1>1, <1>6, OpenFacts
  <2>2. Saving(p)' BY <2>1 DEF Saving
  <2> QED BY <2>1, <2>2, <1>5
<1>7. ASSUME NEW p \in Processes, OpenFails(p) PROVE Good
  <2>1. /\ \A q \in Processes \ {p} : proc'[q] = proc[q]
        /\ proc[p].pc = "start" /\ proc'[p].pc \in {"prompt", "failed"}
        /\ proc'[p].book = <<>> /\ proc'[p].off = 0
        /\ faults' = IF file = Missing THEN faults ELSE faults \cup {"open"}
        /\ UNCHANGED <<file, saved>>
    BY <1>1, <1>7, OpenFailsFacts
  <2>2. file = Missing BY <2>1
  <2>3. \A q \in Writers : proc[q].pc # "write" BY <2>2, <1>1 DEF TypeInv, OpenFile
  <2>4. saved = <<>> BY <2>2, <2>3, <1>3 DEF FileIsSaved
  <2>5. ASSUME p \in Writers PROVE Records(saved)' = <<>>
    BY <2>1, <2>4, <2>5, <1>1, RecordsProperties
  <2>6. p \in Writers => Saving(p)' BY <2>1, <2>5 DEF Saving
  <2> QED BY <2>1, <2>6, <1>5
<1>8. ASSUME NEW p \in Processes, Read(p) PROVE Good
  <2>1. file # Missing BY <1>1, <1>8 DEF TypeInv, OpenFile, Read
  <2>2. /\ \A q \in Processes \ {p} : proc'[q] = proc[q]
        /\ proc[p].pc = "read" /\ proc'[p].pc = "read" /\ UNCHANGED <<file, saved>>
    BY <2>1, <1>1, <1>8, ReadFacts DEF history
  <2>3. Saving(p)' BY <2>2 DEF Saving
  <2> QED BY <2>2, <2>3, <1>5
<1>9. ASSUME NEW p \in Processes, Parsed(p) PROVE Good
  <2>1. /\ \A q \in Processes \ {p} : proc'[q] = proc[q]
        /\ proc[p].pc = "read" /\ UNCHANGED <<file, saved>>
        /\ proc'[p].pc \in {"prompt", "listed"}
        /\ proc'[p].book = BookIn(proc[p].buf) /\ proc'[p].off = 0
    BY <1>1, <1>9, ParsedFacts DEF history
  <2>2. p \in Writers => Saving(p)'
    <3> SUFFICES ASSUME p \in Writers PROVE Saving(p)' OBVIOUS
    <3>1. proc[p].buf = file /\ file # Missing
      BY <2>1, <1>1, <1>3, <1>9, ParsedIsFile DEF Held
    <3>2. \A q \in Writers : proc[q].pc # "write"
      BY <2>1, <1>3 DEF Alone, Active
    <3>3. file = SerializeToOstream(Records(saved))
      BY <3>1, <3>2, <1>3 DEF FileIsSaved
    <3>4. Records(saved) \in Seq(Persons) BY <1>1, RecordsType
    <3>5. BookIn(file) = Records(saved) BY <3>3, <3>4, RoundTrip
    <3>6. Records(saved)' = Records(saved) BY <2>1 DEF Records
    <3> QED BY <2>1, <3>1, <3>5, <3>6 DEF Saving
  <2> QED BY <2>1, <2>2, <1>5
<1>10. ASSUME NEW p \in Writers, Active(p),
              \A q \in Processes \ {p} : proc'[q] = proc[q], Saving(p)'
       PROVE  \A q \in Writers : Saving(q)'
  <2> TAKE q \in Writers
  <2>1. CASE q # p
    <3>1. ~ Active(q) BY <2>1, <1>3, <1>10 DEF Alone
    <3>2. ~ Active(q)' BY <3>1, <2>1, <1>1, <1>10 DEF Active
    <3> QED BY <3>2, SavingInactive
  <2> QED BY <2>1, <1>10
<1>11. ASSUME NEW p \in Processes, EndStep(p), ~ Written(p) PROVE Good
  <2>1. /\ \A q \in Processes \ {p} : proc'[q] = proc[q]
        /\ proc'[p].pc \in {"failed", "saved", "crashed"}
        /\ UNCHANGED <<file, saved>> /\ proc[p].pc # "write"
    BY <1>1, <1>11, EndStepFacts
  <2>2. ~ Active(p)' BY <2>1 DEF Active
  <2>3. p \in Writers => Saving(p)' BY <2>2, SavingInactive
  <2> QED BY <2>1, <2>3, <1>5
<1>12. ASSUME NEW p \in Processes, EndStep(p), Written(p) PROVE Good
  <2>1. /\ \A q \in Processes \ {p} : proc'[q] = proc[q]
        /\ proc'[p].pc \in {"failed", "saved", "crashed"} /\ UNCHANGED file
    BY <1>1, <1>12, EndStepFacts
  <2>2. /\ proc[p].pc = "write" /\ proc[p].off = Len(proc[p].buf)
        /\ saved' = Append(saved, p)
    BY <1>12 DEF Written
  <2>3. p \in Writers BY <2>2, <1>12 DEF EndStep, ParseFails
  <2>4. Saving(p)'
    <3>1. ~ Active(p)' BY <2>1 DEF Active
    <3> QED BY <2>3, <3>1, SavingInactive
  <2>5. \A q \in Writers : Saving(q)'
    BY <2>1, <2>2, <2>3, <2>4, <1>10 DEF Active
  <2>6. /\ proc[p].book = Records(Append(saved, p))
        /\ proc[p].buf = SerializeToOstream(proc[p].book)
        /\ file = SubSeq(proc[p].buf, 1, proc[p].off)
    BY <2>2, <2>3, <1>3 DEF Saving, Writing
  <2>7. file = SerializeToOstream(Records(Append(saved, p))) /\ file # Missing
    <3>1. proc[p].buf \in Seq(Units) BY <1>1, ProcessFacts
    <3>2. file = proc[p].buf BY <2>2, <2>6, <3>1, SubSeqFull
    <3> QED BY <2>6, <3>1, <3>2, AddressBookAssumption
  <2>8. FileIsSaved'
    <3>1. SerializeToOstream(Records(saved))' = SerializeToOstream(Records(Append(saved, p)))
      BY <2>2 DEF Records, SerializeToOstream
    <3> QED BY <2>1, <2>7, <3>1 DEF FileIsSaved
  <2> QED BY <2>5, <2>8
<1>13. ASSUME NEW p \in Writers, PromptForAddress(p) PROVE Good
  <2>1. /\ \A q \in Processes \ {p} : proc'[q] = proc[q]
        /\ proc[p].pc = "prompt" /\ proc'[p].pc = "truncate"
        /\ proc'[p].book = Append(proc[p].book, <<p, p>>)
        /\ proc'[p].off = proc[p].off /\ UNCHANGED <<file, saved>>
    BY <1>1, <1>13, PromptFacts
  <2>2. proc[p].book = Records(saved) /\ proc[p].off = 0 BY <2>1, <1>3 DEF Saving
  <2>3. proc'[p].book = Records(Append(saved, p))
    BY <2>1, <2>2, <1>1, RecordsProperties
  <2>4. Records(Append(saved, p))' = Records(Append(saved, p)) BY <2>1 DEF Records
  <2>5. Saving(p)' BY <2>1, <2>2, <2>3, <2>4 DEF Saving
  <2> QED BY <2>1, <2>5, <1>1, <1>5
<1>14. ASSUME NEW p \in Writers, Truncate(p) PROVE Good
  <2>1. /\ \A q \in Processes \ {p} : proc'[q] = proc[q]
        /\ proc[p].pc = "truncate" /\ proc'[p].pc = "write"
        /\ proc'[p].book = proc[p].book
        /\ proc'[p].buf = SerializeToOstream(proc[p].book)
        /\ proc'[p].off = proc[p].off /\ file' = <<>> /\ UNCHANGED saved
    BY <1>1, <1>14, TruncateFacts DEF history
  <2>2. proc[p].off = 0 /\ proc[p].book = Records(Append(saved, p))
    BY <2>1, <1>3 DEF Saving
  <2>3. Records(Append(saved, p))' = Records(Append(saved, p)) BY <2>1 DEF Records
  <2>4. Writing(p)'
    <3>1. SerializeToOstream(proc[p].book)' = SerializeToOstream(proc[p].book)
      BY <2>1 DEF SerializeToOstream
    <3>2. SubSeq(proc'[p].buf, 1, 0) = <<>> BY SubSeqEmpty
    <3>3. proc[p].book \in Seq(Persons) BY <1>1, ProcessFacts
    <3>4. proc'[p].buf \in Seq(Units) BY <2>1, <3>3, SerializeProperties
    <3>5. Len(proc'[p].buf) >= 0 BY <3>4, LenProperties
    <3> QED BY <2>1, <2>2, <3>1, <3>2, <3>5 DEF Writing
  <2>5. Saving(p)' BY <2>1, <2>2, <2>3, <2>4 DEF Saving
  <2>6. \A q \in Writers : Saving(q)' BY <2>1, <2>5, <1>10 DEF Active
  <2> QED BY <2>1, <2>6
<1>15. ASSUME NEW p \in Writers, Write(p) PROVE Good
  <2>1. file # Missing BY <1>1, <1>15 DEF TypeInv, OpenFile, Write
  <2>2. /\ \A q \in Processes \ {p} : proc'[q] = proc[q]
        /\ proc[p].pc = "write" /\ proc'[p].pc = "write"
        /\ proc'[p].book = proc[p].book /\ proc'[p].buf = proc[p].buf
        /\ proc'[p].off \in proc[p].off + 1 .. Len(proc[p].buf)
        /\ file' = Overlaid(file, proc[p].off,
                     SubSeq(proc[p].buf, proc[p].off + 1, proc'[p].off))
        /\ UNCHANGED saved
    BY <2>1, <1>1, <1>15, WriteFacts DEF history
  <2>3. /\ proc[p].book = Records(Append(saved, p))
        /\ proc[p].buf = SerializeToOstream(proc[p].book)
        /\ proc[p].off <= Len(proc[p].buf)
        /\ file = SubSeq(proc[p].buf, 1, proc[p].off)
    BY <2>2, <1>3 DEF Saving, Writing
  <2>4. Records(Append(saved, p))' = Records(Append(saved, p)) BY <2>2 DEF Records
  <2>5. Writing(p)'
    <3>1. SerializeToOstream(proc[p].book)' = SerializeToOstream(proc[p].book)
      BY <2>2 DEF SerializeToOstream
    <3>2. /\ proc[p].buf \in Seq(Units) /\ Len(proc[p].buf) \in Nat
          /\ proc[p].off \in 0 .. Len(proc[p].buf)
      BY <2>3, <1>1, ProcessFacts
    <3>3. file' = SubSeq(proc[p].buf, 1, proc'[p].off)
      BY <2>2, <2>3, <3>2, OverlaidAtEnd
    <3> QED BY <2>2, <2>3, <3>1, <3>2, <3>3 DEF Writing
  <2>6. Saving(p)' BY <2>2, <2>3, <2>4, <2>5 DEF Saving
  <2>7. \A q \in Writers : Saving(q)' BY <2>2, <2>6, <1>10 DEF Active
  <2> QED BY <2>2, <2>7
<1> QED BY <1>4, <1>6, <1>7, <1>8, <1>9, <1>11, <1>12, <1>13, <1>14, <1>15, StepCases

(* Writers that run one after the other, and whose calls do not fail, lose *)
(* nobody: the file is the book of the persons that were saved, in order.  *)
THEOREM BookIsComplete == Spec => []SavedInOrder
<1>1. SavedInv => SavedInOrder
  <2> SUFFICES ASSUME SavedInv, Apart, faults = {}, NoWriter
               PROVE  \/ saved = <<>> /\ file = Missing
                      \/ /\ file # Missing /\ Parses(file)
                         /\ BookIn(file) = Records(saved)
    BY DEF SavedInOrder
  <2>1. \A p \in Writers : proc[p].pc # "write" BY DEF NoWriter, Active
  <2>2. FileIsSaved BY <2>1 DEF SavedInv
  <2>3. saved \in Seq(Writers) BY DEF SavedInv, HeldInv, TypeInv, TypeOK
  <2>4. Records(saved) \in Seq(Persons) BY <2>3, RecordsType
  <2>5. /\ Parses(SerializeToOstream(Records(saved)))
        /\ BookIn(SerializeToOstream(Records(saved))) = Records(saved)
    BY <2>4, RoundTrip
  <2> QED BY <2>2, <2>5 DEF FileIsSaved
<1> QED BY <1>1, SavedInit, SavedStep, PTL DEF Spec

-----------------------------------------------------------------------------
(* Books in order, and the pieces of them that a process finds in the file *)
(* while they are written.                                                 *)

CutOf(s, book) ==
    /\ Len(s) <= Len(SerializeToOstream(book))
    /\ s = SubSeq(SerializeToOstream(book), 1, Len(s))

CutInOrder(s, persons) ==
    \E book \in Seq(Persons) : InOrderOf(book, persons) /\ CutOf(s, book)

LEMMA InOrderEmpty ==
    ASSUME NEW v \in Seq(Writers)
    PROVE  InOrderOf(<<>>, v)
<1>1. Len(<<>>) = 0 BY EmptySequences
<1> DEFINE place == [k \in 1 .. 0 |-> 1]
<1>2. 1 .. Len(<<>>) = {} /\ 1 .. 0 = {} BY <1>1
<1>3. place \in [1 .. Len(<<>>) -> 1 .. Len(v)] BY <1>2
<1> QED BY <1>2, <1>3 DEF InOrderOf

(* Who is entered later is the last one in the book.                       *)
LEMMA InOrderGrows ==
    ASSUME NEW v \in Seq(Writers), NEW w \in Writers, NEW book \in Seq(Persons),
           InOrderOf(book, v)
    PROVE  /\ InOrderOf(book, Append(v, w))
           /\ InOrderOf(Append(book, <<w, w>>), Append(v, w))
<1> DEFINE n == Len(book)
           m == Len(v)
           rv == Records(v)
           rw == Records(Append(v, w))
           longer == Append(book, <<w, w>>)
<1>1. n \in Nat /\ m \in Nat BY LenProperties
<1>2. /\ Len(Append(v, w)) = m + 1
      /\ \A k \in 1 .. m : rw[k] = rv[k]
      /\ rw[m + 1] = <<w, w>>
  <2>1. rv \in Seq(Persons) /\ Len(rv) = m BY RecordsType
  <2>2. rw = Append(rv, <<w, w>>) BY RecordsProperties
  <2>3. <<w, w>> \in Persons BY DEF Persons, Names
  <2>4. Len(Append(v, w)) = m + 1 BY AppendProperties
  <2> HIDE DEF rv, rw, m
  <2> QED BY <2>1, <2>2, <2>3, <2>4, AppendProperties
<1>3. /\ Len(longer) = n + 1
      /\ \A k \in 1 .. n : longer[k] = book[k]
      /\ longer[n + 1] = <<w, w>>
  <2>1. <<w, w>> \in Persons BY DEF Persons, Names
  <2> QED BY <2>1, AppendProperties
<1>4. PICK place \in [1 .. n -> 1 .. m] :
         /\ \A k, l \in 1 .. n : k < l => place[k] < place[l]
         /\ \A k \in 1 .. n : book[k] = rv[place[k]]
  BY DEF InOrderOf
<1> HIDE DEF n, m, rv, rw, longer
<1>5. InOrderOf(book, Append(v, w))
  <2>1. place \in [1 .. n -> 1 .. m + 1] BY <1>1, <1>4
  <2>2. \A k \in 1 .. n : book[k] = rw[place[k]] BY <1>2, <1>4
  <2> QED BY <2>1, <2>2, <1>2, <1>4 DEF InOrderOf, n, rw
<1>6. InOrderOf(longer, Append(v, w))
  <2> DEFINE further == [k \in 1 .. n + 1 |-> IF k = n + 1 THEN m + 1 ELSE place[k]]
  <2>1. \A k \in 1 .. n + 1 : k # n + 1 => k \in 1 .. n BY <1>1
  <2>2. n + 1 \in 1 .. n + 1 /\ m + 1 \in 1 .. m + 1 BY <1>1
  <2>3. further \in [1 .. n + 1 -> 1 .. m + 1]
    <3>1. \A k \in 1 .. n : place[k] \in 1 .. m + 1 BY <1>1, <1>4
    <3> QED BY <3>1, <2>1, <2>2
  <2>4. ASSUME NEW k \in 1 .. n + 1, NEW l \in 1 .. n + 1, k < l
        PROVE  further[k] < further[l]
    <3>1. k \in 1 .. n /\ k # n + 1 BY <2>4, <1>1
    <3>2. CASE l = n + 1
      <4>1. place[k] \in 1 .. m BY <3>1, <1>4
      <4> QED BY <3>1, <3>2, <4>1, <1>1
    <3>3. CASE l # n + 1 BY <3>1, <3>3, <2>1, <2>4, <1>4
    <3> QED BY <3>2, <3>3
  <2>5. ASSUME NEW k \in 1 .. n + 1 PROVE longer[k] = rw[further[k]]
    <3>1. CASE k = n + 1 BY <3>1, <1>2, <1>3, <2>2
    <3>2. CASE k # n + 1
      <4>1. k \in 1 .. n /\ place[k] \in 1 .. m BY <3>2, <2>1, <1>4
      <4> QED BY <4>1, <3>2, <1>2, <1>3, <1>4
    <3> QED BY <3>1, <3>2
  <2> HIDE DEF further
  <2>6. /\ further \in [1 .. Len(longer) -> 1 .. Len(Append(v, w))]
        /\ \A k, l \in 1 .. Len(longer) : k < l => further[k] < further[l]
        /\ \A k \in 1 .. Len(longer) : longer[k] = rw[further[k]]
    BY <2>3, <2>4, <2>5, <1>2, <1>3
  <2> QED BY <2>6 DEF InOrderOf, rw
<1> QED BY <1>5, <1>6 DEF longer

LEMMA InOrderCut ==
    ASSUME NEW v \in Seq(Writers), NEW book \in Seq(Persons), InOrderOf(book, v),
           NEW m \in 0 .. Len(book)
    PROVE  InOrderOf(SubSeq(book, 1, m), v)
<1> DEFINE n == Len(book)
           shorter == SubSeq(book, 1, m)
<1>1. n \in Nat /\ m \in Nat /\ m <= n BY LenProperties
<1>2. Len(shorter) = m /\ \A k \in 1 .. m : shorter[k] = book[k]
  <2>1. \A k \in 1 .. m : book[k] \in Persons BY <1>1, ElementOfSeq
  <2> QED BY <1>1, <2>1, SubSeqProperties
<1>3. PICK place \in [1 .. n -> 1 .. Len(v)] :
         /\ \A k, l \in 1 .. n : k < l => place[k] < place[l]
         /\ \A k \in 1 .. n : book[k] = Records(v)[place[k]]
  BY DEF InOrderOf
<1> DEFINE fewer == [k \in 1 .. m |-> place[k]]
<1>4. \A k \in 1 .. m : k \in 1 .. n BY <1>1
<1>5. fewer \in [1 .. m -> 1 .. Len(v)] BY <1>3, <1>4
<1>6. \A k, l \in 1 .. m : k < l => fewer[k] < fewer[l] BY <1>3, <1>4
<1>7. \A k \in 1 .. m : shorter[k] = Records(v)[fewer[k]] BY <1>2, <1>3, <1>4
<1> HIDE DEF fewer, shorter
<1> QED BY <1>2, <1>5, <1>6, <1>7 DEF InOrderOf, shorter

LEMMA CutFacts ==
    ASSUME NEW book \in Seq(Persons), NEW n \in 0 .. Len(SerializeToOstream(book))
    PROVE  /\ CutOf(SubSeq(SerializeToOstream(book), 1, n), book)
           /\ CutOf(<<>>, book)
<1> DEFINE s == SerializeToOstream(book)
<1>1. s \in Seq(Units) /\ Len(s) \in Nat BY SerializeProperties, LenProperties
<1>2. Len(SubSeq(s, 1, n)) = n
  <2>1. \A k \in 1 .. n : s[k] \in Units BY <1>1, ElementOfSeq
  <2>2. n \in Nat BY <1>1
  <2> HIDE DEF s
  <2> QED BY <2>1, <2>2, SubSeqProperties
<1>3. <<>> = SubSeq(s, 1, 0) BY SubSeqEmpty
<1> QED BY <1>1, <1>2, <1>3, EmptySequences DEF CutOf

LEMMA CutElements ==
    ASSUME NEW book \in Seq(Persons), NEW s \in Seq(Units), CutOf(s, book)
    PROVE  /\ Len(s) \in Nat /\ Len(s) <= 2 * Len(book)
           /\ \A k \in 1 .. Len(s) : s[k] = SerializeToOstream(book)[k]
<1> DEFINE t == SerializeToOstream(book)
<1>1. t \in Seq(Units) /\ Len(t) = 2 * Len(book) /\ Len(t) \in Nat
  BY SerializeProperties, LenProperties
<1>2. Len(s) \in Nat BY LenProperties
<1>3. Len(s) <= Len(t) /\ s = SubSeq(t, 1, Len(s)) BY DEF CutOf
<1>4. \A k \in 1 .. Len(s) : SubSeq(t, 1, Len(s))[k] = t[k]
  <2>1. \A k \in 1 .. Len(s) : t[k] \in Units BY <1>1, <1>2, <1>3, ElementOfSeq
  <2> HIDE DEF t
  <2> QED BY <2>1, <1>2, SubSeqProperties
<1> QED BY <1>1, <1>2, <1>3, <1>4

(* A piece of a book that parses is read as the start of the book.         *)
LEMMA CutParses ==
    ASSUME NEW book \in Seq(Persons), NEW s \in Seq(Units), CutOf(s, book), Parses(s)
    PROVE  \E m \in 0 .. Len(book) : BookIn(s) = SubSeq(book, 1, m)
<1> DEFINE t == SerializeToOstream(book)
           n == Len(book)
<1>1. n \in Nat /\ \A k \in 1 .. n : book[k] \in Persons
  BY LenProperties, ElementOfSeq
<1>2. \A k \in 1 .. n : /\ t[2 * k - 1] = HeadOf(book[k][1])
                        /\ t[2 * k] = TailOf(book[k][2])
  BY SerializeProperties
<1>3. /\ Len(s) \in Nat /\ Len(s) <= 2 * n
      /\ \A k \in 1 .. Len(s) : s[k] = t[k]
  BY CutElements
<1> HIDE DEF t, n
<1>4. PICK m \in Nat : Len(s) = 2 * m
  <2>1. Len(s) % 2 = 0 BY DEF Parses
  <2>2. Len(s) = 2 * (Len(s) \div 2) /\ Len(s) \div 2 \in Nat BY <2>1, <1>3
  <2> QED BY <2>2
<1>5. m <= n BY <1>1, <1>3, <1>4
<1>6. (Len(s) + 1) \div 2 = m BY <1>4
<1>7. /\ BookIn(s) \in Seq(Persons) /\ Len(BookIn(s)) = m
      /\ \A k \in 1 .. m : BookIn(s)[k] =
            <<s[2 * k - 1][2], IF 2 * k <= Len(s) THEN s[2 * k][2] ELSE Missing>>
  BY <1>6, BookInProperties
<1>8. ASSUME NEW k \in 1 .. m PROVE BookIn(s)[k] = book[k]
  <2>1. /\ 2 * k <= Len(s) /\ 2 * k \in 1 .. Len(s) /\ 2 * k - 1 \in 1 .. Len(s)
        /\ k \in 1 .. n
    BY <1>1, <1>4, <1>5
  <2>2. BookIn(s)[k] = <<s[2 * k - 1][2], s[2 * k][2]>> BY <2>1, <1>7
  <2>3. s[2 * k - 1][2] = book[k][1] /\ s[2 * k][2] = book[k][2]
    BY <2>1, <1>2, <1>3 DEF HeadOf, TailOf
  <2>4. book[k] = <<book[k][1], book[k][2]>> BY <2>1, <1>1 DEF Persons
  <2> QED BY <2>2, <2>3, <2>4
<1>9. /\ SubSeq(book, 1, m) \in Seq(Persons) /\ Len(SubSeq(book, 1, m)) = m
      /\ \A k \in 1 .. m : SubSeq(book, 1, m)[k] = book[k]
  <2>1. \A k \in 1 .. m : book[k] \in Persons BY <1>1, <1>5
  <2> QED BY <2>1, SubSeqProperties
<1>10. BookIn(s) = SubSeq(book, 1, m)
  <2> DEFINE l == BookIn(s)
             r == SubSeq(book, 1, m)
  <2>1. l \in Seq(Persons) /\ Len(l) = m BY <1>7
  <2>2. r \in Seq(Persons) /\ Len(r) = m BY <1>9
  <2>3. \A k \in 1 .. Len(l) : l[k] = r[k] BY <2>1, <1>8, <1>9
  <2> HIDE DEF l, r
  <2>4. l = r BY <2>1, <2>2, <2>3, SeqEqual
  <2> QED BY <2>4 DEF l, r
<1> QED BY <1>1, <1>5, <1>10 DEF n

LEMMA ParsedInOrder ==
    ASSUME NEW v \in Seq(Writers), NEW book \in Seq(Persons), InOrderOf(book, v),
           NEW s \in Seq(Units), CutOf(s, book), Parses(s)
    PROVE  InOrderOf(BookIn(s), v)
BY CutParses, InOrderCut

(* What is read goes on with the same book.                                *)
LEMMA CutGrows ==
    ASSUME NEW book \in Seq(Persons), NEW f \in Seq(Units), NEW s \in Seq(Units),
           CutOf(f, book), CutOf(s, book), NEW n \in Len(s) + 1 .. Len(f)
    PROVE  CutOf(s \o SubSeq(f, Len(s) + 1, n), book)
<1> DEFINE t == SerializeToOstream(book)
           o == Len(s)
           u == SubSeq(f, o + 1, n)
<1>1. t \in Seq(Units) /\ Len(t) \in Nat /\ o \in Nat /\ Len(f) \in Nat
      /\ \A k \in 1 .. Len(f) : f[k] \in Units
  BY SerializeProperties, LenProperties, ElementOfSeq
<1>2. Len(f) <= Len(t) /\ \A k \in 1 .. Len(f) : f[k] = t[k]
  BY CutElements DEF CutOf
<1>3. \A k \in 1 .. o : s[k] = t[k]
  BY CutElements
<1>4. n \in Nat /\ o < n /\ n <= Len(f) BY <1>1
<1>5. u \in Seq(Units) /\ Len(u) = n - o /\ \A k \in 1 .. n - o : u[k] = f[o + k]
  <2>1. o + 1 \in Int /\ n \in Int /\ n - (o + 1) + 1 = n - o /\ o + 1 <= n
    BY <1>1, <1>4
  <2>2. \A k \in o + 1 .. n : f[k] \in Units BY <1>1, <1>4
  <2> HIDE DEF o
  <2>3. u \in Seq(Units) /\ Len(u) = n - o
        /\ \A k \in 1 .. n - o : u[k] = f[(o + 1) + k - 1]
    BY <2>1, <2>2, SubSeqProperties
  <2>4. \A k \in 1 .. n - o : (o + 1) + k - 1 = o + k BY <1>1, <1>4
  <2> HIDE DEF u
  <2> QED BY <2>3, <2>4
<1> DEFINE l == s \o u
           r == SubSeq(t, 1, n)
<1>6. /\ l \in Seq(Units) /\ Len(l) = o + Len(u)
      /\ \A k \in 1 .. o : l[k] = s[k]
      /\ \A k \in 1 .. Len(u) : l[o + k] = u[k]
  <2>1. u \in Seq(Units) BY <1>5
  <2> HIDE DEF u
  <2>2. /\ l \in Seq(Units) /\ Len(l) = Len(s) + Len(u)
        /\ \A k \in 1 .. Len(s) + Len(u) :
             l[k] = IF k <= Len(s) THEN s[k] ELSE u[k - Len(s)]
    BY <2>1, ConcatProperties
  <2>3. Len(u) \in Nat BY <2>1, LenProperties
  <2>4. \A k \in 1 .. o : k \in 1 .. o + Len(u) /\ k <= o BY <2>3, <1>1
  <2>5. \A k \in 1 .. Len(u) :
          o + k \in 1 .. o + Len(u) /\ ~ (o + k <= o) /\ (o + k) - o = k
    BY <2>3, <1>1
  <2> HIDE DEF l
  <2> QED BY <2>2, <2>4, <2>5
<1>7. r \in Seq(Units) /\ Len(r) = n /\ \A k \in 1 .. n : r[k] = t[k]
  <2>1. \A k \in 1 .. n : t[k] \in Units BY <1>1, <1>2, <1>4, ElementOfSeq
  <2> HIDE DEF t
  <2> QED BY <2>1, <1>4, SubSeqProperties
<1> HIDE DEF u, l, r, t
<1>8. Len(l) = n BY <1>1, <1>4, <1>5, <1>6
<1>9. ASSUME NEW k \in 1 .. n PROVE l[k] = r[k]
  <2>1. CASE k <= o
    <3>1. k \in 1 .. o BY <2>1, <1>1
    <3> QED BY <3>1, <1>3, <1>6, <1>7
  <2>2. CASE ~ (k <= o)
    <3>1. k - o \in 1 .. n - o /\ o + (k - o) = k /\ k \in 1 .. Len(f)
      BY <2>2, <1>1, <1>4
    <3>2. l[k] = u[k - o] /\ u[k - o] = f[k] BY <3>1, <1>5, <1>6
    <3> QED BY <3>1, <3>2, <1>2, <1>7
  <2> QED BY <2>1, <2>2
<1>10. l = r BY <1>6, <1>7, <1>8, <1>9, SeqEqual
<1> QED BY <1>2, <1>4, <1>8, <1>10 DEF CutOf, l, r, t, u

(* One more person is added at the end.                                    *)
LEMMA CutOfNext ==
    ASSUME NEW v \in Seq(Writers), NEW w \in Writers, NEW s \in Seq(Units),
           CutOf(s, Records(v))
    PROVE  CutOf(s, Records(Append(v, w)))
<1> DEFINE b == Records(v)
           c == Records(Append(v, w))
           t == SerializeToOstream(c)
           n == Len(s)
<1>1. b \in Seq(Persons) /\ c \in Seq(Persons) /\ <<w, w>> \in Persons
  BY RecordsType, AppendProperties DEF Persons, Names
<1>2. c = Append(b, <<w, w>>) BY RecordsProperties
<1>3. Len(c) = Len(b) + 1 /\ \A k \in 1 .. Len(b) : c[k] = b[k]
  <2> HIDE DEF b, c
  <2> QED BY <1>1, <1>2, AppendProperties
<1>4. n \in Nat /\ n <= 2 * Len(b) /\ \A k \in 1 .. n : s[k] = SerializeToOstream(b)[k]
  BY <1>1, CutElements
<1>5. Len(b) \in Nat BY <1>1, LenProperties
<1> HIDE DEF b, c
<1>6. ASSUME NEW k \in 1 .. n PROVE s[k] = t[k]
  <2>1. k \in 1 .. 2 * Len(b) /\ k \in 1 .. 2 * Len(c) BY <1>3, <1>4, <1>5
  <2>2. CASE k % 2 = 1
    <3>1. (k + 1) \div 2 \in 1 .. Len(b) BY <2>1, <2>2, <1>5
    <3> QED BY <3>1, <2>1, <2>2, <1>3, <1>4 DEF SerializeToOstream
  <2>3. CASE k % 2 # 1
    <3>1. k \div 2 \in 1 .. Len(b) BY <2>1, <2>3, <1>5
    <3> QED BY <3>1, <2>1, <2>3, <1>3, <1>4 DEF SerializeToOstream
  <2> QED BY <2>2, <2>3
<1>7. t \in Seq(Units) /\ Len(t) = 2 * Len(c) BY <1>1, SerializeProperties
<1>8. n <= Len(t) BY <1>3, <1>4, <1>5, <1>7
<1>9. s = SubSeq(t, 1, n)
  <2> DEFINE r == SubSeq(t, 1, n)
  <2>1. \A k \in 1 .. n : t[k] \in Units BY <1>4, <1>7, <1>8, ElementOfSeq
  <2> HIDE DEF t
  <2>2. r \in Seq(Units) /\ Len(r) = n /\ \A k \in 1 .. n : r[k] = t[k]
    BY <2>1, <1>4, SubSeqProperties
  <2> HIDE DEF r
  <2>3. s = r BY <2>2, <1>6, SeqEqual
  <2> QED BY <2>3 DEF r
<1> QED BY <1>8, <1>9 DEF CutOf, c

-----------------------------------------------------------------------------
(* Who writes, and who reads while nobody writes.                          *)

(* A writer in the middle of its write has put down a piece of its book.   *)
PartlyWritten ==
    /\ \A p \in Writers : proc[p].pc \in {"prompt", "truncate"} => proc[p].off = 0
    /\ Apart => \A p \in Writers : proc[p].pc = "write" => Writing(p)

(* A process that no writer runs beside reads a file that stays as it is.  *)
Undisturbed(p) ==
    /\ Active(p) => \A q \in Writers \ {p} : ~ Active(q)
    /\ proc[p].pc = "read" => ReadSoFar(p)

AccessInv ==
    /\ HeldInv
    /\ PartlyWritten
    /\ \A p \in Processes \ collided : Undisturbed(p)

LEMMA WritingTruncated ==
    ASSUME TypeOK, NEW p \in Writers, Truncate(p), proc[p].off = 0
    PROVE  Writing(p)'
<1>1. /\ proc'[p].book = proc[p].book
      /\ proc'[p].buf = SerializeToOstream(proc[p].book)
      /\ proc'[p].off = 0 /\ file' = <<>>
  BY TruncateFacts
<1>2. proc[p].book \in Seq(Persons)
  BY ProcessFacts DEF Processes
<1>3. proc'[p].buf \in Seq(Units)
  BY <1>1, <1>2, SerializeProperties
<1>4. Len(proc'[p].buf) \in Nat BY <1>3, LenProperties
<1>5. SubSeq(proc'[p].buf, 1, 0) = <<>> BY SubSeqEmpty
<1> QED BY <1>1, <1>4, <1>5 DEF Writing

LEMMA WritingOn ==
    ASSUME TypeInv, NEW p \in Writers, Write(p), Writing(p)
    PROVE  Writing(p)'
<1>1. TypeOK /\ p \in Processes /\ file # Missing
  BY DEF TypeInv, OpenFile, Write, Processes
<1>2. /\ proc'[p].book = proc[p].book /\ proc'[p].buf = proc[p].buf
      /\ proc'[p].off \in proc[p].off + 1 .. Len(proc[p].buf)
      /\ file' = Overlaid(file, proc[p].off,
                   SubSeq(proc[p].buf, proc[p].off + 1, proc'[p].off))
  BY <1>1, WriteFacts
<1>3. /\ proc[p].buf = SerializeToOstream(proc[p].book)
      /\ proc[p].off <= Len(proc[p].buf)
      /\ file = SubSeq(proc[p].buf, 1, proc[p].off)
  BY DEF Writing
<1>4. /\ proc[p].buf \in Seq(Units) /\ Len(proc[p].buf) \in Nat
      /\ proc[p].off \in 0 .. Len(proc[p].buf)
  BY <1>1, <1>3, ProcessFacts
<1>5. file' = SubSeq(proc[p].buf, 1, proc'[p].off)
  BY <1>2, <1>3, <1>4, OverlaidAtEnd
<1> QED BY <1>2, <1>3, <1>4, <1>5 DEF Writing

LEMMA PartlyWrittenStep ==
    ASSUME HeldInv, PartlyWritten, [Next]_vars
    PROVE  PartlyWritten'
<1>1. TypeInv /\ TypeOK /\ Writers \subseteq Processes
  BY DEF HeldInv, TypeInv, Processes
<1>2. Apart' => Apart /\ Alone
  BY Monotone DEF Apart, HeldInv
<1>3. /\ \A q \in Writers : proc[q].pc \in {"prompt", "truncate"} => proc[q].off = 0
      /\ Apart => \A q \in Writers : proc[q].pc = "write" => Writing(q)
  BY DEF PartlyWritten
<1>4. CASE UNCHANGED vars
  BY <1>2, <1>3, <1>4 DEF vars, history, PartlyWritten, Writing
<1>5. ASSUME NEW p \in Processes, \A q \in Processes \ {p} : proc'[q] = proc[q],
             UNCHANGED file, proc'[p].pc # "write",
             proc'[p].pc \in {"prompt", "truncate"} => proc'[p].off = 0
      PROVE  PartlyWritten'
  <2>1. ASSUME NEW q \in Writers, proc'[q].pc \in {"prompt", "truncate"}
        PROVE  proc'[q].off = 0
    <3>1. q # p => proc'[q] = proc[q] BY <1>1, <1>5
    <3> QED BY <3>1, <2>1, <1>3, <1>5
  <2>2. ASSUME Apart', NEW q \in Writers, proc'[q].pc = "write" PROVE Writing(q)'
    <3>1. proc'[q] = proc[q] BY <2>2, <1>1, <1>5
    <3>2. Writing(q) BY <3>1, <2>2, <1>2, <1>3
    <3> QED BY <3>1, <3>2, <1>5 DEF Writing
  <2> QED BY <2>1, <2>2 DEF PartlyWritten
<1>6. ASSUME NEW p \in Writers, \A q \in Processes \ {p} : proc'[q] = proc[q],
             Active(p), proc'[p].pc = "write", Apart' => Writing(p)'
      PROVE  PartlyWritten'
  <2>1. ASSUME NEW q \in Writers, proc'[q].pc \in {"prompt", "truncate"}
        PROVE  proc'[q].off = 0
    <3>1. proc'[q] = proc[q] BY <2>1, <1>1, <1>6
    <3> QED BY <3>1, <2>1, <1>3
  <2>2. ASSUME Apart', NEW q \in Writers, proc'[q].pc = "write" PROVE q = p
    <3>1. CASE q # p
      <4>1. proc'[q] = proc[q] BY <3>1, <1>1, <1>6
      <4> QED BY <4>1, <2>2, <1>2, <1>6 DEF Alone, Active
    <3> QED BY <3>1
  <2> QED BY <2>1, <2>2, <1>6 DEF PartlyWritten
<1>7. ASSUME NEW p \in Processes, Open(p) PROVE PartlyWritten'
  BY <1>1, <1>5, <1>7, OpenFacts
<1>8. ASSUME NEW p \in Processes, OpenFails(p) PROVE PartlyWritten'
  <2>1. /\ \A q \in Processes \ {p} : proc'[q] = proc[q]
        /\ proc'[p].pc \in {"prompt", "failed"} /\ proc'[p].off = 0 /\ UNCHANGED file
    BY <1>1, <1>8, OpenFailsFacts
  <2> QED BY <2>1, <1>5
<1>9. ASSUME NEW p \in Processes, Read(p) PROVE PartlyWritten'
  <2>1. file # Missing BY <1>1, <1>9 DEF TypeInv, OpenFile, Read
  <2> QED BY <2>1, <1>1, <1>5, <1>9, ReadFacts
<1>10. ASSUME NEW p \in Processes, Parsed(p) PROVE PartlyWritten'
  <2>1. /\ \A q \in Processes \ {p} : proc'[q] = proc[q]
        /\ proc'[p].pc \in {"prompt", "listed"} /\ proc'[p].off = 0 /\ UNCHANGED file
    BY <1>1, <1>10, ParsedFacts
  <2> QED BY <2>1, <1>5
<1>11. ASSUME NEW p \in Processes, EndStep(p) PROVE PartlyWritten'
  <2>1. /\ \A q \in Processes \ {p} : proc'[q] = proc[q]
        /\ proc'[p].pc \in {"failed", "saved", "crashed"} /\ UNCHANGED file
    BY <1>1, <1>11, EndStepFacts
  <2> QED BY <2>1, <1>5
<1>12. ASSUME NEW p \in Writers, PromptForAddress(p) PROVE PartlyWritten'
  <2>1. /\ \A q \in Processes \ {p} : proc'[q] = proc[q]
        /\ proc[p].pc = "prompt" /\ proc'[p].pc = "truncate"
        /\ proc'[p].off = proc[p].off /\ UNCHANGED file
    BY <1>1, <1>12, PromptFacts
  <2> QED BY <2>1, <1>1, <1>3, <1>5
<1>13. ASSUME NEW p \in Writers, Truncate(p) PROVE PartlyWritten'
  <2>1. /\ \A q \in Processes \ {p} : proc'[q] = proc[q]
        /\ proc[p].pc = "truncate" /\ proc'[p].pc = "write"
    BY <1>1, <1>13, TruncateFacts
  <2>2. Writing(p)' BY <2>1, <1>1, <1>3, <1>13, WritingTruncated
  <2> QED BY <2>1, <2>2, <1>6 DEF Active
<1>14. ASSUME NEW p \in Writers, Write(p) PROVE PartlyWritten'
  <2>1. file # Missing BY <1>1, <1>14 DEF TypeInv, OpenFile, Write
  <2>2. /\ \A q \in Processes \ {p} : proc'[q] = proc[q]
        /\ proc[p].pc = "write" /\ proc'[p].pc = "write"
    BY <2>1, <1>1, <1>14, WriteFacts
  <2>3. Apart' => Writing(p)' BY <2>2, <1>1, <1>2, <1>3, <1>14, WritingOn
  <2> QED BY <2>2, <2>3, <1>6 DEF Active
<1> QED BY <1>4, <1>7, <1>8, <1>9, <1>10, <1>11, <1>12, <1>13, <1>14, StepCases

LEMMA CollidedSteps ==
    ASSUME NEW p \in Processes, Begins(p)
    PROVE  /\ p \notin collided' => \A q \in Writers \ {p} : ~ Active(q)
           /\ p \in Writers => \A q \in Processes \ {p} : Active(q) => q \in collided'
BY DEF Begins, Processes

LEMMA UndisturbedStep ==
    ASSUME TypeInv, \A p \in Processes \ collided : Undisturbed(p), [Next]_vars,
           NEW r \in Processes \ collided'
    PROVE  Undisturbed(r)'
<1>1. TypeOK /\ Writers \subseteq Processes
  BY DEF TypeInv, Processes
<1>2. r \notin collided /\ Undisturbed(r)
  BY Monotone
<1>3. /\ Active(r) => \A q \in Writers \ {r} : ~ Active(q)
      /\ proc[r].pc = "read" => ReadSoFar(r)
  BY <1>2 DEF Undisturbed
<1>4. CASE UNCHANGED vars
  BY <1>3, <1>4 DEF vars, history, Undisturbed, Active, ReadSoFar
<1>5. ASSUME NEW p \in Processes, \A q \in Processes \ {p} : proc'[q] = proc[q],
             Active(p), UNCHANGED file \/ p \in Writers,
             r = p /\ proc'[p].pc = "read" => ReadSoFar(p)'
      PROVE  Undisturbed(r)'
  <2>1. ASSUME Active(r)', NEW q \in Writers \ {r} PROVE ~ Active(q)'
    <3>1. CASE r = p
      <4>1. ~ Active(q) BY <3>1, <1>3, <1>5, <2>1
      <4> QED BY <4>1, <3>1, <1>1, <1>5 DEF Active
    <3>2. CASE r # p
      <4>1. Active(r) BY <3>2, <2>1, <1>5 DEF Active
      <4>2. ~ Active(q) BY <4>1, <1>3
      <4>3. q # p BY <4>2, <1>5
      <4> QED BY <4>2, <4>3, <1>1, <1>5 DEF Active
    <3> QED BY <3>1, <3>2
  <2>2. ASSUME proc'[r].pc = "read" PROVE ReadSoFar(r)'
    <3>1. CASE r = p BY <3>1, <2>2, <1>5
    <3>2. CASE r # p
      <4>1. proc'[r] = proc[r] BY <3>2, <1>5
      <4>2. ReadSoFar(r) BY <4>1, <2>2, <1>3
      <4>3. p \notin Writers
        <5>1. Active(r) BY <4>1, <2>2 DEF Active
        <5> QED BY <5>1, <3>2, <1>3, <1>5
      <4> QED BY <4>1, <4>2, <4>3, <1>5 DEF ReadSoFar
    <3> QED BY <3>1, <3>2
  <2> QED BY <2>1, <2>2 DEF Undisturbed
<1>6. ASSUME NEW p \in Processes, \A q \in Processes \ {p} : proc'[q] = proc[q],
             Begins(p), UNCHANGED file,
             r = p /\ proc'[p].pc = "read" => ReadSoFar(p)'
      PROVE  Undisturbed(r)'
  <2>1. ASSUME Active(r)', NEW q \in Writers \ {r} PROVE ~ Active(q)'
    <3>1. CASE r = p
      <4>1. ~ Active(q) BY <3>1, <1>6, <2>1, CollidedSteps
      <4> QED BY <4>1, <3>1, <1>1, <1>6 DEF Active
    <3>2. CASE r # p
      <4>1. Active(r) BY <3>2, <2>1, <1>6 DEF Active
      <4>2. ~ Active(q) BY <4>1, <1>3
      <4>3. p \notin Writers BY <4>1, <3>2, <1>6, CollidedSteps
      <4> QED BY <4>2, <4>3, <1>1, <1>6 DEF Active
    <3> QED BY <3>1, <3>2
  <2>2. ASSUME proc'[r].pc = "read" PROVE ReadSoFar(r)'
    <3>1. CASE r = p BY <3>1, <2>2, <1>6
    <3>2. CASE r # p
      <4>1. proc'[r] = proc[r] BY <3>2, <1>6
      <4> QED BY <4>1, <2>2, <1>3, <1>6 DEF ReadSoFar
    <3> QED BY <3>1, <3>2
  <2> QED BY <2>1, <2>2 DEF Undisturbed
<1>7. ASSUME NEW p \in Processes, Open(p) PROVE Undisturbed(r)'
  <2>1. /\ \A q \in Processes \ {p} : proc'[q] = proc[q]
        /\ proc'[p].pc = "read" /\ proc'[p].buf = <<>> /\ file # Missing
        /\ UNCHANGED file
    BY <1>1, <1>7, OpenFacts
  <2>2. Len(file) \in Nat BY <2>1, <1>1, LenProperties DEF TypeOK
  <2>3. SubSeq(file, 1, 0) = <<>> BY SubSeqEmpty
  <2>4. ReadSoFar(p)' BY <2>1, <2>2, <2>3, EmptySequences DEF ReadSoFar
  <2> QED BY <2>1, <2>4, <1>6, <1>7 DEF Open
<1>8. ASSUME NEW p \in Processes, OpenFails(p) PROVE Undisturbed(r)'
  <2>1. /\ \A q \in Processes \ {p} : proc'[q] = proc[q]
        /\ proc'[p].pc \in {"prompt", "failed"} /\ UNCHANGED file
    BY <1>1, <1>8, OpenFailsFacts
  <2> QED BY <2>1, <1>6, <1>8 DEF OpenFails
<1>9. ASSUME NEW p \in Processes, Read(p) PROVE Undisturbed(r)'
  <2>1. file # Missing BY <1>1, <1>9 DEF TypeInv, OpenFile, Read
  <2>2. /\ \A q \in Processes \ {p} : proc'[q] = proc[q]
        /\ proc[p].pc = "read" /\ UNCHANGED file
    BY <2>1, <1>1, <1>9, ReadFacts
  <2>3. r = p => ReadSoFar(p)' BY <2>2, <1>3, <1>9, ReadKept
  <2> QED BY <2>2, <2>3, <1>5 DEF Active
<1>10. ASSUME NEW p \in Processes, Parsed(p) PROVE Undisturbed(r)'
  <2>1. /\ \A q \in Processes \ {p} : proc'[q] = proc[q]
        /\ proc[p].pc = "read" /\ proc'[p].pc \in {"prompt", "listed"}
        /\ UNCHANGED file
    BY <1>1, <1>10, ParsedFacts
  <2> QED BY <2>1, <1>5 DEF Active
<1>11. ASSUME NEW p \in Processes, EndStep(p) PROVE Undisturbed(r)'
  <2>1. /\ \A q \in Processes \ {p} : proc'[q] = proc[q]
        /\ proc'[p].pc \in {"failed", "saved", "crashed"} /\ UNCHANGED file
    BY <1>1, <1>11, EndStepFacts
  <2>2. Active(p)
    BY <1>11 DEF EndStep, ParseFails, TruncateFails, Written, WriteFails, Crash, Active
  <2> QED BY <2>1, <2>2, <1>5
<1>12. ASSUME NEW p \in Writers, PromptForAddress(p) PROVE Undisturbed(r)'
  <2>1. /\ \A q \in Processes \ {p} : proc'[q] = proc[q]
        /\ proc[p].pc = "prompt" /\ proc'[p].pc = "truncate"
    BY <1>1, <1>12, PromptFacts
  <2> QED BY <2>1, <1>1, <1>5 DEF Active
<1>13. ASSUME NEW p \in Writers, Truncate(p) PROVE Undisturbed(r)'
  <2>1. /\ \A q \in Processes \ {p} : proc'[q] = proc[q]
        /\ proc[p].pc = "truncate" /\ proc'[p].pc = "write"
    BY <1>1, <1>13, TruncateFacts
  <2> QED BY <2>1, <1>1, <1>5 DEF Active
<1>14. ASSUME NEW p \in Writers, Write(p) PROVE Undisturbed(r)'
  <2>1. file # Missing BY <1>1, <1>14 DEF TypeInv, OpenFile, Write
  <2>2. /\ \A q \in Processes \ {p} : proc'[q] = proc[q]
        /\ proc[p].pc = "write" /\ proc'[p].pc = "write"
    BY <2>1, <1>1, <1>14, WriteFacts
  <2> QED BY <2>2, <1>1, <1>5 DEF Active
<1> QED BY <1>4, <1>7, <1>8, <1>9, <1>10, <1>11, <1>12, <1>13, <1>14, StepCases

LEMMA AccessInit == Init => AccessInv
<1> SUFFICES ASSUME Init PROVE AccessInv
  OBVIOUS
<1>1. \A p \in Processes : proc[p].pc = "start"
  BY DEF Init, Idle
<1>2. Writers \subseteq Processes BY DEF Processes
<1> QED BY <1>1, <1>2, HeldInit DEF AccessInv, PartlyWritten, Undisturbed, Active

LEMMA AccessStep == AccessInv /\ [Next]_vars => AccessInv'
BY HeldStep, PartlyWrittenStep, UndisturbedStep DEF AccessInv, HeldInv

-----------------------------------------------------------------------------
(* The books that processes take in.                                       *)

FileInOrder == file = Missing \/ CutInOrder(file, entered)

(* While nothing fails, all that is read at different times is of the book *)
(* that is being written, or of the last one.                              *)
TakesIn(s) ==
    /\ (\A w \in Writers : proc[w].pc # "write") => CutOf(s, Records(saved))
    /\ \A w \in Writers : proc[w].pc = "write" => CutOf(s, proc[w].book)

BooksInOrder ==
    \A p \in Processes : faults = {} \/ p \notin collided =>
        InOrderOf(proc[p].book, entered)

MangleInv ==
    /\ SavedInv
    /\ AccessInv
    /\ Apart => FileInOrder /\ BooksInOrder
    /\ Apart /\ faults = {} =>
         /\ InOrderOf(Records(saved), entered)
         /\ \A p \in Processes : proc[p].pc = "read" => TakesIn(proc[p].buf)

LEMMA MangleFacts ==
    ASSUME MangleInv
    PROVE  /\ SavedInv /\ AccessInv /\ HeldInv /\ PartlyWritten
           /\ TypeInv /\ TypeOK /\ Writers \subseteq Processes
           /\ entered \in Seq(Writers) /\ saved \in Seq(Writers)
           /\ file # Missing => file \in Seq(Units)
           /\ Apart => FileInOrder /\ BooksInOrder /\ Alone
           /\ Apart /\ faults = {} =>
                /\ InOrderOf(Records(saved), entered)
                /\ \A p \in Processes : proc[p].pc = "read" => TakesIn(proc[p].buf)
                /\ (\A w \in Writers : proc[w].pc # "write") => FileIsSaved
                /\ \A w \in Writers : Saving(w)
BY DEF MangleInv, SavedInv, AccessInv, HeldInv, TypeInv, TypeOK, Processes

LEMMA EnteredSteps ==
    ASSUME [Next]_vars
    PROVE  UNCHANGED entered \/ \E p \in Writers : entered' = Append(entered, p)
<1> USE DEF history
<1>1. CASE UNCHANGED vars BY <1>1 DEF vars
<1>2. ASSUME NEW p \in Processes, Open(p) \/ OpenFails(p) \/ Read(p) \/ Parsed(p)
      PROVE  UNCHANGED entered
  BY <1>2 DEF Open, OpenFails, Begins, Read, Parsed
<1>3. ASSUME NEW p \in Processes, EndStep(p)
      PROVE  UNCHANGED entered
  BY <1>3 DEF EndStep, ParseFails, TruncateFails, Written, WriteFails, Crash
<1>4. ASSUME NEW p \in Writers, PromptForAddress(p) \/ Truncate(p) \/ Write(p)
      PROVE  UNCHANGED entered \/ entered' = Append(entered, p)
  BY <1>4 DEF PromptForAddress, Truncate, Write
<1> QED BY <1>1, <1>2, <1>3, <1>4, StepCases

LEMMA StillInOrder ==
    ASSUME TypeOK, [Next]_vars, NEW book \in Seq(Persons), InOrderOf(book, entered)
    PROVE  InOrderOf(book, entered')
<1>1. entered \in Seq(Writers) BY DEF TypeOK
<1> QED BY <1>1, EnteredSteps, InOrderGrows

LEMMA FileInOrderStep ==
    ASSUME MangleInv, [Next]_vars, Apart'
    PROVE  FileInOrder'
<1>1. /\ TypeInv /\ TypeOK /\ Writers \subseteq Processes /\ PartlyWritten
      /\ Apart /\ FileInOrder /\ BooksInOrder
  BY MangleFacts, Monotone DEF Apart
<1>2. ASSUME UNCHANGED file PROVE FileInOrder'
  <2>1. CASE file = Missing BY <1>2, <2>1 DEF FileInOrder
  <2>2. CASE file # Missing
    <3>1. PICK book \in Seq(Persons) : InOrderOf(book, entered) /\ CutOf(file, book)
      BY <2>2, <1>1 DEF FileInOrder, CutInOrder
    <3>2. InOrderOf(book, entered') BY <3>1, <1>1, StillInOrder
    <3> QED BY <3>1, <3>2, <1>2 DEF FileInOrder, CutInOrder
  <2> QED BY <2>1, <2>2
<1>3. ASSUME NEW p \in Writers, proc'[p].pc = "write", Writing(p)',
             proc'[p].book = proc[p].book, UNCHANGED entered
      PROVE  FileInOrder'
  <2> DEFINE book == proc[p].book
             s == SerializeToOstream(book)
             n == proc'[p].off
  <2>1. book \in Seq(Persons) BY <1>1, ProcessFacts
  <2>2. InOrderOf(book, entered)
    <3>1. p \notin collided BY <1>1 DEF Apart
    <3> QED BY <3>1, <1>1 DEF BooksInOrder
  <2>3. file' = SubSeq(s, 1, n) /\ n <= Len(s)
    BY <1>3 DEF Writing
  <2>4. n \in Nat
    <3>1. TypeOK' BY <1>1, TypeStep DEF TypeInv
    <3> QED BY <3>1, <1>1 DEF TypeOK
  <2>5. Len(s) \in Nat BY <2>1, SerializeProperties, LenProperties
  <2>6. n \in 0 .. Len(s) BY <2>3, <2>4, <2>5
  <2> HIDE DEF book, n
  <2>7. CutOf(SubSeq(s, 1, n), book) BY <2>1, <2>6, CutFacts
  <2> QED BY <2>1, <2>2, <2>3, <2>7, <1>3 DEF FileInOrder, CutInOrder
<1>4. ASSUME NEW p \in Writers, Truncate(p) \/ Write(p) PROVE FileInOrder'
  <2>1. file # Missing \/ Truncate(p) BY <1>1, <1>4 DEF TypeInv, OpenFile, Write
  <2>2. proc'[p].pc = "write" /\ proc'[p].book = proc[p].book /\ UNCHANGED entered
    BY <2>1, <1>1, <1>4, TruncateFacts, WriteFacts DEF history
  <2>3. PartlyWritten' BY PartlyWrittenStep, MangleFacts
  <2>4. Writing(p)' BY <2>2, <2>3 DEF PartlyWritten
  <2> QED BY <2>2, <2>4, <1>3
<1>5. CASE UNCHANGED vars BY <1>2, <1>5 DEF vars
<1>6. ASSUME NEW p \in Processes, Open(p) \/ OpenFails(p) \/ Parsed(p) \/ EndStep(p)
      PROVE  UNCHANGED file
  BY <1>1, <1>6, OpenFacts, OpenFailsFacts, ParsedFacts, EndStepFacts
<1>7. ASSUME NEW p \in Processes, Read(p) PROVE UNCHANGED file
  BY <1>7 DEF Read
<1>8. ASSUME NEW p \in Writers, PromptForAddress(p) PROVE UNCHANGED file
  BY <1>8 DEF PromptForAddress
<1> QED BY <1>2, <1>4, <1>5, <1>6, <1>7, <1>8, StepCases

(* What a process parses is the start of a book in order: the file's, when *)
(* no writer ran beside it, or else one that is read while it is written.  *)
LEMMA ParsedBookInOrder ==
    ASSUME MangleInv, Apart, NEW p \in Processes, Parsed(p),
           faults = {} \/ p \notin collided
    PROVE  InOrderOf(BookIn(proc[p].buf), entered)
<1>1. /\ TypeInv /\ TypeOK /\ Writers \subseteq Processes
      /\ entered \in Seq(Writers) /\ saved \in Seq(Writers)
      /\ FileInOrder /\ BooksInOrder /\ AccessInv
  BY MangleFacts
<1>2. proc[p].pc = "read" /\ Parses(proc[p].buf) /\ proc[p].buf \in Seq(Units)
  BY <1>1, ProcessFacts DEF Parsed
<1>3. CASE p \notin collided
  <2>1. ReadSoFar(p) BY <1>1, <1>2, <1>3 DEF AccessInv, Undisturbed
  <2>2. proc[p].buf = file /\ file # Missing BY <2>1, <1>1, ParsedIsFile
  <2>3. PICK book \in Seq(Persons) : InOrderOf(book, entered) /\ CutOf(file, book)
    BY <2>2, <1>1 DEF FileInOrder, CutInOrder
  <2> QED BY <2>2, <2>3, <1>1, <1>2, ParsedInOrder
<1>4. CASE faults = {}
  <2>1. TakesIn(proc[p].buf) /\ InOrderOf(Records(saved), entered)
    BY <1>2, <1>4, MangleFacts
  <2>2. CASE \A w \in Writers : proc[w].pc # "write"
    <3>1. CutOf(proc[p].buf, Records(saved)) BY <2>1, <2>2 DEF TakesIn
    <3>2. Records(saved) \in Seq(Persons) BY <1>1, RecordsType
    <3> QED BY <2>1, <3>1, <3>2, <1>1, <1>2, ParsedInOrder
  <2>3. ASSUME NEW w \in Writers, proc[w].pc = "write"
        PROVE  InOrderOf(BookIn(proc[p].buf), entered)
    <3>1. CutOf(proc[p].buf, proc[w].book) BY <2>1, <2>3 DEF TakesIn
    <3>2. proc[w].book \in Seq(Persons) BY <1>1, ProcessFacts
    <3>3. InOrderOf(proc[w].book, entered) BY <1>1, <1>4 DEF BooksInOrder
    <3> QED BY <3>1, <3>2, <3>3, <1>1, <1>2, ParsedInOrder
  <2> QED BY <2>2, <2>3
<1> QED BY <1>3, <1>4

LEMMA BooksInOrderStep ==
    ASSUME MangleInv, [Next]_vars, Apart'
    PROVE  BooksInOrder'
<1>1. /\ TypeInv /\ TypeOK /\ Writers \subseteq Processes
      /\ entered \in Seq(Writers) /\ Apart /\ BooksInOrder
  BY MangleFacts, Monotone DEF Apart
<1>2. collided \subseteq collided' /\ faults \subseteq faults'
  BY Monotone
<1>3. SUFFICES ASSUME NEW q \in Processes, faults' = {} \/ q \notin collided'
               PROVE  InOrderOf(proc'[q].book, entered')
  BY DEF BooksInOrder
<1>4. faults = {} \/ q \notin collided BY <1>2, <1>3
<1>5. proc[q].book \in Seq(Persons) /\ InOrderOf(proc[q].book, entered)
  BY <1>1, <1>4, ProcessFacts DEF BooksInOrder
<1>6. InOrderOf(proc[q].book, entered') BY <1>1, <1>5, StillInOrder
<1>7. InOrderOf(<<>>, entered')
  <2>1. entered' \in Seq(Writers) BY <1>1, TypeStep DEF TypeInv, TypeOK
  <2> QED BY <2>1, InOrderEmpty
<1>8. CASE UNCHANGED vars BY <1>6, <1>8 DEF vars
<1>9. ASSUME NEW p \in Processes, \A r \in Processes \ {p} : proc'[r] = proc[r],
             q = p => InOrderOf(proc'[p].book, entered')
      PROVE  InOrderOf(proc'[q].book, entered')
  <2>1. q # p => proc'[q] = proc[q] BY <1>3, <1>9
  <2> QED BY <2>1, <1>6, <1>9
<1>10. ASSUME NEW p \in Processes, \A r \in Processes \ {p} : proc'[r] = proc[r],
              proc'[p].book \in {proc[p].book, <<>>}
       PROVE  InOrderOf(proc'[q].book, entered')
  <2>1. q = p => InOrderOf(proc'[p].book, entered') BY <1>6, <1>7, <1>10
  <2> QED BY <2>1, <1>9, <1>10
<1>11. ASSUME NEW p \in Processes, Open(p) PROVE proc'[p].book = <<>>
  <2> DEFINE record == [Idle EXCEPT !.pc = "read"]
  <2>1. record \in Process /\ record.book = <<>> BY EmptySequences, IdleIn DEF Phases
  <2>2. Becomes(p, record) BY <1>11 DEF Open
  <2> HIDE DEF record
  <2> QED BY <2>1, <2>2, <1>1, BecomesFacts
<1>12. ASSUME NEW p \in Processes, Open(p) PROVE InOrderOf(proc'[q].book, entered')
  BY <1>1, <1>10, <1>11, <1>12, OpenFacts
<1>13. ASSUME NEW p \in Processes, OpenFails(p) PROVE InOrderOf(proc'[q].book, entered')
  BY <1>1, <1>10, <1>13, OpenFailsFacts
<1>14. ASSUME NEW p \in Processes, Read(p) PROVE InOrderOf(proc'[q].book, entered')
  <2>1. file # Missing BY <1>1, <1>14 DEF TypeInv, OpenFile, Read
  <2> QED BY <2>1, <1>1, <1>10, <1>14, ReadFacts
<1>15. ASSUME NEW p \in Processes, Parsed(p) PROVE InOrderOf(proc'[q].book, entered')
  <2>1. /\ \A r \in Processes \ {p} : proc'[r] = proc[r]
        /\ proc'[p].book = BookIn(proc[p].buf) /\ UNCHANGED entered
    BY <1>1, <1>15, ParsedFacts DEF history
  <2>2. q = p => InOrderOf(BookIn(proc[p].buf), entered)
    BY <1>1, <1>4, <1>15, ParsedBookInOrder
  <2> QED BY <2>1, <2>2, <1>9
<1>16. ASSUME NEW p \in Processes, EndStep(p) PROVE InOrderOf(proc'[q].book, entered')
  BY <1>1, <1>10, <1>16, EndStepFacts
<1>17. ASSUME NEW p \in Writers, PromptForAddress(p)
       PROVE  InOrderOf(proc'[q].book, entered')
  <2>1. /\ \A r \in Processes \ {p} : proc'[r] = proc[r]
        /\ proc'[p].book = Append(proc[p].book, <<p, p>>)
    BY <1>1, <1>17, PromptFacts
  <2>2. entered' = Append(entered, p) BY <1>17 DEF PromptForAddress
  <2>3. q = p => InOrderOf(proc'[p].book, entered')
    BY <2>1, <2>2, <1>1, <1>5, InOrderGrows
  <2> QED BY <2>1, <2>3, <1>1, <1>9
<1>18. ASSUME NEW p \in Writers, Truncate(p) PROVE InOrderOf(proc'[q].book, entered')
  BY <1>1, <1>10, <1>18, TruncateFacts
<1>19. ASSUME NEW p \in Writers, Write(p) PROVE InOrderOf(proc'[q].book, entered')
  <2>1. file # Missing BY <1>1, <1>19 DEF TypeInv, OpenFile, Write
  <2> QED BY <2>1, <1>1, <1>10, <1>19, WriteFacts
<1> QED BY <1>8, <1>12, <1>13, <1>14, <1>15, <1>16, <1>17, <1>18, <1>19, StepCases

(* A read that goes on takes in more of the book it began with, which is   *)
(* what the file has, or has the start of.                                 *)
LEMMA TakesInMore ==
    ASSUME MangleInv, Apart, faults = {}, NEW p \in Processes, Read(p)
    PROVE  TakesIn(proc'[p].buf)
<1>1. /\ TypeInv /\ TypeOK /\ Writers \subseteq Processes
      /\ saved \in Seq(Writers) /\ PartlyWritten
      /\ (\A w \in Writers : proc[w].pc # "write") => FileIsSaved
  BY MangleFacts
<1>2. file # Missing /\ proc[p].pc = "read"
  BY <1>1 DEF TypeInv, OpenFile, Read
<1>3. TakesIn(proc[p].buf) BY <1>2, MangleFacts
<1>4. file \in Seq(Units) /\ proc[p].buf \in Seq(Units)
  BY <1>1, <1>2, ProcessFacts DEF TypeOK
<1>5. PICK n \in Len(proc[p].buf) + 1 .. Len(file) :
         proc'[p].buf = proc[p].buf \o SubSeq(file, Len(proc[p].buf) + 1, n)
  BY <1>1, <1>2, ReadFacts
<1>6. ASSUME NEW book \in Seq(Persons), CutOf(file, book), CutOf(proc[p].buf, book)
      PROVE  CutOf(proc'[p].buf, book)
  BY <1>4, <1>5, <1>6, CutGrows
<1>7. ASSUME \A w \in Writers : proc[w].pc # "write"
      PROVE  CutOf(proc'[p].buf, Records(saved))
  <2> DEFINE book == Records(saved)
             s == SerializeToOstream(book)
  <2>1. book \in Seq(Persons) BY <1>1, RecordsType
  <2>2. s \in Seq(Units) /\ Len(s) \in Nat
    BY <2>1, SerializeProperties, LenProperties
  <2>3. file = s BY <1>1, <1>2, <1>7 DEF FileIsSaved
  <2>4. CutOf(proc[p].buf, book) BY <1>3, <1>7 DEF TakesIn
  <2> HIDE DEF book
  <2>5. CutOf(SubSeq(s, 1, Len(s)), book)
    BY <2>1, <2>2, CutFacts
  <2>6. SubSeq(s, 1, Len(s)) = s BY <2>2, SubSeqFull
  <2>7. CutOf(proc'[p].buf, book) BY <2>1, <2>3, <2>4, <2>5, <2>6, <1>6
  <2> QED BY <2>7 DEF book
<1>8. ASSUME NEW w \in Writers, proc[w].pc = "write"
      PROVE  CutOf(proc'[p].buf, proc[w].book)
  <2> DEFINE book == proc[w].book
             s == SerializeToOstream(book)
  <2>1. book \in Seq(Persons) /\ proc[w].off \in Nat BY <1>1, ProcessFacts
  <2>2. Len(s) \in Nat BY <2>1, SerializeProperties, LenProperties
  <2>3. proc[w].off <= Len(s) /\ file = SubSeq(s, 1, proc[w].off)
    BY <1>1, <1>8 DEF PartlyWritten, Writing
  <2>4. CutOf(proc[p].buf, book) BY <1>3, <1>8 DEF TakesIn
  <2>5. proc[w].off \in 0 .. Len(s) BY <2>1, <2>2, <2>3
  <2> HIDE DEF book
  <2>6. CutOf(file, book) BY <2>1, <2>3, <2>5, CutFacts
  <2>7. CutOf(proc'[p].buf, book) BY <2>1, <2>4, <2>6, <1>6
  <2> QED BY <2>7 DEF book
<1> QED BY <1>7, <1>8 DEF TakesIn

LEMMA TakesInNothing ==
    ASSUME TypeOK
    PROVE  TakesIn(<<>>)
<1>1. Writers \subseteq Processes /\ saved \in Seq(Writers)
  BY DEF TypeOK, Processes
<1>2. ASSUME NEW book \in Seq(Persons) PROVE CutOf(<<>>, book)
  <2>1. Len(SerializeToOstream(book)) \in Nat
    BY SerializeProperties, LenProperties
  <2>2. 0 \in 0 .. Len(SerializeToOstream(book)) BY <2>1
  <2> QED BY <2>2, CutFacts
<1>3. Records(saved) \in Seq(Persons) /\ \A w \in Writers : proc[w].book \in Seq(Persons)
  BY <1>1, RecordsType, ProcessFacts
<1> QED BY <1>2, <1>3 DEF TakesIn

LEMMA TakesInStep ==
    ASSUME MangleInv, [Next]_vars, Apart', faults' = {}
    PROVE  /\ InOrderOf(Records(saved'), entered')
           /\ \A q \in Processes : proc'[q].pc = "read" => TakesIn(proc[q].buf)'
<1>1. Apart /\ faults = {}
  BY Monotone DEF Apart
<1>2. /\ TypeInv /\ TypeOK /\ Writers \subseteq Processes /\ HeldInv /\ Alone
      /\ entered \in Seq(Writers) /\ saved \in Seq(Writers)
      /\ InOrderOf(Records(saved), entered)
      /\ \A q \in Processes : proc[q].pc = "read" => TakesIn(proc[q].buf)
      /\ \A w \in Writers : Saving(w)
  BY <1>1, MangleFacts
<1> DEFINE Good == /\ InOrderOf(Records(saved'), entered')
                   /\ \A q \in Processes :
                        proc'[q].pc = "read" => TakesIn(proc[q].buf)'
<1>3. InOrderOf(Records(saved), entered')
  <2>1. Records(saved) \in Seq(Persons) BY <1>2, RecordsType
  <2> QED BY <2>1, <1>2, StillInOrder
<1>4. CASE UNCHANGED vars
  BY <1>2, <1>4 DEF vars, history, TakesIn
<1>5. ASSUME NEW p \in Processes, \A q \in Processes \ {p} : proc'[q] = proc[q],
             UNCHANGED saved,
             proc'[p].pc = "write" <=> proc[p].pc = "write",
             proc[p].pc = "write" => proc'[p].book = proc[p].book,
             proc'[p].pc = "read" => TakesIn(proc'[p].buf)
      PROVE  Good
  <2>1. ASSUME NEW w \in Writers
        PROVE  /\ proc'[w].pc = "write" <=> proc[w].pc = "write"
               /\ proc[w].pc = "write" => proc'[w].book = proc[w].book
    <3>1. w # p => proc'[w] = proc[w] BY <1>2, <1>5
    <3> QED BY <3>1, <1>5
  <2>2. ASSUME NEW q \in Processes, proc'[q].pc = "read" PROVE TakesIn(proc'[q].buf)
    <3>1. q # p => proc'[q] = proc[q] BY <1>5
    <3> QED BY <3>1, <2>2, <1>2, <1>5
  <2>3. ASSUME NEW q \in Processes, proc'[q].pc = "read" PROVE TakesIn(proc[q].buf)'
    <3>1. TakesIn(proc'[q].buf) BY <2>2, <2>3
    <3> QED BY <3>1, <2>1, <1>5 DEF TakesIn
  <2> QED BY <2>3, <1>3, <1>5
<1>6. ASSUME NEW p \in Processes, Open(p) PROVE Good
  <2>1. TakesIn(<<>>) BY <1>2, TakesInNothing
  <2>2. proc'[p].buf = <<>> /\ proc'[p].pc = "read" /\ proc[p].pc = "start"
        /\ (\A q \in Processes \ {p} : proc'[q] = proc[q]) /\ UNCHANGED saved
    BY <1>2, <1>6, OpenFacts
  <2> QED BY <2>1, <2>2, <1>5
<1>7. ASSUME NEW p \in Processes, OpenFails(p) PROVE Good
  <2>1. /\ proc'[p].pc \in {"prompt", "failed"} /\ proc[p].pc = "start"
        /\ (\A q \in Processes \ {p} : proc'[q] = proc[q]) /\ UNCHANGED saved
    BY <1>2, <1>7, OpenFailsFacts
  <2> QED BY <2>1, <1>5
<1>8. ASSUME NEW p \in Processes, Read(p) PROVE Good
  <2>1. file # Missing BY <1>2, <1>8 DEF TypeInv, OpenFile, Read
  <2>2. /\ proc'[p].pc = "read" /\ proc[p].pc = "read"
        /\ (\A q \in Processes \ {p} : proc'[q] = proc[q]) /\ UNCHANGED saved
    BY <2>1, <1>2, <1>8, ReadFacts DEF history
  <2>3. TakesIn(proc'[p].buf) BY <1>1, <1>8, TakesInMore
  <2> QED BY <2>2, <2>3, <1>5
<1>9. ASSUME NEW p \in Processes, Parsed(p) PROVE Good
  <2>1. /\ proc'[p].pc \in {"prompt", "listed"} /\ proc[p].pc = "read"
        /\ (\A q \in Processes \ {p} : proc'[q] = proc[q]) /\ UNCHANGED saved
    BY <1>2, <1>9, ParsedFacts DEF history
  <2> QED BY <2>1, <1>5
<1>10. ASSUME NEW p \in Processes, EndStep(p), ~ Written(p) PROVE Good
  <2>1. /\ proc'[p].pc \in {"failed", "saved", "crashed"} /\ proc[p].pc # "write"
        /\ (\A q \in Processes \ {p} : proc'[q] = proc[q]) /\ UNCHANGED saved
    BY <1>2, <1>10, EndStepFacts
  <2> QED BY <2>1, <1>5
<1>11. ASSUME NEW p \in Processes, EndStep(p), Written(p) PROVE Good
  <2>1. /\ proc'[p].pc \in {"failed", "saved", "crashed"} /\ proc[p].pc = "write"
        /\ (\A q \in Processes \ {p} : proc'[q] = proc[q])
        /\ saved' = Append(saved, p) /\ UNCHANGED entered
    BY <1>2, <1>11, EndStepFacts DEF Written
  <2>2. p \in Writers BY <2>1, <1>11 DEF EndStep, ParseFails
  <2>3. proc[p].book = Records(saved') BY <2>1, <2>2, <1>2 DEF Saving
  <2>4. InOrderOf(Records(saved'), entered')
    <3>1. InOrderOf(proc[p].book, entered) BY <1>1, <2>2, <1>2, MangleFacts DEF BooksInOrder
    <3> QED BY <3>1, <2>1, <2>3
  <2>5. ASSUME NEW w \in Writers PROVE proc'[w].pc # "write"
    <3>1. CASE w = p BY <3>1, <2>1
    <3>2. CASE w # p
      <4>1. ~ Active(w) BY <3>2, <2>1, <2>2, <1>2 DEF Alone, Active
      <4>2. proc'[w] = proc[w] BY <3>2, <2>1, <1>2
      <4> QED BY <4>1, <4>2 DEF Active
    <3> QED BY <3>1, <3>2
  <2>6. ASSUME NEW q \in Processes, proc'[q].pc = "read" PROVE TakesIn(proc[q].buf)'
    <3>1. proc'[q] = proc[q] BY <2>6, <2>1
    <3>2. CutOf(proc[q].buf, proc[p].book)
      BY <3>1, <2>1, <2>2, <2>6, <1>2 DEF TakesIn
    <3>3. CutOf(proc'[q].buf, Records(saved')) BY <3>1, <3>2, <2>3
    <3> QED BY <3>3, <2>5 DEF TakesIn
  <2> QED BY <2>4, <2>6
<1>12. ASSUME NEW p \in Writers, PromptForAddress(p) PROVE Good
  <2>1. /\ proc'[p].pc = "truncate" /\ proc[p].pc = "prompt"
        /\ (\A q \in Processes \ {p} : proc'[q] = proc[q]) /\ UNCHANGED saved
    BY <1>2, <1>12, PromptFacts
  <2> QED BY <2>1, <1>2, <1>5
<1>13. ASSUME NEW p \in Writers, Truncate(p) PROVE Good
  <2>1. /\ proc'[p].pc = "write" /\ proc[p].pc = "truncate"
        /\ proc'[p].book = proc[p].book
        /\ (\A q \in Processes \ {p} : proc'[q] = proc[q])
        /\ UNCHANGED <<saved, entered>>
    BY <1>2, <1>13, TruncateFacts DEF history
  <2>2. proc'[p].book = Records(Append(saved, p)) BY <2>1, <1>2 DEF Saving
  <2>3. ASSUME NEW w \in Writers, w # p
        PROVE  proc[w].pc # "write" /\ proc'[w].pc # "write"
    <3>1. ~ Active(w) BY <2>3, <2>1, <1>2 DEF Alone, Active
    <3>2. proc'[w] = proc[w] BY <2>3, <2>1, <1>2
    <3> QED BY <3>1, <3>2 DEF Active
  <2>4. ASSUME NEW q \in Processes, proc'[q].pc = "read" PROVE TakesIn(proc[q].buf)'
    <3>1. proc'[q] = proc[q] BY <2>4, <2>1
    <3>2. CutOf(proc[q].buf, Records(saved))
      BY <3>1, <2>1, <2>3, <2>4, <1>2 DEF TakesIn
    <3>3. proc[q].buf \in Seq(Units) BY <1>2, ProcessFacts
    <3>4. CutOf(proc[q].buf, Records(Append(saved, p)))
      BY <3>2, <3>3, <1>2, CutOfNext
    <3> QED BY <3>1, <3>4, <2>1, <2>2, <2>3 DEF TakesIn
  <2> QED BY <2>1, <2>4, <1>2
<1>14. ASSUME NEW p \in Writers, Write(p) PROVE Good
  <2>1. file # Missing BY <1>2, <1>14 DEF TypeInv, OpenFile, Write
  <2>2. /\ proc'[p].pc = "write" /\ proc[p].pc = "write"
        /\ proc'[p].book = proc[p].book
        /\ (\A q \in Processes \ {p} : proc'[q] = proc[q]) /\ UNCHANGED saved
    BY <2>1, <1>2, <1>14, WriteFacts DEF history
  <2> QED BY <2>2, <1>2, <1>5
<1> QED BY <1>4, <1>6, <1>7, <1>8, <1>9, <1>10, <1>11, <1>12, <1>13, <1>14, StepCases

LEMMA MangleInit == Init => MangleInv
<1> SUFFICES ASSUME Init PROVE MangleInv
  OBVIOUS
<1>1. /\ file = Missing /\ entered = <<>> /\ saved = <<>>
      /\ \A p \in Processes : proc[p].pc = "start" /\ proc[p].book = <<>>
  BY DEF Init, Idle
<1>2. entered \in Seq(Writers) BY <1>1, EmptySeq
<1>3. InOrderOf(<<>>, entered) BY <1>2, InOrderEmpty
<1>4. Records(saved) = <<>>
  <2>1. Len(<<>>) = 0 BY EmptySequences
  <2>2. 1 .. Len(<<>>) = {} BY <2>1
  <2>3. Records(<<>>) \in Seq(Persons) /\ Len(Records(<<>>)) = 0
    BY <1>1, <1>2, <2>1, RecordsType
  <2> QED BY <1>1, <2>3, EmptySeq
<1> QED BY <1>1, <1>3, <1>4, SavedInit, AccessInit
        DEF MangleInv, FileInOrder, BooksInOrder

LEMMA MangleStep == MangleInv /\ [Next]_vars => MangleInv'
<1> SUFFICES ASSUME MangleInv, [Next]_vars PROVE MangleInv'
  OBVIOUS
<1>1. SavedInv' /\ AccessInv'
  BY MangleFacts, SavedStep, AccessStep
<1>2. Apart' => FileInOrder' /\ BooksInOrder'
  BY FileInOrderStep, BooksInOrderStep
<1>3. ASSUME Apart', faults' = {}
      PROVE  /\ InOrderOf(Records(saved'), entered')
             /\ \A q \in Processes : proc'[q].pc = "read" => TakesIn(proc[q].buf)'
  BY <1>3, TakesInStep
<1> QED BY <1>1, <1>2, <1>3 DEF MangleInv

(* Whoever crashes or fails, no process takes in a record that nobody      *)
(* entered, or persons out of order, unless writers collide; nor does a    *)
(* reader that runs beside a writer, as long as nothing failed.            *)
THEOREM BooksAreNotMangled == Spec => []NeverMangled
<1>1. MangleInv => NeverMangled
  BY DEF MangleInv, BooksInOrder, NeverMangled
<1> QED BY <1>1, MangleInit, MangleStep, PTL DEF Spec
=============================================================================
