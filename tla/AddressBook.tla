---------------------------- MODULE AddressBook ----------------------------
(***************************************************************************)
(* addressbook_writer.cpp and addressbook_reader.cpp: programs that read   *)
(* an address book from a file; a writer then adds the person it is told,  *)
(* truncates the file and writes the book again. Any number run at once    *)
(* and nothing keeps them apart. Files (external) are read and written in  *)
(* pieces, at the offset of who does it. A writer may crash at any step.   *)
(***************************************************************************)
EXTENDS Integers, Sequences, FiniteSetsExt

CONSTANTS
    Writers, Readers,   \* the processes; a writer's name is its person's too
    Missing             \* no such file

Processes == Writers \cup Readers

(* What a file is made of (see below), and the persons of a book.          *)
Names == Writers \cup {Missing}
Units == {"head", "tail", "hole"} \X Names
Persons == Names \X Names

ASSUME AddressBookAssumption ==
    /\ Writers \cap Readers = {}
    /\ Missing \notin Writers
    /\ Missing \notin Seq(Units)

VARIABLES
    file,       \* the units in the file, or Missing
    proc,       \* what a process does, and what it holds
    entered,    \* history: the persons entered, in order
    saved,      \* history: those whose writer returned 0
    faults,     \* history: "open", "write": what failed or crashed
    collided    \* history: processes that ran while a writer did

history == <<entered, saved, faults, collided>>
vars == <<file, proc, history>>

(* A person takes two units, head and tail. Records of the same length     *)
(* take the other's tail for their own: a pair is a record as it is read.  *)
HeadOf(x) == <<"head", x>>
TailOf(x) == <<"tail", x>>
Hole == <<"hole", Missing>>

SerializeToOstream(book) ==
    [k \in 1 .. 2 * Len(book) |-> IF k % 2 = 1 THEN HeadOf(book[(k + 1) \div 2][1])
                                               ELSE TailOf(book[k \div 2][2])]

(* A book that is cut between two persons parses, and so does an empty     *)
(* file; one that is cut within a person does not, nor does a hole.        *)
Parses_Partial(s) == \A k \in 1 .. Len(s) \div 2 : s[2 * k - 1][1] = "head" \* mutation
Parses(s) ==
    /\ Len(s) % 2 = 0
    /\ \A k \in 1 .. Len(s) : s[k][1] = (IF k % 2 = 1 THEN "head" ELSE "tail")

BookIn(s) == [k \in 1 .. (Len(s) + 1) \div 2 |->
                <<s[2 * k - 1][2], IF 2 * k <= Len(s) THEN s[2 * k][2] ELSE Missing>>]

(* buf: what was read, or is to be written; off: how much of it was.       *)
Idle == [pc |-> "start", buf |-> <<>>, off |-> 0, book |-> <<>>]

Init ==
    /\ file = Missing
    /\ proc = [p \in Processes |-> Idle]
    /\ entered = <<>> /\ saved = <<>> /\ faults = {} /\ collided = {}

Active(p) == proc[p].pc \in {"read", "prompt", "truncate", "write"}

Becomes(p, record) == proc' = [proc EXCEPT ![p] = record]
Ends(p, how) == Becomes(p, [Idle EXCEPT !.pc = how, !.book = proc[p].book])

-----------------------------------------------------------------------------
(* Both programs: read the book.                                           *)

Begins(p) ==
    /\ proc[p].pc = "start"
    /\ LET others == {q \in Processes \ {p} : Active(q)} IN
         collided' = collided \cup (IF others \cap Writers # {} THEN {p} ELSE {})
                              \cup (IF p \in Writers THEN others ELSE {})
    /\ UNCHANGED <<file, entered, saved>>

Open(p) ==
    /\ Begins(p)
    /\ file # Missing
    /\ Becomes(p, [Idle EXCEPT !.pc = "read"])
    /\ UNCHANGED faults

(* "File not found. Creating a new file.", whatever the error was.         *)
OpenFails(p) ==
    /\ Begins(p)
    /\ faults' = IF file = Missing THEN faults ELSE faults \cup {"open"}
    /\ Becomes(p, [Idle EXCEPT !.pc = IF p \in Writers THEN "prompt" ELSE "failed"])

AtEnd(p) == Len(proc[p].buf) >= Len(file)

Read(p) ==
    /\ proc[p].pc = "read"
    /\ \E n \in Len(proc[p].buf) + 1 .. Len(file) :
         Becomes(p, [proc[p] EXCEPT !.buf = @ \o SubSeq(file, Len(@) + 1, n)])
    /\ UNCHANGED <<file, history>>

Parsed(p) ==
    /\ proc[p].pc = "read" /\ AtEnd(p)
    /\ Parses(proc[p].buf)
    /\ Becomes(p, [Idle EXCEPT !.pc = IF p \in Writers THEN "prompt" ELSE "listed",
                               !.book = BookIn(proc[p].buf)])
    /\ UNCHANGED <<file, history>>

ParseFails_GoesOn(p) ==                                       \* mutation
    /\ proc[p].pc = "read" /\ AtEnd(p)
    /\ ~ Parses(proc[p].buf)
    /\ Becomes(p, [Idle EXCEPT !.pc = IF p \in Writers THEN "prompt" ELSE "failed"])
    /\ UNCHANGED <<file, history>>
ParseFails(p) ==                            \* return -1
    /\ proc[p].pc = "read" /\ AtEnd(p)
    /\ ~ Parses(proc[p].buf)
    /\ Ends(p, "failed")
    /\ UNCHANGED <<file, history>>

-----------------------------------------------------------------------------
(* The writer: add a person, write the book back.                          *)

add_person_Only(book, p) == <<<<p, p>>>>                      \* mutation
add_person(book, p) == Append(book, <<p, p>>)

PromptForAddress(p) ==
    /\ proc[p].pc = "prompt"
    /\ Becomes(p, [proc[p] EXCEPT !.pc = "truncate", !.book = add_person(@, p)])
    /\ entered' = Append(entered, p)
    /\ UNCHANGED <<file, saved, faults, collided>>

Truncate(p) ==
    /\ proc[p].pc = "truncate"
    /\ file' = <<>>
    /\ Becomes(p, [proc[p] EXCEPT !.pc = "write",
                                  !.buf = SerializeToOstream(proc[p].book)])
    /\ UNCHANGED history

TruncateFails(p) ==
    /\ proc[p].pc = "truncate"
    /\ Ends(p, "failed")
    /\ UNCHANGED <<file, history>>

(* A write past the end of a file that another truncated leaves a hole.    *)
Overlaid(s, off, units) ==
    [k \in 1 .. Max({Len(s), off + Len(units)}) |->
        IF k \in off + 1 .. off + Len(units) THEN units[k - off]
        ELSE IF k <= Len(s) THEN s[k] ELSE Hole]

Write(p) ==
    /\ proc[p].pc = "write"
    /\ \E n \in proc[p].off + 1 .. Len(proc[p].buf) :
         /\ file' = Overlaid(file, proc[p].off, SubSeq(proc[p].buf, proc[p].off + 1, n))
         /\ Becomes(p, [proc[p] EXCEPT !.off = n])
    /\ UNCHANGED history

Written(p) ==                               \* return 0
    /\ proc[p].pc = "write"
    /\ proc[p].off = Len(proc[p].buf)
    /\ saved' = Append(saved, p)
    /\ Ends(p, "saved")
    /\ UNCHANGED <<file, entered, faults, collided>>

(* The error of the last write, which the destructor of the stream does,   *)
(* is not looked at: return 0 all the same.                                *)
WriteFails(p) ==
    /\ proc[p].pc = "write"
    /\ proc[p].off < Len(proc[p].buf)
    /\ faults' = faults \cup {"write"}
    /\ \/ Ends(p, "failed") /\ UNCHANGED saved
       \/ Ends(p, "saved") /\ saved' = Append(saved, p)
    /\ UNCHANGED <<file, entered, collided>>

Crash(p) ==
    /\ Active(p)
    /\ faults' = IF proc[p].pc = "write" THEN faults \cup {"write"} ELSE faults
    /\ Ends(p, "crashed")
    /\ UNCHANGED <<file, entered, saved, collided>>

-----------------------------------------------------------------------------
Loads(p) == Open(p) \/ OpenFails(p) \/ Read(p) \/ Parsed(p) \/ ParseFails(p)

Stores(p) ==
    \/ PromptForAddress(p)
    \/ Truncate(p) \/ TruncateFails(p)
    \/ Write(p) \/ Written(p) \/ WriteFails(p)
    \/ Crash(p)

Next == \/ \E p \in Processes : Loads(p)
        \/ \E p \in Writers : Stores(p)

Spec == Init /\ [][Next]_vars

-----------------------------------------------------------------------------
(* Properties.                                                             *)

Apart == collided \cap Writers = {}
NoWriter == \A p \in Writers : ~ Active(p)

Records(persons) == [k \in 1 .. Len(persons) |-> <<persons[k], persons[k]>>]

TypeOK ==
    /\ file \in Seq(Units) \cup {Missing}
    /\ proc \in [Processes ->
          [pc : {"start", "read", "prompt", "truncate", "write",
                 "listed", "saved", "failed", "crashed"},
           buf : Seq(Units), off : Nat, book : Seq(Persons)]]
    /\ entered \in Seq(Writers) /\ saved \in Seq(Writers)
    /\ faults \subseteq {"open", "write"}
    /\ collided \subseteq Processes

(* One writer after the other, and nothing fails: the file is the book of  *)
(* all the persons that were saved, in order.                              *)
SavedInOrder ==
    Apart /\ faults = {} /\ NoWriter =>
        \/ saved = <<>> /\ file = Missing
        \/ file # Missing /\ Parses(file) /\ BookIn(file) = Records(saved)

(* A book is of some of the persons, each once, in their order.            *)
InOrderOf(book, persons) ==
    \E place \in [1 .. Len(book) -> 1 .. Len(persons)] :
        /\ \A k, l \in 1 .. Len(book) : k < l => place[k] < place[l]
        /\ \A k \in 1 .. Len(book) : book[k] = Records(persons)[place[k]]

(* No process takes in a record that nobody entered, or persons out of     *)
(* order, though writers crash half-way: a book is lost, or cut between    *)
(* two persons, or rejected. A reader may even run while a writer does, as *)
(* long as none failed. Only writers that collide mix their records.       *)
NeverMangled ==
    \A p \in Processes :
        Apart /\ (faults = {} \/ p \notin collided) =>
            InOrderOf(proc[p].book, entered)

(* The file that a writer truncates holds nothing but what the writer has  *)
(* in hand: it read it to its end, could parse it, and nobody changed it   *)
(* while the person was typed in. Only a writer that could not open the    *)
(* file, or that collided, throws away a book, or a damaged file.          *)
HeldBeforeTruncated ==
    [][\A p \in Writers :
          (/\ proc[p].pc = "truncate" /\ proc'[p].pc = "write"
           /\ Apart /\ "open" \notin faults)
            => \/ file = Missing
               \/ Parses(file) /\ proc[p].book = Append(BookIn(file), <<p, p>>)]_vars
=============================================================================
