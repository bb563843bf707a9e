----------------------------- MODULE LineBuffer -----------------------------
(***************************************************************************)
(* struct fd_state: the buffer that a rot13 server keeps for a connection. *)
(* Bytes enter at buffer_used, transformed; the bytes between n_written    *)
(* and write_upto belong to complete lines and wait to be sent.            *)
(* buffer_used is the length of the sequence "buffer".                     *)
(***************************************************************************)
EXTENDS Rot13, FiniteSetsExt

CONSTANT MaxLine                          \* MAX_LINE

ASSUME MaxLineAssumption == MaxLine \in Nat \ {0}

FdState == [buffer : Seq(Char), writing : BOOLEAN,
            n_written : Nat, write_upto : Nat]

CursorsInOrder(st) ==
    /\ st.n_written <= st.write_upto
    /\ st.write_upto <= Len(st.buffer)
    /\ Len(st.buffer) <= MaxLine

(* A mutation: a cursor as malloc left it, -1 for what is no length.       *)
alloc_fd_state_NotInitialised ==
    [buffer |-> <<>>, writing |-> FALSE, n_written |-> -1, write_upto |-> 0]
alloc_fd_state ==
    [buffer |-> <<>>, writing |-> FALSE, n_written |-> 0, write_upto |-> 0]

buffer_used(st) == Len(st.buffer)

(* Mutations: no bound, and a bound that is one short.                     *)
Taken_NoBound(st, n) == n
Taken_OneShort(st, n) == Least(n, MaxLine - 1 - buffer_used(st))

(* How many of the next n bytes the buffer takes: the rest is dropped.     *)
Taken(st, n) == Least(n, MaxLine - buffer_used(st))

Newlines(s) == {k \in 1 .. Len(s) : s[k] = NL}

(* One turn of the loop of do_read over the bytes that recv returned. A    *)
(* newline commits what is stored when it is reached, even if it is        *)
(* dropped itself.                                                         *)
StoreByte(st, b) ==
    LET grown == IF buffer_used(st) < MaxLine
                 THEN [st EXCEPT !.buffer = Append(@, rot13_char(b))] ELSE st
    IN  IF b = NL
        THEN [grown EXCEPT !.writing = TRUE, !.write_upto = buffer_used(grown)]
        ELSE grown

(* A mutation: writing is not set.                                         *)
StoreChunk_NotWriting(st, s) ==
    LET grown == [st EXCEPT !.buffer = @ \o Rot13(SubSeq(s, 1, Taken(st, Len(s))))]
    IN  IF Newlines(s) = {} THEN grown
        ELSE [grown EXCEPT !.write_upto =
                  buffer_used(st) + Taken(st, Max(Newlines(s)))]

(* The whole loop.                                                         *)
StoreChunk(st, s) ==
    LET grown == [st EXCEPT !.buffer = @ \o Rot13(SubSeq(s, 1, Taken(st, Len(s))))]
    IN  IF Newlines(s) = {} THEN grown
        ELSE [grown EXCEPT !.writing = TRUE,
                           !.write_upto = buffer_used(st) + Taken(st, Max(Newlines(s)))]

(* What do_write still has to send, and the effect of a send of n bytes.   *)
Unsent(st) == st.write_upto - st.n_written
Outgoing(st, n) == SubSeq(st.buffer, st.n_written + 1, st.n_written + n)
Advance_Assigns(st, n) == [st EXCEPT !.n_written = n]         \* mutation
Advance(st, n) == [st EXCEPT !.n_written = @ + n]

FinishWrite_AlwaysRewinds(st, base) ==                        \* mutation
    [buffer |-> SubSeq(st.buffer, 1, base), writing |-> FALSE,
     n_written |-> base, write_upto |-> base]

(* The end of do_write, once everything committed is sent: an emptied      *)
(* buffer is rewound to its first "base" bytes.                            *)
FinishWrite(st, base) ==
    IF st.n_written = buffer_used(st)
    THEN [buffer |-> SubSeq(st.buffer, 1, base), writing |-> FALSE,
          n_written |-> base, write_upto |-> base]
    ELSE [st EXCEPT !.writing = FALSE]
=============================================================================
