---------------------------- MODULE Bufferevents ----------------------------
(***************************************************************************)
(* rot13_libevent2.cpp and echo_libevent.cpp: two servers on libevent's    *)
(* bufferevents. libevent (external) receives into an input buffer, sends  *)
(* from an output buffer and calls back; one recv or send a callback. The  *)
(* rot13 server sets a high watermark, at which receiving is suspended,    *)
(* and answers all the lines in the input at once; the echo server answers *)
(* one line a callback. Either frees a connection that ends, whatever is   *)
(* still in its output.                                                    *)
(***************************************************************************)
EXTENDS Connections, SequencesExt

CONSTANTS
    MaxLine,      \* MAX_LINE
    FdSetSize     \* FD_SETSIZE

ASSUME BuffereventsAssumption ==
    /\ MaxLine \in Nat \ {0}
    /\ FdSetSize \in Nat \ {0}

VARIABLES
    server,    \* which of the two runs
    pc,        \* "poll", "dispatch", "stopped"
    active,    \* the events whose callbacks are still to be called
    bev        \* the input and output of a descriptor's bufferevent, or NULL

vars == <<server, pc, active, bev, conn, backlog, peer, streams>>

ReadEvent(f)  == [fd |-> f, what |-> "read"]
WriteEvent(f) == [fd |-> f, what |-> "write"]

Live == {f \in Fds : bev[f] # NULL}
Client(f) == conn[f]

Init ==
    /\ server \in {"rot13", "echo"}
    /\ pc = "poll"
    /\ active = {}
    /\ bev = [f \in Fds |-> NULL]
    /\ InitConnections

-----------------------------------------------------------------------------
(* The callbacks of the servers, on what a bufferevent holds.              *)

(* rot13_libevent2: every complete line, then all of an input too long.    *)
LastNewline(s) == Max({0} \cup {k \in 1 .. Len(s) : s[k] = NL})

TooLong(rest) == Len(rest) >= MaxLine

readcb(b) ==
    LET n    == LastNewline(b.input)
        rest == SubSeq(b.input, n + 1, Len(b.input))
        lines == b.output \o Rot13(SubSeq(b.input, 1, n))
    IN  IF TooLong(rest)
        THEN [input |-> <<>>, output |-> Append(lines \o Rot13(rest), NL)]
        ELSE [input |-> rest, output |-> lines]

(* echo_libevent: one line, which any run of '\r' and '\n' ends; "Said"    *)
(* stands for the bytes of "You said ". %s prints a line up to its first   *)
(* NUL; what follows that was taken from the input and is lost.            *)
Eol == {10, 13}
Said == 89
NUL == 0

Printed(s) == SubSeq(s, 1, Min({Len(s) + 1} \cup {k \in 1 .. Len(s) : s[k] = NUL}) - 1)

buf_read_callback_KeepsEol(b) ==                              \* mutation
    LET ends == {k \in 1 .. Len(b.input) : b.input[k] \in Eol} IN
    IF ends = {} THEN b
    ELSE [input  |-> SubSeq(b.input, Min(ends), Len(b.input)),
          output |-> b.output \o <<Said>>
                              \o Printed(SubSeq(b.input, 1, Min(ends) - 1)) \o <<NL>>]
buf_read_callback(b) ==
    LET ends == {k \in 1 .. Len(b.input) : b.input[k] \in Eol}
        line == SubSeq(b.input, 1, Min(ends) - 1)
        next == Min({k \in Min(ends) .. Len(b.input) + 1 : k \notin ends})
    IN  IF ends = {} THEN b
        ELSE [input  |-> SubSeq(b.input, next, Len(b.input)),
              output |-> b.output \o <<Said>> \o Printed(line) \o <<NL>>]

-----------------------------------------------------------------------------
(* event_base_dispatch.                                                    *)

(* How much the input still takes. The echo server sets no watermark.      *)
Room_NoMark(f) == RecvMax                                     \* mutation
Room(f) == IF server = "rot13" THEN MaxLine - Len(bev[f].input) ELSE RecvMax

ToWrite_Rot13Only == {f \in Live : server = "rot13" /\ bev[f].output # <<>>} \* mutation
ToWrite == {f \in Live : bev[f].output # <<>>}

Ready ==
    {ReadEvent(f) : f \in {g \in Live : Readable(conn[g]) /\ Room(g) > 0}}
        \cup {WriteEvent(f) : f \in {g \in ToWrite : Writable(conn[g])}}
        \cup {ReadEvent(f) : f \in {g \in {Listener} : backlog # <<>>}}

Poll ==
    /\ pc = "poll"
    /\ Ready # {}
    /\ active' = Ready
    /\ pc' = "dispatch"
    /\ UNCHANGED <<server, bev, conn, backlog, peer, streams>>

(* The process ends and the kernel closes everything it had open.          *)
Stop ==
    /\ pc' = "stopped"
    /\ active' = {}
    /\ bev' = [f \in Fds |-> NULL]
    /\ conn' = [f \in Fds |-> NULL]
    /\ backlog' = <<>>
    /\ UNCHANGED <<server, peer, streams>>

PollFails == pc = "poll" /\ Stop

EndDispatch ==
    /\ pc = "dispatch"
    /\ active = {}
    /\ pc' = "poll"
    /\ UNCHANGED <<server, active, bev, conn, backlog, peer, streams>>

Calls(e) ==
    /\ pc = "dispatch"
    /\ e \in active

Called(e) ==
    /\ active' = active \ {e}
    /\ UNCHANGED <<server, pc>>

-----------------------------------------------------------------------------
(* do_accept and accept_callback.                                          *)

AcceptFails ==
    /\ Calls(ReadEvent(Listener)) /\ Called(ReadEvent(Listener))
    /\ UNCHANGED <<bev, conn, backlog, peer, streams>>

Accept(f) ==
    /\ Calls(ReadEvent(Listener)) /\ Called(ReadEvent(Listener))
    /\ LowestFree(f)
    /\ backlog' = Tail(backlog)
    /\ UNCHANGED <<peer, streams>>

Refused(f) == server = "rot13" /\ f > FdSetSize

AcceptInto(f) ==
    /\ Accept(f)
    /\ ~ Refused(f)
    /\ conn' = [conn EXCEPT ![f] = Head(backlog)]
    /\ bev' = [bev EXCEPT ![f] = [input |-> <<>>, output |-> <<>>]]

AcceptRefused(f) ==                         \* close(fd)
    /\ Accept(f)
    /\ Refused(f)
    /\ UNCHANGED <<conn, bev>>

(* calloc failed: the descriptor stays open, and nobody serves it.         *)
AcceptUnattended(f) ==
    /\ Accept(f)
    /\ server = "echo"
    /\ conn' = [conn EXCEPT ![f] = Head(backlog)]
    /\ UNCHANGED bev

(* No bufferevent, and the callback goes on with NULL.                     *)
AcceptStops(f) ==
    /\ Calls(ReadEvent(Listener))
    /\ LowestFree(f)
    /\ ~ Refused(f)
    /\ Stop

-----------------------------------------------------------------------------
(* libevent's callbacks, with the server's that they call.                 *)

(* errorcb, buf_error_callback: the bufferevent is freed, with its events, *)
(* and the descriptor is closed.                                           *)
Free_Open(f) ==                                               \* mutation
    /\ active' = active \ {ReadEvent(f), WriteEvent(f)}
    /\ bev' = [bev EXCEPT ![f] = NULL]
    /\ UNCHANGED <<server, pc, conn, backlog, peer, streams>>
Free(f) ==
    /\ active' = active \ {ReadEvent(f), WriteEvent(f)}
    /\ bev' = [bev EXCEPT ![f] = NULL]
    /\ conn' = [conn EXCEPT ![f] = NULL]
    /\ UNCHANGED <<server, pc, backlog, peer, streams>>

Receive(f) ==
    /\ Calls(ReadEvent(f)) /\ Called(ReadEvent(f))
    /\ Inbound(Client(f)) > 0
    /\ LET chunk == Chunk(Client(f))
           s == SubSeq(chunk, 1, Least(Room(f), Len(chunk)))
           b == [bev[f] EXCEPT !.input = @ \o s]
       IN  /\ bev' = [bev EXCEPT ![f] = IF server = "rot13" THEN readcb(b)
                                        ELSE buf_read_callback(b)]
           /\ rpos' = [rpos EXCEPT ![Client(f)] = @ + Len(s)]
    /\ UNCHANGED <<conn, backlog, peer, sent, echoed, drained>>

ReceiveEnd(f) ==                            \* end of file, or an error
    /\ Calls(ReadEvent(f))
    /\ Inbound(Client(f)) = 0
    /\ Free(f)

Send(f) ==
    /\ Calls(WriteEvent(f)) /\ Called(WriteEvent(f))
    /\ ~ Gone(Client(f))
    /\ \E n \in 1 .. Least(SendRoom(Client(f)), Len(bev[f].output)) :
         /\ echoed' = [echoed EXCEPT ![Client(f)] = @ \o SubSeq(bev[f].output, 1, n)]
         /\ bev' = [bev EXCEPT ![f].output = SubSeq(@, n + 1, Len(@))]
    /\ UNCHANGED <<conn, backlog, peer, sent, rpos, drained>>

SendError(f) ==                             \* ECONNRESET
    /\ Calls(WriteEvent(f))
    /\ peer[Client(f)] = "reset"
    /\ Free(f)

SendSignal(f) ==                            \* EPIPE: SIGPIPE is not ignored
    /\ Calls(WriteEvent(f))
    /\ peer[Client(f)] = "broken"
    /\ Stop

-----------------------------------------------------------------------------
ClientStep(c) ==
    /\ \/ pc # "stopped" /\ Connect(c)
       \/ ClientSend(c)
       \/ ClientShutdown(c)
       \/ ClientReset(c)
       \/ ClientRead(c)
    /\ UNCHANGED <<server, pc, active, bev>>

AcceptStep(f) ==
    AcceptInto(f) \/ AcceptRefused(f) \/ AcceptUnattended(f) \/ AcceptStops(f)

ConnectionStep(f) ==
    Receive(f) \/ ReceiveEnd(f) \/ Send(f) \/ SendError(f) \/ SendSignal(f)

ServerStep ==
    \/ Poll \/ EndDispatch
    \/ AcceptFails
    \/ \E f \in Fds : AcceptStep(f) \/ ConnectionStep(f)

Next == ServerStep \/ PollFails \/ \E c \in Clients : ClientStep(c)

Spec == Init /\ [][Next]_vars

(* The dispatcher calls every active callback before it polls again, which *)
(* may fail but need not, and a client that stays reads what it is sent.   *)
Fairness ==
    /\ WF_vars(ServerStep)
    /\ \A c \in Clients :
         WF_vars(ClientRead(c) /\ UNCHANGED <<server, pc, active, bev>>)

FairSpec == Spec /\ Fairness

-----------------------------------------------------------------------------
(* Properties.                                                             *)

Received(c) == SubSeq(sent[c], 1, rpos[c])
Answer(f) == echoed[Client(f)] \o bev[f].output

(* What the rot13 server owes for one more byte: a line ends with its      *)
(* newline, or with one that is added at MAX_LINE bytes without.           *)
Owed(b, byte) ==
    LET line == Append(b.input, byte) IN
    IF byte = NL THEN [input |-> <<>>, output |-> b.output \o Rot13(line)]
    ELSE IF Len(line) = MaxLine
         THEN [input |-> <<>>, output |-> b.output \o Rot13(line) \o <<NL>>]
    ELSE [b EXCEPT !.input = line]

(* The answers of the rot13 server do not depend on how the stream was cut *)
(* into callbacks: what a client was and will be sent, and what is held    *)
(* back, are those of its bytes taken one by one.                          *)
AnswersByteByByte ==
    server = "rot13" =>
        \A f \in Live :
            [input |-> bev[f].input, output |-> Answer(f)]
                = FoldLeft(Owed, [input |-> <<>>, output |-> <<>>],
                           Received(Client(f)))

(* The lines of a stream, one byte more: those that the client sends, with *)
(* what each is owed in return, and those that it gets. Answers with       *)
(* nothing said count for nothing: a cut between '\r' and '\n' adds one.   *)
Say(lines, line) == IF line = <<Said>> THEN lines ELSE Append(lines, line)

Due(r, b) ==
    IF b \in Eol THEN [lines |-> Say(r.lines, <<Said>> \o Printed(r.line)), line |-> <<>>]
    ELSE [r EXCEPT !.line = Append(@, b)]

Given(r, b) ==
    IF b \in Eol THEN [lines |-> Say(r.lines, r.line), line |-> <<>>]
    ELSE [r EXCEPT !.line = Append(@, b)]

LinesDue(s) == FoldLeft(Due, [lines |-> <<>>, line |-> <<>>], s)
LinesGiven(s) == FoldLeft(Given, [lines |-> <<>>, line |-> <<>>], s)

(* The echo server reorders nothing, and loses nothing but what follows a  *)
(* NUL in its line: what it received and does not hold back are complete   *)
(* lines, and what it answered is "You said " and each of them up to its   *)
(* first NUL, whatever the cuts between the callbacks.                     *)
EchoesEveryLine ==
    server = "echo" =>
        \A f \in Live :
            LET got  == Received(Client(f))
                used == Len(got) - Len(bev[f].input)
                due  == LinesDue(SubSeq(got, 1, used))
            IN  /\ bev[f].input = SubSeq(got, used + 1, Len(got))
                /\ due.line = <<>>
                /\ LinesGiven(Answer(f)) = due

Served(c) == \E f \in Live : Client(f) = c

(* A polite client waits for the answer to a line before it sends more.    *)
Lines(s) == Cardinality({k \in 1 .. Len(s) : s[k] = NL})
Polite(c) ==
    \A k \in 1 .. Len(sent[c]) - 1 :
        Lines(SubSeq(sent[c], 1, k)) <= Lines(SubSeq(echoed[c], 1, drained[c]))

(* Every line of a client that stays is answered: by the rot13 server      *)
(* whatever the client does, by the echo server if the client is polite    *)
(* (it answers one line a callback, and the next may wait for bytes that   *)
(* never come). A client that is owed answers is at some time owed none.   *)
LineAnswered ==
    \A c \in {d \in Clients : MaxSent[d] > 0} :
        (server = "rot13" \/ []Polite(c)) =>
            (Served(c) /\ Lines(sent[c]) > Lines(echoed[c]))
                ~> \/ Lines(echoed[c]) >= Lines(sent[c])
                   \/ peer[c] # "open" \/ pc = "stopped"

(* The descriptor of a client that left is closed.                         *)
DescriptorReleased ==
    \A c \in Clients :
        (Served(c) /\ peer[c] # "open") ~> (\A f \in Fds : conn[f] # c)
=============================================================================
