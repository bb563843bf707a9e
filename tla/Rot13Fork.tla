----------------------------- MODULE Rot13Fork -----------------------------
(***************************************************************************)
(* rot13_fork.cpp: the rot13 server with a process for every connection.   *)
(* The parent accepts and forks; it never closes a descriptor and never    *)
(* waits for a child. A child receives byte by byte into outbuf, and at a  *)
(* newline sends what is there, in a blocking send whose result it ignores. *)
(***************************************************************************)
EXTENDS Connections, FiniteSets

CONSTANTS
    MaxLine,     \* MAX_LINE
    MaxProc,     \* children the system lets the parent have, ended ones too
    Readers      \* the clients that read what they are sent

VARIABLES
    pc, fd,      \* the parent: "accept" or "fork", for its descriptor fd
    child,       \* the child of a client, or NULL
    stored       \* history: bytes that entered outbuf while the client was there

vars == <<pc, fd, child, stored, conn, backlog, peer, streams>>

(* n: how much of outbuf the send that runs has copied to the kernel.      *)
Child == [pc : {"recv", "send", "ended"}, outbuf : Seq(Char), n : Nat]

ASSUME ForkAssumption ==
    /\ MaxLine \in Nat \ {0}
    /\ MaxProc \in Nat
    /\ Readers \subseteq Clients
    /\ NULL \notin Child

Init ==
    /\ pc = "accept"
    /\ fd = Listener
    /\ child = [c \in Clients |-> NULL]
    /\ stored = [c \in Clients |-> <<>>]
    /\ InitConnections

Forked == {c \in Clients : child[c] # NULL}
Running(c) == child[c] # NULL /\ child[c].pc # "ended"

-----------------------------------------------------------------------------
(* run: the parent.                                                        *)

Accept(f) ==
    /\ pc = "accept"
    /\ backlog # <<>>
    /\ LowestFree(f)
    /\ conn' = [conn EXCEPT ![f] = Head(backlog)]
    /\ backlog' = Tail(backlog)
    /\ fd' = f
    /\ pc' = "fork"
    /\ UNCHANGED <<child, stored, peer, streams>>

AcceptFails ==                              \* EMFILE, ENFILE: once more
    /\ pc = "accept"
    /\ backlog # <<>>
    /\ UNCHANGED vars

Fork ==
    /\ pc = "fork"
    /\ Cardinality(Forked) < MaxProc
    /\ child' = [child EXCEPT ![conn[fd]] = [pc |-> "recv", outbuf |-> <<>>, n |-> 0]]
    /\ pc' = "accept"
    /\ UNCHANGED <<fd, stored, conn, backlog, peer, streams>>

(* fork returned -1, which is not 0: the parent goes on, and nobody serves *)
(* the connection it keeps.                                                *)
ForkFails ==
    /\ pc = "fork"
    /\ pc' = "accept"
    /\ UNCHANGED <<fd, child, stored, conn, backlog, peer, streams>>

-----------------------------------------------------------------------------
(* child, for its client c.                                                *)

(* sizeof(outbuf) is MAX_LINE+1; what does not fit is dropped.             *)
Fits_OneLess(out) == Len(out) < MaxLine                       \* mutation
Fits(out) == Len(out) < MaxLine + 1

(* recv(fd, &ch, 1, 0) waits for one byte.                                 *)
HasByte_WaitsForTwo(c) == Inbound(c) > 1                      \* mutation
HasByte(c) == Inbound(c) > 0

Recv(c) ==
    /\ Running(c) /\ child[c].pc = "recv"
    /\ HasByte(c)
    /\ LET ch == sent[c][rpos[c] + 1]
           out == child[c].outbuf
           fits == Fits(out)
       IN  /\ child' = [child EXCEPT ![c] =
                          [@ EXCEPT !.outbuf = IF fits THEN Append(out, rot13_char(ch)) ELSE out,
                                    !.pc = IF ch = NL THEN "send" ELSE "recv"]]
           /\ stored' = [stored EXCEPT ![c] =
                           IF fits /\ ~ Gone(c) THEN Append(@, ch) ELSE @]
    /\ rpos' = [rpos EXCEPT ![c] = @ + 1]
    /\ UNCHANGED <<pc, fd, conn, backlog, peer, sent, echoed, drained>>

End(c) ==
    /\ child' = [child EXCEPT ![c] = [pc |-> "ended", outbuf |-> <<>>, n |-> 0]]
    /\ UNCHANGED <<pc, fd, stored, conn, backlog, peer, streams>>

RecvEnd_OnError(c) ==                                         \* mutation
    /\ Running(c) /\ child[c].pc = "recv"
    /\ Inbound(c) = 0
    /\ Gone(c)
    /\ End(c)

RecvEnd(c) ==                               \* end of file, or an error
    /\ Running(c) /\ child[c].pc = "recv"
    /\ Inbound(c) = 0
    /\ peer[c] = "eof" \/ Gone(c)
    /\ End(c)

Outgoing(c) == Len(child[c].outbuf) - child[c].n

(* send blocks until the kernel has taken it all, piece by piece.          *)
Send(c) ==
    /\ Running(c) /\ child[c].pc = "send"
    /\ ~ Gone(c)
    /\ \E n \in 1 .. Least(SendRoom(c), Outgoing(c)) :
         /\ echoed' = [echoed EXCEPT ![c] =
                @ \o SubSeq(child[c].outbuf, child[c].n + 1, child[c].n + n)]
         /\ child' = [child EXCEPT ![c].n = @ + n]
    /\ UNCHANGED <<pc, fd, stored, conn, backlog, peer, sent, rpos, drained>>

SendReturns_KeepsUsed(c) ==                                   \* mutation
    /\ child' = [child EXCEPT ![c].pc = "recv", ![c].n = 0]
    /\ UNCHANGED <<pc, fd, stored, conn, backlog, streams>>

SendReturns(c) ==                           \* outbuf_used = 0
    /\ child' = [child EXCEPT ![c] = [pc |-> "recv", outbuf |-> <<>>, n |-> 0]]
    /\ UNCHANGED <<pc, fd, stored, conn, backlog, streams>>

SendDone(c) ==
    /\ Running(c) /\ child[c].pc = "send"
    /\ Outgoing(c) = 0
    /\ SendReturns(c)
    /\ UNCHANGED peer

(* ECONNRESET, or a count that is short: ignored. An error that send       *)
(* reported is gone: another send finds a connection that is closed.       *)
SendError(c) ==
    /\ Running(c) /\ child[c].pc = "send"
    /\ Outgoing(c) > 0
    /\ peer[c] = "reset"
    /\ SendReturns(c)
    /\ peer' = [peer EXCEPT ![c] = IF child[c].n = 0 THEN "broken" ELSE @]

SendSignal(c) ==                            \* EPIPE: SIGPIPE ends the child
    /\ Running(c) /\ child[c].pc = "send"
    /\ Outgoing(c) > 0
    /\ peer[c] = "broken"
    /\ End(c)

-----------------------------------------------------------------------------
ClientStep(c) ==
    /\ Connect(c) \/ ClientSend(c) \/ ClientShutdown(c) \/ ClientReset(c) \/ ClientRead(c)
    /\ UNCHANGED <<pc, fd, child, stored>>

ParentStep == Fork \/ ForkFails \/ \E f \in Fds : Accept(f)

ChildStep(c) ==
    \/ Recv(c) \/ RecvEnd(c)
    \/ Send(c) \/ SendDone(c) \/ SendError(c) \/ SendSignal(c)

Next ==
    \/ ParentStep \/ AcceptFails
    \/ \E c \in Clients : ChildStep(c) \/ ClientStep(c)

Spec == Init /\ [][Next]_vars

(* Processes run when they can, accept does not fail for ever while there  *)
(* are descriptors, and the readers read while they stay.                  *)
Fairness ==
    /\ WF_vars(ParentStep)
    /\ \A c \in Clients : WF_vars(ChildStep(c))
    /\ \A c \in Readers : WF_vars(ClientRead(c) /\ UNCHANGED <<pc, fd, child, stored>>)

FairSpec == Spec /\ Fairness

-----------------------------------------------------------------------------
(* Properties.                                                             *)

(* A line of MAX_LINE bytes and its newline fit. A child loses nothing of  *)
(* a stream of such lines, however its sends were cut, which the servers   *)
(* with a line buffer do.                                                  *)
LinesFit(s) == \A k \in 1 .. Len(s) - MaxLine : \E m \in k .. k + MaxLine : s[m] = NL

NothingLostIfLinesFit ==
    \A c \in Clients :
        LinesFit(sent[c]) /\ ~ Gone(c) => stored[c] = SubSeq(sent[c], 1, rpos[c])

Committed(c) ==
    Len(echoed[c]) + (IF Running(c) /\ child[c].pc = "send" /\ ~ Gone(c)
                      THEN Outgoing(c) ELSE 0)

(* Accepted once, and without a child; or the client left.                 *)
HungUp == {c \in Clients :
              \/ Gone(c)
              \/ /\ peer[c] # "idle"
                 /\ ~ Running(c)
                 /\ ~ (pc = "fork" /\ conn[fd] = c)
                 /\ \A k \in 1 .. Len(backlog) : backlog[k] # c}

LE == INSTANCE LineEcho WITH
          Chunks <- {<<>>} \cup {<<b>> : b \in Letters},
          accepted <- stored,
          committed <- [c \in Clients |-> Committed(c)],
          echo <- echoed,
          hungup <- HungUp

(* A child is a line echo for its client: though its sends are cut and     *)
(* their results ignored, nothing is lost or sent twice while the client   *)
(* is there.                                                               *)
ImplementsLineEcho == LE!Spec

(* Every newline that a client who reads sends to its child is received    *)
(* and its line echoed, though other children wait for ever for clients    *)
(* that neither read nor leave.                                            *)
LineEchoed ==
    \A c \in Readers : \A k \in 1 .. MaxSent[c] :
        (Running(c) /\ Len(sent[c]) >= k /\ sent[c][k] = NL)
            ~> \/ rpos[c] >= k /\ Committed(c) = Len(echoed[c])
               \/ peer[c] # "open"

(* The child of a client that shut down or reset ends, unless the client   *)
(* shut down only its side and reads no more.                              *)
ChildEnds ==
    \A c \in Clients :
        (Running(c) /\ (Gone(c) \/ (peer[c] = "eof" /\ c \in Readers)))
            ~> ~ Running(c)
=============================================================================
