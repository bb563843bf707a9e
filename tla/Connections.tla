---------------------------- MODULE Connections ----------------------------
(***************************************************************************)
(* The kernel and the clients that a socket server of HelloCpp/src talks   *)
(* to: the backlog of the listener, the descriptors of the process, and    *)
(* for every client a byte stream each way. Clients connect, send, shut    *)
(* down their side, reset the connection and read at any time. None of     *)
(* this is code of the repository: it is what its calls of accept, recv,   *)
(* send and close rely on.                                                 *)
(***************************************************************************)
EXTENDS Rot13

CONSTANTS
    Clients,     \* the connections that clients make, one each
    Letters,     \* the bytes that clients send
    MaxSent,     \* bound: bytes sent by every client
    NoFile,      \* descriptors the process may have
    RecvMax,     \* the most that a recv asks for
    SendCap,     \* bytes the kernel buffers towards a client
    NULL

ASSUME ConnectionsAssumption ==
    /\ NL \in Letters
    /\ Letters \subseteq Char
    /\ MaxSent \in [Clients -> Nat]
    /\ NoFile \in Nat \ {0}
    /\ RecvMax \in Nat \ {0}
    /\ SendCap \in Nat \ {0}
    /\ NULL \notin Clients

(* Descriptor 0 is the listener: descriptors are counted from it.          *)
Listener == 0
Fds == 1 .. NoFile - 1                      \* what accept may return

VARIABLES
    conn,      \* the client behind every open descriptor, or NULL
    backlog,   \* clients waiting in the listener's queue
    peer,      \* what the client did last to its end of the connection
    sent,      \* the bytes that a client has sent
    rpos,      \* how many of them the server has received
    echoed,    \* the bytes that the server has sent to a client
    drained    \* how many of them the client has read

(* "broken": the client shut its side down before it reset the connection, *)
(* which makes a send raise SIGPIPE instead of returning an error.         *)
PeerStates == {"idle", "open", "eof", "reset", "broken"}

InitConnections ==
    /\ conn = [f \in Fds |-> NULL]
    /\ backlog = <<>>
    /\ peer = [c \in Clients |-> "idle"]
    /\ sent = [c \in Clients |-> <<>>]
    /\ rpos = [c \in Clients |-> 0]
    /\ echoed = [c \in Clients |-> <<>>]
    /\ drained = [c \in Clients |-> 0]

-----------------------------------------------------------------------------
(* The clients. A client that the server dropped may go on sending: the    *)
(* bytes are never received.                                               *)

Connect(c) ==
    /\ peer[c] = "idle"
    /\ peer' = [peer EXCEPT ![c] = "open"]
    /\ backlog' = Append(backlog, c)
    /\ UNCHANGED <<conn, sent, rpos, echoed, drained>>

ClientSend(c) ==
    /\ peer[c] = "open"
    /\ Len(sent[c]) < MaxSent[c]
    /\ \E b \in Letters : sent' = [sent EXCEPT ![c] = Append(@, b)]
    /\ UNCHANGED <<conn, backlog, peer, rpos, echoed, drained>>

ClientShutdown(c) ==
    /\ peer[c] = "open"
    /\ peer' = [peer EXCEPT ![c] = "eof"]
    /\ UNCHANGED <<conn, backlog, sent, rpos, echoed, drained>>

ClientReset(c) ==
    /\ peer[c] \in {"open", "eof"}
    /\ peer' = [peer EXCEPT ![c] = IF @ = "eof" THEN "broken" ELSE "reset"]
    /\ UNCHANGED <<conn, backlog, sent, rpos, echoed, drained>>

ClientRead(c) ==
    /\ peer[c] \in {"open", "eof"}
    /\ drained[c] < Len(echoed[c])
    /\ drained' = [drained EXCEPT ![c] = @ + 1]
    /\ UNCHANGED <<conn, backlog, peer, sent, rpos, echoed>>

-----------------------------------------------------------------------------
(* What the server's calls find.                                           *)

Gone(c) == peer[c] \in {"reset", "broken"}
Inbound(c) == Len(sent[c]) - rpos[c]
SendRoom(c) == SendCap - (Len(echoed[c]) - drained[c])

Readable_NoEof(c) == Inbound(c) > 0 \/ Gone(c)               \* mutation
Readable(c) == Inbound(c) > 0 \/ peer[c] = "eof" \/ Gone(c)
Writable(c) == SendRoom(c) > 0 \/ Gone(c)

(* What recv returns.                                                      *)
Chunk(c) == SubSeq(sent[c], rpos[c] + 1, rpos[c] + Least(RecvMax, Inbound(c)))

(* accept returns the lowest descriptor that is free.                      *)
FreeFds == {f \in Fds : conn[f] = NULL}
LowestFree(f) == f \in FreeFds /\ \A g \in FreeFds : f <= g

(* A server's steps that leave a part of this alone.                       *)
streams == <<sent, rpos, echoed, drained>>
=============================================================================
