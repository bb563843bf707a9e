---------------------------- MODULE Rot13Select ----------------------------
(***************************************************************************)
(* rot13_select.cpp: a single-threaded server that echoes, line by line,   *)
(* the rot13 of what its clients send, multiplexed with select().          *)
(*                                                                         *)
(* The server owns a table "state" of line buffers indexed by descriptor,  *)
(* and the loop of run(): build the sets, select, accept, serve the        *)
(* descriptors that were ready. Clients and the kernel (Connections) move  *)
(* at any point of the loop: every system call of the server is a step of  *)
(* its own.                                                                *)
(***************************************************************************)
EXTENDS LineServer

CONSTANT FdSetSize    \* FD_SETSIZE, the length of the table

ASSUME SelectAssumption ==
    /\ FdSetSize \in Nat \ {0}
    /\ NULL \notin FdState

Slots == 1 .. FdSetSize - 1                 \* the table, but the listener's

VARIABLES
    pc,        \* where run() is: the call it makes next
    i,         \* its loop variable: the descriptor being served
    readset, writeset

server == <<pc, i, readset, writeset, state>>
vars == <<pc, i, readset, writeset, state, conn, backlog, peer,
          sent, rpos, stored, echoed, drained>>

Init ==
    /\ pc = "select"
    /\ i = 0
    /\ readset = {} /\ writeset = {}
    /\ state = [f \in Slots |-> NULL]
    /\ stored = [c \in Clients |-> <<>>]
    /\ InitConnections

-----------------------------------------------------------------------------
(* run(): select and accept.                                               *)

ReadyToRead  == {f \in Live : Readable(conn[f])}
                    \cup (IF backlog # <<>> THEN {Listener} ELSE {})
ReadyToWrite == {f \in Live : state[f].writing /\ Writable(conn[f])}

Select ==
    /\ pc = "select"
    /\ ReadyToRead \cup ReadyToWrite # {}
    /\ readset' = ReadyToRead
    /\ writeset' = ReadyToWrite
    /\ pc' = IF Listener \in ReadyToRead THEN "accept" ELSE "serve"
    /\ i' = 0
    /\ UNCHANGED <<state, conn, backlog, peer, stored, streams>>

(* The process ends and the kernel closes everything it had open.          *)
Stop ==
    /\ pc' = "stopped"
    /\ state' = [f \in Slots |-> NULL]
    /\ conn' = [f \in Fds |-> NULL]
    /\ backlog' = <<>>
    /\ i' = 0
    /\ readset' = {} /\ writeset' = {}
    /\ UNCHANGED <<peer, stored, streams>>

SelectFails == pc = "select" /\ Stop        \* perror("select"); return

(* Out of descriptors, here (EMFILE) or in the system (ENFILE): the client  *)
(* stays in the backlog, and makes the listener ready again.               *)
AcceptFails ==                              \* perror("accept")
    /\ pc = "accept"
    /\ pc' = "serve"
    /\ UNCHANGED <<i, readset, writeset, state, conn, backlog, peer, stored, streams>>

AcceptInto(f) ==
    /\ pc = "accept"
    /\ LowestFree(f)
    /\ f < FdSetSize
    /\ state' = [state EXCEPT ![f] = alloc_fd_state]
    /\ conn' = [conn EXCEPT ![f] = Head(backlog)]
    /\ backlog' = Tail(backlog)
    /\ pc' = "serve"
    /\ UNCHANGED <<i, readset, writeset, peer, stored, streams>>

(* The test is fd > FD_SETSIZE: descriptor FD_SETSIZE passes it, and its   *)
(* buffer is stored one past the end of the table. No loop over the table  *)
(* reaches it. What that store overwrites is undefined: the process goes   *)
(* on without the connection, or ends (AcceptStops).                       *)
AcceptPastTable ==
    /\ pc = "accept"
    /\ LowestFree(FdSetSize)
    /\ conn' = [conn EXCEPT ![FdSetSize] = Head(backlog)]
    /\ backlog' = Tail(backlog)
    /\ pc' = "serve"
    /\ UNCHANGED <<i, readset, writeset, state, peer, stored, streams>>

AcceptRefused ==                            \* close(fd)
    /\ pc = "accept"
    /\ \E f \in Fds : LowestFree(f) /\ f > FdSetSize
    /\ backlog' = Tail(backlog)
    /\ pc' = "serve"
    /\ UNCHANGED <<i, readset, writeset, state, conn, peer, stored, streams>>

AcceptStops ==                              \* assert(state[fd]), or the above
    /\ pc = "accept"
    /\ \E f \in Fds : LowestFree(f) /\ f <= FdSetSize
    /\ Stop

-----------------------------------------------------------------------------
(* run(): the loop over the descriptors that were ready, in order.         *)

Pending == {f \in readset \cup writeset : f # Listener /\ f >= i}

Serve(f) ==
    /\ pc = "serve"
    /\ f \in Pending /\ \A g \in Pending : f <= g
    /\ i' = f
    /\ pc' = IF f \in readset THEN "recv" ELSE "send"
    /\ UNCHANGED <<readset, writeset, state, conn, backlog, peer, stored, streams>>

EndLoop ==
    /\ pc = "serve"
    /\ Pending = {}
    /\ pc' = "select"
    /\ i' = 0
    /\ readset' = {} /\ writeset' = {}
    /\ UNCHANGED <<state, conn, backlog, peer, stored, streams>>

NextDescriptor_Same == i' = i /\ pc' = "serve"               \* mutation
NextDescriptor == i' = i + 1 /\ pc' = "serve"

Drop_NotClosed ==                                             \* mutation
    /\ state' = [state EXCEPT ![i] = NULL]
    /\ NextDescriptor
    /\ UNCHANGED <<readset, writeset, conn, backlog, peer, stored, streams>>

(* A handler returned 1 or -1: free, forget and close.                     *)
Drop ==
    /\ state' = [state EXCEPT ![i] = NULL]
    /\ conn' = [conn EXCEPT ![i] = NULL]
    /\ NextDescriptor
    /\ UNCHANGED <<readset, writeset, backlog, peer, stored, streams>>

-----------------------------------------------------------------------------
(* do_read: recv until there is nothing more.                              *)

Client == conn[i]

Recv ==
    /\ pc = "recv"
    /\ Inbound(Client) > 0
    /\ LET s == Chunk(Client) IN
         /\ state' = [state EXCEPT ![i] = StoreChunk(@, s)]
         /\ rpos' = [rpos EXCEPT ![Client] = @ + Len(s)]
         /\ stored' = [stored EXCEPT ![Client] =
                         @ \o SubSeq(s, 1, Taken(state[i], Len(s)))]
    /\ UNCHANGED <<pc, i, readset, writeset, conn, backlog, peer,
                   sent, echoed, drained>>

RecvAgain ==                                \* EAGAIN: return 0
    /\ pc = "recv"
    /\ ~ Readable(Client)
    /\ IF i \in writeset THEN pc' = "send" /\ i' = i
                         ELSE NextDescriptor
    /\ UNCHANGED <<readset, writeset, state, conn, backlog, peer, stored, streams>>

RecvEnd_Eagain ==                                             \* mutation
    /\ pc = "recv"
    /\ Inbound(Client) = 0
    /\ Drop

RecvEnd ==                                  \* end of file, or an error
    /\ pc = "recv"
    /\ Inbound(Client) = 0
    /\ peer[Client] = "eof" \/ Gone(Client)
    /\ Drop

-----------------------------------------------------------------------------
(* do_write: send what is committed, until the kernel takes no more.       *)

Send ==
    /\ pc = "send"
    /\ ~ Gone(Client)
    /\ \E n \in 1 .. Least(SendRoom(Client), Unsent(state[i])) :
         /\ echoed' = [echoed EXCEPT ![Client] = @ \o Outgoing(state[i], n)]
         /\ state' = [state EXCEPT ![i] = Advance(@, n)]
    /\ UNCHANGED <<pc, i, readset, writeset, conn, backlog, peer,
                   sent, rpos, stored, drained>>

SendAgain_StopsWriting ==                                     \* mutation
    /\ pc = "send"
    /\ Unsent(state[i]) > 0
    /\ ~ Writable(Client)
    /\ state' = [state EXCEPT ![i].writing = FALSE]
    /\ NextDescriptor
    /\ UNCHANGED <<readset, writeset, conn, backlog, peer, stored, streams>>

SendAgain ==                                \* EAGAIN: return 0, still writing
    /\ pc = "send"
    /\ Unsent(state[i]) > 0
    /\ ~ Writable(Client)
    /\ NextDescriptor
    /\ UNCHANGED <<readset, writeset, state, conn, backlog, peer, stored, streams>>

SendDone ==
    /\ pc = "send"
    /\ Unsent(state[i]) <= 0
    /\ state' = [state EXCEPT ![i] = FinishWrite(@, 0)]
    /\ NextDescriptor
    /\ UNCHANGED <<readset, writeset, conn, backlog, peer, stored, streams>>

SendError ==                                \* ECONNRESET: return -1
    /\ pc = "send"
    /\ Unsent(state[i]) > 0
    /\ peer[Client] = "reset"
    /\ Drop

SendSignal ==                               \* EPIPE: SIGPIPE is not ignored
    /\ pc = "send"
    /\ Unsent(state[i]) > 0
    /\ peer[Client] = "broken"
    /\ Stop

-----------------------------------------------------------------------------
ClientStep(c) ==
    /\ \/ pc # "stopped" /\ Connect(c)
       \/ ClientSend(c)
       \/ ClientShutdown(c)
       \/ ClientReset(c)
       \/ ClientRead(c)
    /\ UNCHANGED <<server, stored>>

Accept ==
    \/ AcceptFails
    \/ \E f \in Fds : AcceptInto(f)
    \/ AcceptPastTable
    \/ AcceptRefused
    \/ AcceptStops

Handle ==
    \/ \E f \in Slots : Serve(f)
    \/ EndLoop
    \/ Recv \/ RecvAgain \/ RecvEnd
    \/ Send \/ SendAgain \/ SendDone \/ SendError \/ SendSignal

ServerStep == Select \/ Accept \/ Handle

Next == ServerStep \/ SelectFails \/ \E c \in Clients : ClientStep(c)

Spec == Init /\ [][Next]_vars

(* The loop runs whenever it is not blocked in select, which may fail but  *)
(* need not, and a client that stays reads what it is sent.                *)
Fairness ==
    /\ WF_vars(ServerStep)
    /\ \A c \in Clients : WF_vars(ClientRead(c) /\ UNCHANGED <<server, stored>>)

FairSpec == Spec /\ Fairness

-----------------------------------------------------------------------------
(* Properties.                                                             *)

TypeOK ==
    /\ pc \in {"select", "accept", "serve", "recv", "send", "stopped"}
    /\ i \in 0 .. NoFile
    /\ readset \subseteq {Listener} \cup Slots
    /\ writeset \subseteq Slots
    /\ state \in [Slots -> FdState \cup {NULL}]
    /\ conn \in [Fds -> Clients \cup {NULL}]
    /\ backlog \in Seq(Clients)
    /\ peer \in [Clients -> PeerStates]
    /\ sent \in [Clients -> Seq(Letters)]
    /\ rpos \in [Clients -> Nat]
    /\ stored \in [Clients -> Seq(Letters)]
    /\ echoed \in [Clients -> Seq(Char)]
    /\ drained \in [Clients -> Nat]

(* Between two calls of do_write, "writing" says exactly whether something *)
(* committed is unsent: no line waits without being offered to select, and *)
(* do_write is never entered with nothing to send (its assert on a zero    *)
(* result relies on that).                                                 *)
WritingIffPending ==
    \A f \in Live :
        (pc = "send" /\ i = f)
            \/ (state[f].writing <=> Unsent(state[f]) > 0)

(* Every open descriptor has a line buffer and every line buffer an open   *)
(* descriptor, except the one that the test against FD_SETSIZE lets past   *)
(* the table; and no client is behind two of them.                         *)
DescriptorsAccounted ==
    /\ {f \in Fds : conn[f] # NULL} \ {FdSetSize} = Live
    /\ \A f, g \in Fds : conn[f] # NULL /\ conn[f] = conn[g] => f = g

(* The sets that select filled stay valid while the loop uses them, though *)
(* accept and the handlers of other descriptors change the table: a        *)
(* handler never gets a NULL line buffer, and what was ready still is.     *)
ReadySetsValid ==
    /\ pc = "serve" => \A f \in Pending :
         /\ f \in Live
         /\ f \in readset => Readable(conn[f])
         /\ f \in writeset => Writable(conn[f])
    /\ pc \in {"recv", "send"} => i \in Live
    /\ pc = "accept" => backlog # <<>>

(* The server never hangs up on a client that is still there, whatever the *)
(* other clients do: only the end of the process takes it away.            *)
NoHangUpOnOpenClient ==
    [][\A c \in Clients :
         Served(c) /\ peer[c] = "open" => Served(c)' \/ pc' = "stopped"]_vars

(* A newline that a client sent, and its line, are received and echoed     *)
(* while the client stays and the server runs, though accept may fail at   *)
(* every turn.                                                             *)
LineEchoed ==
    \A c \in Clients : \A k \in 1 .. MaxSent[c] :
        (Served(c) /\ Len(sent[c]) >= k /\ sent[c][k] = NL)
            ~> \/ rpos[c] >= k /\ (Served(c) => Unsent(BufferOf(c)) = 0)
               \/ peer[c] # "open"
               \/ pc = "stopped"

(* The descriptor of a client that left is closed.                         *)
DescriptorReleased ==
    \A c \in Clients :
        (peer[c] # "open" /\ Served(c)) ~> ~ Served(c)
=============================================================================
