--------------------------- MODULE Rot13Libevent ---------------------------
(***************************************************************************)
(* rot13_libevent.cpp: the rot13 server on libevent. Every connection has  *)
(* a line buffer and two persistent events, one to read, always added, and *)
(* one to write, added while a line is committed: "writing" of the buffer  *)
(* stands for it. The dispatcher (external) waits until events are ready,  *)
(* makes all of those active and calls their callbacks one by one, in an   *)
(* order of its own. Freeing or deleting an event deactivates it.          *)
(*                                                                         *)
(* free_fd_state does not close the descriptor, and nothing else does.     *)
(***************************************************************************)
EXTENDS LineServer

CONSTANT FdSetSize    \* FD_SETSIZE

(* A line buffer of one byte would be full as soon as it is rewound to 1.  *)
ASSUME LibeventAssumption ==
    /\ FdSetSize \in Nat \ {0}
    /\ MaxLine > 1
    /\ NULL \notin FdState

VARIABLES
    pc,        \* "poll", "dispatch", the call a callback makes, "stopped"
    fd,        \* the descriptor of the callback that runs
    active     \* the events whose callbacks are still to be called

loop == <<pc, fd, active>>
vars == <<pc, fd, active, state, stored, conn, backlog, peer, streams>>

ReadEvent(f)  == [fd |-> f, what |-> "read"]
WriteEvent(f) == [fd |-> f, what |-> "write"]
Events == [fd : {Listener} \cup Fds, what : {"read", "write"}]

Init ==
    /\ pc = "poll"
    /\ fd = Listener
    /\ active = {}
    /\ state = [f \in Fds |-> NULL]
    /\ stored = [c \in Clients |-> <<>>]
    /\ InitConnections

-----------------------------------------------------------------------------
(* event_base_dispatch.                                                    *)

Ready ==
    {ReadEvent(f) : f \in {g \in Live : Readable(conn[g])}}
        \cup {WriteEvent(f) : f \in {g \in Live :
                                       state[g].writing /\ Writable(conn[g])}}
        \cup {ReadEvent(f) : f \in {g \in {Listener} : backlog # <<>>}}

Poll ==
    /\ pc = "poll"
    /\ Ready # {}
    /\ active' = Ready
    /\ pc' = "dispatch"
    /\ UNCHANGED <<fd, state, stored, conn, backlog, peer, streams>>

(* The process ends and the kernel closes everything it had open.          *)
Stop ==
    /\ pc' = "stopped"
    /\ fd' = Listener
    /\ active' = {}
    /\ state' = [f \in Fds |-> NULL]
    /\ conn' = [f \in Fds |-> NULL]
    /\ backlog' = <<>>
    /\ UNCHANGED <<stored, peer, streams>>

PollFails == pc = "poll" /\ Stop            \* the result is not looked at

Callback(e) ==
    /\ pc = "dispatch"
    /\ e \in active
    /\ active' = active \ {e}
    /\ fd' = e.fd
    /\ pc' = IF e.fd = Listener THEN "accept"
             ELSE IF e.what = "read" THEN "recv" ELSE "send"
    /\ UNCHANGED <<state, stored, conn, backlog, peer, streams>>

EndDispatch ==
    /\ pc = "dispatch"
    /\ active = {}
    /\ pc' = "poll"
    /\ UNCHANGED <<fd, active, state, stored, conn, backlog, peer, streams>>

Return == pc' = "dispatch" /\ UNCHANGED fd

-----------------------------------------------------------------------------
(* do_accept.                                                              *)

(* Out of descriptors, here (EMFILE) or in the system (ENFILE): the client  *)
(* stays in the backlog, and makes the listener ready again.               *)
AcceptFails ==                              \* perror("accept")
    /\ pc = "accept"
    /\ Return
    /\ UNCHANGED <<active, state, stored, conn, backlog, peer, streams>>

AcceptInto(f) ==
    /\ pc = "accept"
    /\ LowestFree(f)
    /\ f <= FdSetSize
    /\ state' = [state EXCEPT ![f] = alloc_fd_state]
    /\ conn' = [conn EXCEPT ![f] = Head(backlog)]
    /\ backlog' = Tail(backlog)
    /\ Return
    /\ UNCHANGED <<active, stored, peer, streams>>

AcceptRefused ==                            \* close(fd)
    /\ pc = "accept"
    /\ \E f \in Fds : LowestFree(f) /\ f > FdSetSize
    /\ backlog' = Tail(backlog)
    /\ Return
    /\ UNCHANGED <<active, state, stored, conn, peer, streams>>

AcceptStops ==                              \* assert(state)
    /\ pc = "accept"
    /\ \E f \in Fds : LowestFree(f) /\ f <= FdSetSize
    /\ Stop

-----------------------------------------------------------------------------
free_fd_state_KeepsActive ==                                  \* mutation
    /\ state' = [state EXCEPT ![fd] = NULL]
    /\ active' = active

(* Both events go with the line buffer, active or not.                     *)
free_fd_state ==
    /\ state' = [state EXCEPT ![fd] = NULL]
    /\ active' = active \ {ReadEvent(fd), WriteEvent(fd)}

Client == conn[fd]

Free ==
    /\ free_fd_state
    /\ Return
    /\ UNCHANGED <<stored, conn, backlog, peer, streams>>

(* do_read: recv until there is nothing more.                              *)
Recv ==
    /\ pc = "recv"
    /\ Inbound(Client) > 0
    /\ LET s == Chunk(Client) IN
         /\ state' = [state EXCEPT ![fd] = StoreChunk(@, s)]
         /\ rpos' = [rpos EXCEPT ![Client] = @ + Len(s)]
         /\ stored' = [stored EXCEPT ![Client] =
                         @ \o SubSeq(s, 1, Taken(state[fd], Len(s)))]
    /\ UNCHANGED <<loop, conn, backlog, peer, sent, echoed, drained>>

RecvAgain ==                                \* EAGAIN: return
    /\ pc = "recv"
    /\ ~ Readable(Client)
    /\ Return
    /\ UNCHANGED <<active, state, stored, conn, backlog, peer, streams>>

RecvEnd_Eagain ==                                             \* mutation
    /\ pc = "recv"
    /\ Inbound(Client) = 0
    /\ Free

RecvEnd ==                                  \* end of file, or an error
    /\ pc = "recv"
    /\ Inbound(Client) = 0
    /\ peer[Client] = "eof" \/ Gone(Client)
    /\ Free

(* do_write: send what is committed, until the kernel takes no more.       *)
Send ==
    /\ pc = "send"
    /\ ~ Gone(Client)
    /\ \E n \in 1 .. Least(SendRoom(Client), Unsent(state[fd])) :
         /\ echoed' = [echoed EXCEPT ![Client] = @ \o Outgoing(state[fd], n)]
         /\ state' = [state EXCEPT ![fd] = Advance(@, n)]
    /\ UNCHANGED <<loop, stored, conn, backlog, peer, sent, rpos, drained>>

SendAgain_DeletesEvent ==                                     \* mutation
    /\ pc = "send"
    /\ Unsent(state[fd]) > 0
    /\ ~ Writable(Client)
    /\ state' = [state EXCEPT ![fd].writing = FALSE]
    /\ Return
    /\ UNCHANGED <<active, stored, conn, backlog, peer, streams>>

SendAgain ==                                \* EAGAIN: the event stays added
    /\ pc = "send"
    /\ Unsent(state[fd]) > 0
    /\ ~ Writable(Client)
    /\ Return
    /\ UNCHANGED <<active, state, stored, conn, backlog, peer, streams>>

SendDone_SendsStale ==                                        \* mutation
    /\ pc = "send"
    /\ Unsent(state[fd]) <= 0
    /\ state' = [state EXCEPT ![fd] = [FinishWrite(@, 1) EXCEPT !.n_written = 0]]
    /\ active' = active \ {WriteEvent(fd)}
    /\ Return
    /\ UNCHANGED <<stored, conn, backlog, peer, streams>>

(* The emptied buffer is rewound to 1, not to 0: its first byte is stale   *)
(* from then on, and counts as used and written.                           *)
SendDone ==
    /\ pc = "send"
    /\ Unsent(state[fd]) <= 0
    /\ state' = [state EXCEPT ![fd] = FinishWrite(@, 1)]
    /\ active' = active \ {WriteEvent(fd)}  \* event_del
    /\ Return
    /\ UNCHANGED <<stored, conn, backlog, peer, streams>>

SendError ==                                \* ECONNRESET
    /\ pc = "send"
    /\ Unsent(state[fd]) > 0
    /\ peer[Client] = "reset"
    /\ Free

SendSignal ==                               \* EPIPE: SIGPIPE is not ignored
    /\ pc = "send"
    /\ Unsent(state[fd]) > 0
    /\ peer[Client] = "broken"
    /\ Stop

-----------------------------------------------------------------------------
ClientStep(c) ==
    /\ \/ pc # "stopped" /\ Connect(c)
       \/ ClientSend(c)
       \/ ClientShutdown(c)
       \/ ClientReset(c)
       \/ ClientRead(c)
    /\ UNCHANGED <<loop, state, stored>>

do_accept ==
    \/ AcceptFails
    \/ \E f \in Fds : AcceptInto(f)
    \/ AcceptRefused
    \/ AcceptStops

do_read == Recv \/ RecvAgain \/ RecvEnd

do_write == Send \/ SendAgain \/ SendDone \/ SendError \/ SendSignal

Dispatch == Poll \/ EndDispatch \/ \E e \in Events : Callback(e)

ServerStep == Dispatch \/ do_accept \/ do_read \/ do_write

Next == ServerStep \/ PollFails \/ \E c \in Clients : ClientStep(c)

Spec == Init /\ [][Next]_vars

(* The dispatcher calls every active callback before it polls again, which *)
(* may fail but need not, and a client that stays reads what it is sent.   *)
Fairness ==
    /\ WF_vars(ServerStep)
    /\ \A c \in Clients : WF_vars(ClientRead(c) /\ UNCHANGED <<loop, state, stored>>)

FairSpec == Spec /\ Fairness

-----------------------------------------------------------------------------
(* Properties.                                                             *)

TypeOK ==
    /\ pc \in {"poll", "dispatch", "accept", "recv", "send", "stopped"}
    /\ fd \in {Listener} \cup Fds
    /\ active \subseteq Events
    /\ state \in [Fds -> FdState \cup {NULL}]
    /\ conn \in [Fds -> Clients \cup {NULL}]
    /\ backlog \in Seq(Clients)
    /\ peer \in [Clients -> PeerStates]
    /\ sent \in [Clients -> Seq(Letters)]
    /\ rpos \in [Clients -> Nat]
    /\ stored \in [Clients -> Seq(Letters)]
    /\ echoed \in [Clients -> Seq(Char)]
    /\ drained \in [Clients -> Nat]

(* Outside do_write the write event is added exactly while something       *)
(* committed is unsent, and do_write is never called with nothing to send. *)
WriteEventIffPending ==
    /\ \A f \in Live : (pc = "send" /\ fd = f)
                          \/ (state[f].writing <=> Unsent(state[f]) > 0)
    /\ \A f \in Fds : WriteEvent(f) \in active => Unsent(state[f]) > 0

(* No callback is called for a line buffer that was freed, in whatever     *)
(* order the active callbacks run: an active event of a connection has its *)
(* line buffer, and what made it ready still holds.                        *)
ActiveEventsValid ==
    /\ \A f \in Fds : {ReadEvent(f), WriteEvent(f)} \cap active # {} => f \in Live
    /\ \A f \in Live : /\ ReadEvent(f) \in active => Readable(conn[f])
                       /\ WriteEvent(f) \in active => Writable(conn[f])
    /\ ReadEvent(Listener) \in active \/ pc = "accept" => backlog # <<>>
    /\ pc \in {"recv", "send"} => fd \in Live

(* A descriptor without a line buffer is that of a client that left: it is *)
(* never closed, which takes descriptors from the clients to come but none *)
(* from a client that is there.                                            *)
OnlyLeaversLeak ==
    \A f \in Fds \ Live : conn[f] # NULL => peer[conn[f]] # "open"

(* A newline that a client sent, and its line, are received and echoed     *)
(* while the client stays and the server runs, though accept may fail at   *)
(* every turn.                                                             *)
LineEchoed ==
    \A c \in Clients : \A k \in 1 .. MaxSent[c] :
        (Served(c) /\ Len(sent[c]) >= k /\ sent[c][k] = NL)
            ~> \/ rpos[c] >= k /\ (Served(c) => Unsent(BufferOf(c)) = 0)
               \/ peer[c] # "open"
               \/ pc = "stopped"

(* The line buffer and the events of a client that left are freed.         *)
BufferFreed ==
    \A c \in Clients : (peer[c] # "open" /\ Served(c)) ~> ~ Served(c)
=============================================================================
