------------------------ MODULE Rot13LibeventProofs ------------------------
(***************************************************************************)
(* Proofs about Rot13Libevent, for every number of clients and descriptors *)
(* and every size of the line buffer and of the kernel's buffers, in every *)
(* order in which the dispatcher may call the active callbacks.            *)
(***************************************************************************)
EXTENDS Rot13Libevent, LineServerProofs

(* The inductive invariant, in two layers. The first one is about line     *)
(* buffers, descriptors and events.                                        *)
Table ==
    /\ \A f \in Live : conn[f] # NULL
    /\ \A f, g \in Fds : conn[f] # NULL /\ conn[f] = conn[g] => f = g

(* The event whose callback runs is no longer active, and the listener has *)
(* no write event.                                                         *)
Running ==
    /\ WriteEvent(Listener) \notin active
    /\ pc = "accept" => ReadEvent(Listener) \notin active
    /\ pc = "recv" => ReadEvent(fd) \notin active
    /\ pc = "send" => WriteEvent(fd) \notin active

(* What do_write may not assume: it is called with something to send, so   *)
(* that the byte it rewinds to was stored.                                 *)
SomethingCommitted ==
    /\ pc = "send" => state[fd].write_upto > 0 /\ state[fd].writing
    /\ \A f \in Fds : WriteEvent(f) \in active => Unsent(state[f]) > 0

InWrite(f) == pc = "send" /\ fd = f

Buffers == \A f \in Live : InWrite(f) \/ Settled(state[f], 1)

Inv1 == /\ TypeOK /\ CursorOrder /\ Table /\ Waiting /\ ActiveEventsValid
        /\ Running /\ SomethingCommitted /\ Buffers

Inv2 == Inv1 /\ Streams

-----------------------------------------------------------------------------
(* Facts about a state.                                                    *)

LEMMA ConnectionFacts ==
    /\ TypeOK => ConnectionsTypeOK
    /\ \A c \in Clients : ClientStep(c) => ClientMoves(c)
BY DEF TypeOK, ConnectionsTypeOK, ClientStep, ClientMoves

LEMMA LiveFacts ==
    ASSUME TypeOK, NEW f \in Live
    PROVE  f \in Fds /\ state[f] \in FdState /\ f # Listener
BY ConnectionsAssumption DEF TypeOK, Live, Fds, Listener

LEMMA EventFacts ==
    /\ \A f, g : ReadEvent(f) # WriteEvent(g)
    /\ \A f, g : ReadEvent(f) = ReadEvent(g) => f = g
    /\ \A f, g : WriteEvent(f) = WriteEvent(g) => f = g
    /\ \A f : f \in {Listener} \cup Fds => ReadEvent(f) \in Events /\ WriteEvent(f) \in Events
    /\ \A e \in Events : e = ReadEvent(e.fd) \/ e = WriteEvent(e.fd)
    /\ \A f : ReadEvent(f).fd = f /\ WriteEvent(f).fd = f
    /\ \A f : ReadEvent(f).what = "read" /\ WriteEvent(f).what = "write"
BY DEF ReadEvent, WriteEvent, Events

Handling == pc \in {"recv", "send"}

LEMMA HandlerFacts ==
    ASSUME Inv1, Handling
    PROVE  /\ fd \in Live /\ fd \in Fds /\ fd # Listener
           /\ state[fd] \in FdState /\ CursorsInOrder(state[fd])
           /\ Client \in Clients /\ Client # NULL /\ Client = conn[fd]
<1>1. fd \in Live
  BY DEF Inv1, ActiveEventsValid, Handling
<1>2. conn[fd] # NULL
  BY <1>1 DEF Inv1, Table
<1>3. fd \in Fds /\ state[fd] \in FdState /\ fd # Listener
  BY <1>1, LiveFacts DEF Inv1
<1>4. CursorsInOrder(state[fd])
  BY <1>1 DEF Inv1, CursorOrder
<1> QED BY <1>1, <1>2, <1>3, <1>4 DEF Inv1, TypeOK, Client

(* In do_write, a buffer that is sent whole holds the byte it is rewound   *)
(* to.                                                                     *)
LEMMA RewindsToOne ==
    ASSUME Inv1, pc = "send"
    PROVE  /\ state[fd].n_written = Len(state[fd].buffer) => 1 <= Len(state[fd].buffer)
           /\ 1 \in Nat /\ 1 < MaxLine
<1>1. state[fd] \in FdState /\ CursorsInOrder(state[fd]) /\ state[fd].write_upto > 0
  BY HandlerFacts DEF Handling, Inv1, SomethingCommitted
<1>2. /\ state[fd].write_upto \in Nat /\ state[fd].n_written \in Nat
      /\ Len(state[fd].buffer) \in Nat
  BY <1>1, LenProperties DEF FdState
<1>3. 1 < MaxLine
  BY LibeventAssumption, MaxLineAssumption
<1> QED BY <1>1, <1>2, <1>3 DEF CursorsInOrder

-----------------------------------------------------------------------------
(* What the steps do, in the terms that the invariant is about.            *)

LEMMA StopSteps ==
    ASSUME PollFails \/ AcceptStops \/ SendSignal
    PROVE  Stop
BY DEF PollFails, AcceptStops, SendSignal

LEMMA LiveStop == ASSUME Stop PROVE Live' = {}
BY DEF Stop, Live

LEMMA AcceptStep ==
    ASSUME Inv1, NEW f \in Fds, AcceptInto(f)
    PROVE  /\ f \notin Live /\ conn[f] = NULL
           /\ backlog # <<>>
           /\ Live' = Live \cup {f}
           /\ state'[f] = alloc_fd_state
           /\ \A g \in Live : state'[g] = state[g] /\ conn'[g] = conn[g]
           /\ conn' = [conn EXCEPT ![f] = Head(backlog)]
<1>1. conn[f] = NULL
  BY DEF AcceptInto, LowestFree, FreeFds
<1>2. f \notin Live
  BY <1>1 DEF Inv1, Table
<1>3. backlog # <<>>
  BY DEF AcceptInto, Inv1, ActiveEventsValid
<1>4. alloc_fd_state # NULL
  BY AllocProperties, LibeventAssumption
<1>5. /\ state' = [state EXCEPT ![f] = alloc_fd_state]
      /\ conn' = [conn EXCEPT ![f] = Head(backlog)]
  BY DEF AcceptInto
<1>6. Live' = Live \cup {f} /\ state'[f] = alloc_fd_state
  BY <1>4, <1>5 DEF Live, Inv1, TypeOK
<1>7. \A g \in Live : g \in Fds /\ g # f
  BY <1>2, LiveFacts DEF Inv1
<1>8. \A g \in Live : state'[g] = state[g] /\ conn'[g] = conn[g]
  BY <1>5, <1>7 DEF Inv1, TypeOK
<1> QED BY <1>1, <1>2, <1>3, <1>5, <1>6, <1>8

LEMMA FreeStep ==
    ASSUME Inv1, RecvEnd \/ SendError
    PROVE  /\ Handling /\ Live' = Live \ {fd}
           /\ \A g \in Live' : state'[g] = state[g]
           /\ state' = [state EXCEPT ![fd] = NULL]
           /\ active' = active \ {ReadEvent(fd), WriteEvent(fd)}
           /\ pc' = "dispatch"
           /\ peer[Client] # "open"
           /\ UNCHANGED <<fd, stored, conn, backlog, peer, streams>>
<1>1. /\ Handling /\ peer[Client] # "open"
      /\ state' = [state EXCEPT ![fd] = NULL]
      /\ active' = active \ {ReadEvent(fd), WriteEvent(fd)}
      /\ pc' = "dispatch"
      /\ UNCHANGED <<fd, stored, conn, backlog, peer, streams>>
  BY DEF RecvEnd, SendError, Free, free_fd_state, Return, Handling, Gone
<1>2. fd \in Live
  BY <1>1, HandlerFacts
<1> QED BY <1>1, <1>2 DEF Live, Inv1, TypeOK

LEMMA HandlerStep ==
    ASSUME Inv1, Handling, NEW st \in FdState, state' = [state EXCEPT ![fd] = st]
    PROVE  /\ Live' = Live
           /\ state'[fd] = st
           /\ \A g \in Live : g # fd => state'[g] = state[g]
           /\ state' \in [Fds -> FdState \cup {NULL}]
<1>1. fd \in Live /\ fd \in Fds
  BY HandlerFacts
<1> QED BY <1>1, LibeventAssumption DEF Live, Inv1, TypeOK

LEMMA RecvStep ==
    ASSUME Inv1, Recv
    PROVE  LET s == Chunk(Client)
               new == StoreChunk(state[fd], s) IN
           /\ Handling
           /\ s \in Seq(Letters) /\ s \in Seq(Char) /\ Len(s) \in Nat
           /\ new \in FdState
           /\ CursorsInOrder(new)
           /\ Added(state[fd], s) \in Seq(Letters)
           /\ stored[Client] \o Added(state[fd], s) \in Seq(Letters)
           /\ state' = [state EXCEPT ![fd] = new]
           /\ rpos' = [rpos EXCEPT ![Client] = @ + Len(s)]
           /\ stored' = [stored EXCEPT ![Client] = @ \o Added(state[fd], s)]
<1> DEFINE s == Chunk(Client)
<1>1. Handling /\ Inbound(Client) > 0
  BY DEF Recv, Handling
<1>2. Client \in Clients /\ state[fd] \in FdState /\ CursorsInOrder(state[fd])
  BY <1>1, HandlerFacts
<1>3. s \in Seq(Letters) /\ s \in Seq(Char) /\ Len(s) \in Nat
  BY <1>1, <1>2, ChunkFacts, ConnectionFacts DEF Inv1
<1>4. /\ state' = [state EXCEPT ![fd] = StoreChunk(state[fd], s)]
      /\ rpos' = [rpos EXCEPT ![Client] = @ + Len(s)]
      /\ stored' = [stored EXCEPT ![Client] = @ \o Added(state[fd], s)]
  BY DEF Recv, Added
<1>5. Added(state[fd], s) \in Seq(Letters)
  BY <1>2, <1>3, AddedProperties, ConnectionsAssumption
<1>6. stored[Client] \o Added(state[fd], s) \in Seq(Letters)
  BY <1>2, <1>5, ConcatProperties DEF Inv1, TypeOK
<1> QED BY <1>1, <1>2, <1>3, <1>4, <1>5, <1>6, StoreChunkProperties

LEMMA SendStep ==
    ASSUME Inv1, Send
    PROVE  /\ Handling
           /\ \E n \in 1 .. Unsent(state[fd]) :
                /\ Advance(state[fd], n) \in FdState
                /\ CursorsInOrder(Advance(state[fd], n))
                /\ Outgoing(state[fd], n) \in Seq(Char)
                /\ echoed[Client] \o Outgoing(state[fd], n) \in Seq(Char)
                /\ state' = [state EXCEPT ![fd] = Advance(state[fd], n)]
                /\ echoed' = [echoed EXCEPT ![Client] = @ \o Outgoing(state[fd], n)]
<1>1. Handling
  BY DEF Send, Handling
<1>2. Client \in Clients /\ state[fd] \in FdState /\ CursorsInOrder(state[fd])
  BY <1>1, HandlerFacts
<1>3. PICK n \in 1 .. Least(SendRoom(Client), Unsent(state[fd])) :
         /\ echoed' = [echoed EXCEPT ![Client] = @ \o Outgoing(state[fd], n)]
         /\ state' = [state EXCEPT ![fd] = Advance(@, n)]
  BY DEF Send
<1>4. n \in 1 .. Unsent(state[fd])
  <2>1. SendRoom(Client) \in Int /\ Unsent(state[fd]) \in Int
    <3>1. /\ echoed[Client] \in Seq(Char) /\ drained[Client] \in Nat
          /\ state[fd].write_upto \in Nat /\ state[fd].n_written \in Nat
      BY <1>2 DEF Inv1, TypeOK, FdState
    <3>2. Len(echoed[Client]) \in Nat /\ SendCap \in Nat
      BY <3>1, LenProperties, ConnectionsAssumption
    <3> QED BY <3>1, <3>2 DEF SendRoom, Unsent
  <2> QED BY <2>1 DEF Least
<1>5. Outgoing(state[fd], n) \in Seq(Char)
  BY <1>2, <1>4, OutgoingProperties
<1>6. echoed[Client] \o Outgoing(state[fd], n) \in Seq(Char)
  BY <1>2, <1>5, ConcatProperties DEF Inv1, TypeOK
<1> QED BY <1>1, <1>2, <1>3, <1>4, <1>5, <1>6, AdvanceProperties

LEMMA SendDoneStep ==
    ASSUME Inv1, SendDone
    PROVE  /\ Handling
           /\ FinishWrite(state[fd], 1) \in FdState
           /\ CursorsInOrder(FinishWrite(state[fd], 1))
           /\ Settled(FinishWrite(state[fd], 1), 1)
           /\ state' = [state EXCEPT ![fd] = FinishWrite(state[fd], 1)]
<1>1. pc = "send" /\ Handling /\ Unsent(state[fd]) <= 0
  BY DEF SendDone, Handling
<1>2. state[fd] \in FdState /\ CursorsInOrder(state[fd])
  BY <1>1, HandlerFacts
<1>3. state[fd].n_written = Len(state[fd].buffer) => 1 <= Len(state[fd].buffer)
  BY <1>1, RewindsToOne
<1>4. state' = [state EXCEPT ![fd] = FinishWrite(state[fd], 1)]
  BY DEF SendDone
<1> QED BY <1>1, <1>2, <1>3, <1>4, FinishWriteProperties, SettledFinish
(* The steps that only move the loop along.                                *)
LEMMA QuietSteps ==
    ASSUME \/ Poll \/ EndDispatch \/ (\E e \in Events : Callback(e))
           \/ AcceptFails \/ RecvAgain \/ SendAgain \/ UNCHANGED vars
    PROVE  /\ UNCHANGED <<state, stored, conn, backlog, peer, streams>>
           /\ Live' = Live
BY DEF Poll, EndDispatch, Callback, AcceptFails, RecvAgain, SendAgain, vars, Live

LEMMA ClientSteps ==
    ASSUME NEW c \in Clients, ClientStep(c)
    PROVE  /\ ClientMoves(c) /\ UNCHANGED <<pc, fd, active, state, stored>>
           /\ Live' = Live
BY ConnectionFacts DEF ClientStep, loop, Live

-----------------------------------------------------------------------------
(* Type correctness.                                                       *)

LEMMA TypeInit == Init => TypeOK
<1> SUFFICES ASSUME Init PROVE TypeOK
  OBVIOUS
<1>1. \A S : <<>> \in Seq(S)
  BY EmptySeq
<1> QED BY <1>1 DEF Init, InitConnections, TypeOK, PeerStates

LEMMA TypeStop == ASSUME TypeOK, Stop PROVE TypeOK'
<1>1. <<>> \in Seq(Clients)
  BY EmptySeq
<1> QED BY <1>1 DEF TypeOK, Stop, streams

LEMMA TypeStep == Inv1 /\ [Next]_vars => TypeOK'
<1> SUFFICES ASSUME Inv1, [Next]_vars PROVE TypeOK'
  OBVIOUS
<1> USE DEF Inv1
<1>1. ASSUME NEW c \in Clients, ClientStep(c) PROVE TypeOK'
  BY <1>1, ClientSteps, ConnectionFacts, ClientsType DEF ConnectionsTypeOK, TypeOK
<1>2. CASE Poll
  <2>1. Ready \subseteq Events
    <3>1. \A f \in Live : f \in Fds
      BY LiveFacts
    <3> QED BY <3>1, EventFacts DEF Ready
  <2> QED BY <1>2, <2>1 DEF Poll, TypeOK, streams
<1>3. ASSUME NEW e \in Events, Callback(e) PROVE TypeOK'
  BY <1>3 DEF Callback, Events, TypeOK, streams
<1>4. CASE EndDispatch \/ AcceptFails \/ RecvAgain \/ SendAgain \/ UNCHANGED vars
  BY <1>4 DEF EndDispatch, AcceptFails, RecvAgain, SendAgain, vars, Return, TypeOK, streams
<1>5. ASSUME NEW f \in Fds, AcceptInto(f) PROVE TypeOK'
  <2>1. Head(backlog) \in Clients /\ Tail(backlog) \in Seq(Clients)
    BY <1>5, AcceptStep, FirstWaiting, ConnectionFacts
  <2> QED BY <1>5, <2>1, AllocProperties DEF AcceptInto, Return, TypeOK, streams
<1>6. CASE AcceptRefused
  <2>1. Tail(backlog) \in Seq(Clients)
    BY <1>6, FirstWaiting, ConnectionFacts DEF AcceptRefused, ActiveEventsValid
  <2> QED BY <1>6, <2>1 DEF AcceptRefused, Return, TypeOK, streams
<1>7. CASE Stop
  BY <1>7, TypeStop
<1>8. CASE RecvEnd \/ SendError
  BY <1>8, FreeStep DEF TypeOK, streams
<1>9. CASE Recv
  <2>1. UNCHANGED <<pc, fd, active, conn, backlog, peer, sent, echoed, drained>>
    BY <1>9 DEF Recv, loop
  <2>2. Client \in Clients
    BY <1>9, RecvStep, HandlerFacts
  <2> DEFINE s == Chunk(Client)
             sto == stored[Client] \o Added(state[fd], s)
  <2>3. /\ state' \in [Fds -> FdState \cup {NULL}]
        /\ rpos' = [rpos EXCEPT ![Client] = @ + Len(s)] /\ Len(s) \in Nat
        /\ stored' = [stored EXCEPT ![Client] = sto] /\ sto \in Seq(Letters)
    BY <1>9, RecvStep, HandlerStep
  <2> HIDE DEF s, sto
  <2> QED BY <2>1, <2>2, <2>3 DEF TypeOK
<1>10. CASE Send
  <2>1. UNCHANGED <<pc, fd, active, stored, conn, backlog, peer, sent, rpos, drained>>
    BY <1>10 DEF Send, loop
  <2>2. Client \in Clients /\ Handling
    BY <1>10, SendStep, HandlerFacts
  <2>3. PICK n \in 1 .. Unsent(state[fd]) :
           /\ Advance(state[fd], n) \in FdState
           /\ echoed[Client] \o Outgoing(state[fd], n) \in Seq(Char)
           /\ state' = [state EXCEPT ![fd] = Advance(state[fd], n)]
           /\ echoed' = [echoed EXCEPT ![Client] = @ \o Outgoing(state[fd], n)]
    BY <1>10, SendStep
  <2>4. state' \in [Fds -> FdState \cup {NULL}]
    BY <2>2, <2>3, HandlerStep
  <2> QED BY <2>1, <2>2, <2>3, <2>4 DEF TypeOK
<1>11. CASE SendDone
  <2>1. state' \in [Fds -> FdState \cup {NULL}]
    BY <1>11, SendDoneStep, HandlerStep
  <2> QED BY <1>11, <2>1 DEF SendDone, Return, TypeOK, streams
<1> QED
  BY <1>1, <1>2, <1>3, <1>4, <1>5, <1>6, <1>7, <1>8, <1>9, <1>10, <1>11, StopSteps
  DEF Next, ServerStep, Dispatch, do_accept, do_read, do_write

-----------------------------------------------------------------------------
(* The cursors, and the line buffers outside of do_write.                  *)

LEMMA CursorStep == Inv1 /\ [Next]_vars => CursorOrder'
<1> SUFFICES ASSUME Inv1, [Next]_vars, NEW f \in Live'
             PROVE  CursorsInOrder(state'[f])
  BY DEF CursorOrder
<1>1. \A g \in Live : CursorsInOrder(state[g])
  BY DEF Inv1, CursorOrder
<1>2. CASE UNCHANGED state /\ Live' = Live
  BY <1>1, <1>2
<1>3. CASE Stop
  BY <1>3, LiveStop
<1>4. ASSUME NEW g \in Fds, AcceptInto(g) PROVE CursorsInOrder(state'[f])
  BY <1>1, <1>4, AcceptStep, AllocProperties
<1>5. CASE RecvEnd \/ SendError
  BY <1>1, <1>5, FreeStep
<1>6. ASSUME Handling, NEW st \in FdState, CursorsInOrder(st),
             state' = [state EXCEPT ![fd] = st]
      PROVE  CursorsInOrder(state'[f])
  BY <1>1, <1>6, HandlerStep
<1>7. CASE Recv
  BY <1>6, <1>7, RecvStep
<1>8. CASE Send
  BY <1>6, <1>8, SendStep
<1>9. CASE SendDone
  BY <1>6, <1>9, SendDoneStep
<1>10. CASE AcceptRefused
  BY <1>2, <1>10 DEF AcceptRefused, Live
<1> QED
  BY <1>2, <1>3, <1>4, <1>5, <1>7, <1>8, <1>9, <1>10, QuietSteps, ClientSteps, StopSteps
  DEF Next, ServerStep, Dispatch, do_accept, do_read, do_write

LEMMA BuffersStep == Inv1 /\ [Next]_vars => Buffers'
<1> SUFFICES ASSUME Inv1, [Next]_vars, NEW f \in Live', ~ InWrite(f)'
             PROVE  Settled(state'[f], 1)
  BY DEF Buffers
<1>1. ASSUME f \in Live, state'[f] = state[f], ~ InWrite(f) PROVE Settled(state'[f], 1)
  BY <1>1 DEF Inv1, Buffers
<1>2. CASE UNCHANGED state /\ Live' = Live /\ ((pc' = pc /\ fd' = fd) \/ pc # "send")
  BY <1>1, <1>2 DEF InWrite
<1>3. CASE Stop
  BY <1>3, LiveStop
<1>4. ASSUME NEW g \in Fds, AcceptInto(g) PROVE Settled(state'[f], 1)
  <2>1. 1 \in Nat /\ pc # "send"
    BY <1>4 DEF AcceptInto
  <2> QED BY <1>1, <1>4, <2>1, AcceptStep, SettledAlloc DEF InWrite
<1>5. CASE RecvEnd \/ SendError
  <2>1. f \in Live /\ f # fd /\ state'[f] = state[f]
    BY <1>5, FreeStep
  <2> QED BY <1>1, <2>1 DEF InWrite
<1>6. ASSUME Handling, NEW st \in FdState, state' = [state EXCEPT ![fd] = st], f # fd
      PROVE  Settled(state'[f], 1)
  BY <1>1, <1>6, HandlerStep DEF InWrite
<1>7. CASE Recv
  <2>1. /\ fd \in Live /\ state[fd] \in FdState /\ CursorsInOrder(state[fd])
        /\ ~ InWrite(fd)
    BY <1>7, RecvStep, HandlerFacts DEF Recv, InWrite
  <2>2. Settled(state[fd], 1) /\ 1 \in Nat /\ 1 < MaxLine
    BY <2>1, LibeventAssumption, MaxLineAssumption DEF Inv1, Buffers
  <2>3. Settled(StoreChunk(state[fd], Chunk(Client)), 1)
    BY <1>7, <2>1, <2>2, RecvStep, SettledStore
  <2> QED BY <1>6, <1>7, <2>3, RecvStep, HandlerStep
<1>8. CASE Send
  <2>1. f = fd => InWrite(f)'
    BY <1>8 DEF Send, InWrite, loop
  <2> QED BY <1>6, <1>8, <2>1, SendStep
<1>9. CASE SendDone
  BY <1>6, <1>9, SendDoneStep, HandlerStep
<1>10. CASE AcceptRefused
  BY <1>2, <1>10 DEF AcceptRefused, Live
<1>11. CASE SendAgain
  <2>1. fd \in Live /\ state[fd] \in FdState /\ CursorsInOrder(state[fd])
    BY <1>11, HandlerFacts DEF SendAgain, Handling
  <2>2. Unsent(state[fd]) > 0 /\ state[fd].writing
    BY <1>11 DEF SendAgain, Inv1, SomethingCommitted
  <2>3. state[fd].n_written # Len(state[fd].buffer)
    <3>1. /\ state[fd].n_written \in Nat /\ state[fd].write_upto \in Nat
          /\ Len(state[fd].buffer) \in Nat
      BY <2>1, LenProperties DEF FdState
    <3> QED BY <2>1, <2>2, <3>1 DEF Unsent, CursorsInOrder
  <2>4. Settled(state[fd], 1)
    BY <2>2, <2>3 DEF Settled
  <2>5. f \in Live /\ state' = state
    BY <1>11, QuietSteps
  <2> QED BY <1>1, <2>4, <2>5 DEF InWrite
<1>12. CASE Poll \/ EndDispatch \/ (\E e \in Events : Callback(e))
             \/ AcceptFails \/ RecvAgain \/ UNCHANGED vars
  <2>1. (pc' = pc /\ fd' = fd) \/ pc # "send"
    BY <1>12 DEF Poll, EndDispatch, Callback, AcceptFails, RecvAgain, vars
  <2> QED BY <1>2, <1>12, <2>1, QuietSteps
<1>13. ASSUME NEW c \in Clients, ClientStep(c) PROVE Settled(state'[f], 1)
  BY <1>2, <1>13, ClientSteps
<1> QED
  BY <1>3, <1>4, <1>5, <1>7, <1>8, <1>9, <1>10, <1>11, <1>12, <1>13, StopSteps
  DEF Next, ServerStep, Dispatch, do_accept, do_read, do_write
-----------------------------------------------------------------------------
(* The descriptors.                                                        *)

LEMMA TableStep == Inv1 /\ [Next]_vars => Table'
<1> SUFFICES ASSUME Inv1, [Next]_vars PROVE Table'
  OBVIOUS
<1> USE DEF Inv1
<1>1. CASE Live' = Live /\ conn' = conn
  BY <1>1 DEF Table
<1>2. CASE Stop
  BY <1>2, LiveStop DEF Stop, Table
<1>3. ASSUME NEW f \in Fds, AcceptInto(f) PROVE Table'
  <2>1. /\ Head(backlog) \in Clients /\ Head(backlog) # NULL
        /\ \A g \in Fds : Head(backlog) # conn[g]
    BY <1>3, AcceptStep, FirstWaiting, ConnectionFacts
  <2>2. /\ Live' = Live \cup {f} /\ \A g \in Live : conn'[g] = conn[g]
        /\ conn' = [conn EXCEPT ![f] = Head(backlog)]
    BY <1>3, AcceptStep
  <2>3. conn'[f] = Head(backlog) /\ \A g \in Fds : g # f => conn'[g] = conn[g]
    BY <2>2 DEF TypeOK
  <2>4. \A g \in Live' : conn'[g] # NULL
    BY <2>1, <2>2, <2>3 DEF Table
  <2>5. \A g, h \in Fds : conn'[g] # NULL /\ conn'[g] = conn'[h] => g = h
    BY <2>1, <2>3 DEF Table
  <2> QED BY <2>4, <2>5 DEF Table
<1>4. CASE RecvEnd \/ SendError
  BY <1>4, FreeStep DEF Table
<1>5. CASE Recv \/ Send \/ SendDone
  <2>1. Live' = Live
    BY <1>5, RecvStep, SendStep, SendDoneStep, HandlerStep
  <2> QED BY <1>1, <1>5, <2>1 DEF Recv, Send, SendDone
<1>6. CASE AcceptRefused
  BY <1>1, <1>6 DEF AcceptRefused, Live
<1>7. ASSUME NEW c \in Clients, ClientStep(c) PROVE Table'
  BY <1>1, <1>7, ClientSteps, ConnectionFacts, ClientsType
<1> QED
  BY <1>1, <1>2, <1>3, <1>4, <1>5, <1>6, <1>7, QuietSteps, StopSteps
  DEF Next, ServerStep, Dispatch, do_accept, do_read, do_write

LEMMA WaitingStep == Inv1 /\ [Next]_vars => Waiting'
<1> SUFFICES ASSUME Inv1, [Next]_vars PROVE Waiting'
  OBVIOUS
<1> USE DEF Inv1
<1>0. ConnectionsTypeOK
  BY ConnectionFacts
<1>1. CASE UNCHANGED <<conn, backlog, peer>>
  BY <1>0, <1>1, WaitingKept
<1>2. ASSUME NEW c \in Clients, ClientStep(c) PROVE Waiting'
  <2>1. CASE Connect(c)
    BY <1>0, <2>1, WaitingConnect
  <2>2. CASE ~ Connect(c)
    <3>1. backlog' = backlog /\ conn' = conn
      BY <1>2, <2>2 DEF ClientStep, ClientSend, ClientShutdown, ClientReset, ClientRead
    <3>2. \A d \in Clients : peer[d] # "idle" => peer'[d] # "idle"
      BY <1>0, <1>2, ClientSteps, ClientsMonotone
    <3> QED BY <1>0, <3>1, <3>2, WaitingKept
  <2> QED BY <2>1, <2>2
<1>3. CASE Stop
  BY <1>3, WaitingStop DEF Stop
<1>4. ASSUME NEW f \in Fds, AcceptInto(f) PROVE Waiting'
  BY <1>0, <1>4, AcceptStep, WaitingAccept DEF AcceptInto
<1>5. CASE AcceptRefused
  BY <1>0, <1>5, WaitingAccept DEF AcceptRefused, ActiveEventsValid
<1>6. CASE RecvEnd \/ SendError \/ Recv \/ Send \/ SendDone
  BY <1>1, <1>6, FreeStep DEF Recv, Send, SendDone
<1> QED
  BY <1>1, <1>2, <1>3, <1>4, <1>5, <1>6, QuietSteps, StopSteps
  DEF Next, ServerStep, Dispatch, do_accept, do_read, do_write

-----------------------------------------------------------------------------
(* The events.                                                             *)

LEMMA RunningStep == Inv1 /\ [Next]_vars => Running'
<1> SUFFICES ASSUME Inv1, [Next]_vars PROVE Running'
  OBVIOUS
<1> USE DEF Inv1, Running
<1>1. CASE UNCHANGED <<pc, fd, active>>
  BY <1>1, EventFacts DEF ReadEvent, WriteEvent
<1>2. ASSUME active' \subseteq active, pc' \notin {"accept", "recv", "send"} PROVE Running'
  BY <1>2
<1>3. CASE Poll
  <2>1. \A f \in Live : f # Listener
    BY LiveFacts
  <2>2. WriteEvent(Listener) \notin Ready
    BY <2>1, EventFacts DEF Ready
  <2> QED BY <1>3, <2>2 DEF Poll
<1>4. ASSUME NEW e \in Events, Callback(e) PROVE Running'
  <2>1. /\ e \in active /\ active' = active \ {e} /\ fd' = e.fd
        /\ pc' = IF e.fd = Listener THEN "accept"
                 ELSE IF e.what = "read" THEN "recv" ELSE "send"
    BY <1>4 DEF Callback
  <2>2. \/ e = ReadEvent(e.fd) /\ e.what = "read"
        \/ e = WriteEvent(e.fd) /\ e.what = "write"
    BY EventFacts
  <2>3. e # WriteEvent(Listener)
    BY <2>1
  <2> QED BY <2>1, <2>2, <2>3, EventFacts
<1>5. CASE Stop
  BY <1>5 DEF Stop
<1>6. CASE EndDispatch \/ AcceptFails \/ AcceptRefused \/ (\E f \in Fds : AcceptInto(f))
            \/ RecvAgain \/ SendAgain \/ SendDone \/ RecvEnd \/ SendError
  <2>1. active' \subseteq active /\ pc' \notin {"accept", "recv", "send"}
    BY <1>6, FreeStep DEF EndDispatch, AcceptFails, AcceptRefused, AcceptInto, RecvAgain,
                          SendAgain, SendDone, Return
  <2> QED BY <1>2, <2>1
<1>7. CASE Recv \/ Send \/ UNCHANGED vars
  BY <1>1, <1>7 DEF Recv, Send, loop, vars
<1>8. ASSUME NEW c \in Clients, ClientStep(c) PROVE Running'
  BY <1>1, <1>8, ClientSteps
<1> QED
  BY <1>3, <1>4, <1>5, <1>6, <1>7, <1>8, StopSteps
  DEF Next, ServerStep, Dispatch, do_accept, do_read, do_write
(* If no event becomes active, and those that stay keep what they need,    *)
(* then the active events stay valid.                                      *)
LEMMA EventsKept ==
    ASSUME Inv1, TypeOK', active' \subseteq active,
           \A f \in Live : {ReadEvent(f), WriteEvent(f)} \cap active' # {} =>
                              f \in Live' /\ conn'[f] = conn[f],
           \A f \in Live : ReadEvent(f) \in active' /\ Readable(conn[f]) => Readable(conn[f])',
           \A f \in Live : WriteEvent(f) \in active' /\ Writable(conn[f]) => Writable(conn[f])',
           ReadEvent(Listener) \in active' \/ pc' = "accept" => backlog' # <<>>,
           pc' \in {"recv", "send"} => fd' \in Live'
    PROVE  ActiveEventsValid'
<1> USE DEF Inv1
<1>1. \A f : ReadEvent(f)' = ReadEvent(f) /\ WriteEvent(f)' = WriteEvent(f)
  BY DEF ReadEvent, WriteEvent
<1>2. \A f \in Fds : {ReadEvent(f), WriteEvent(f)} \cap active' # {} => f \in Live
  BY DEF ActiveEventsValid
<1>3. \A f \in Live' : f \in Fds
  BY DEF TypeOK, Live
<1>4. ASSUME NEW f \in Fds, {ReadEvent(f), WriteEvent(f)} \cap active' # {} PROVE f \in Live'
  BY <1>2, <1>4
<1>5. ASSUME NEW f \in Live', ReadEvent(f) \in active' PROVE Readable(conn[f])'
  BY <1>2, <1>3, <1>5 DEF ActiveEventsValid
<1>6. ASSUME NEW f \in Live', WriteEvent(f) \in active' PROVE Writable(conn[f])'
  BY <1>2, <1>3, <1>6 DEF ActiveEventsValid
<1> QED BY <1>1, <1>4, <1>5, <1>6 DEF ActiveEventsValid

LEMMA EventsStep == Inv1 /\ [Next]_vars => ActiveEventsValid'
<1> SUFFICES ASSUME Inv1, [Next]_vars PROVE ActiveEventsValid'
  OBVIOUS
<1> USE DEF Inv1
<1>0. /\ TypeOK'
      /\ \A f \in Live : /\ f \in Fds /\ f # Listener
                         /\ conn[f] # NULL /\ conn[f] \in Clients
                         /\ peer[conn[f]] # "idle"
      /\ \A f, g \in Live : conn[f] = conn[g] => f = g
  BY TypeStep, LiveFacts DEF Table, Waiting, TypeOK
<1>1. ASSUME UNCHANGED <<peer, streams>>, active' \subseteq active,
             \A f \in Live : {ReadEvent(f), WriteEvent(f)} \cap active' # {} =>
                                f \in Live' /\ conn'[f] = conn[f],
             ReadEvent(Listener) \in active' \/ pc' = "accept" => backlog' # <<>>,
             pc' \in {"recv", "send"} => fd' \in Live'
      PROVE  ActiveEventsValid'
  <2>1. \A f \in Live : ReadEvent(f) \in active' /\ Readable(conn[f]) => Readable(conn[f])'
    BY <1>1 DEF Readable, Gone, Inbound, streams
  <2>2. \A f \in Live : WriteEvent(f) \in active' /\ Writable(conn[f]) => Writable(conn[f])'
    BY <1>1 DEF Writable, Gone, SendRoom, streams
  <2> QED BY <1>0, <1>1, <2>1, <2>2, EventsKept
<1>2. CASE Poll
  <2>1. /\ active' = Ready /\ pc' = "dispatch" /\ Live' = Live
        /\ UNCHANGED <<state, conn, backlog, peer, streams>>
    BY <1>2, QuietSteps DEF Poll
  <2>2. \A f : ReadEvent(f)' = ReadEvent(f) /\ WriteEvent(f)' = WriteEvent(f)
    BY DEF ReadEvent, WriteEvent
  <2>3. \A f \in Live : /\ Readable(conn[f])' = Readable(conn[f])
                        /\ Writable(conn[f])' = Writable(conn[f])
    BY <2>1 DEF Readable, Writable, Gone, Inbound, SendRoom, streams
  <2>4. ASSUME NEW f, ReadEvent(f) \in Ready
        PROVE  \/ f \in Live /\ Readable(conn[f])
               \/ f = Listener /\ backlog # <<>>
    BY <2>4, EventFacts DEF Ready
  <2>5. ASSUME NEW f, WriteEvent(f) \in Ready PROVE f \in Live /\ Writable(conn[f])
    BY <2>5, EventFacts DEF Ready
  <2>6. Listener \notin Live /\ Listener \notin Fds
    BY <1>0, ConnectionsAssumption DEF Listener, Fds
  <2> QED BY <1>0, <2>1, <2>2, <2>3, <2>4, <2>5, <2>6 DEF ActiveEventsValid
<1>3. ASSUME NEW e \in Events, Callback(e) PROVE ActiveEventsValid'
  <2>1. /\ e \in active /\ active' = active \ {e} /\ fd' = e.fd
        /\ pc' = IF e.fd = Listener THEN "accept"
                 ELSE IF e.what = "read" THEN "recv" ELSE "send"
        /\ Live' = Live
        /\ UNCHANGED <<conn, backlog, peer, streams>>
    BY <1>3, QuietSteps DEF Callback
  <2>2. e = ReadEvent(e.fd) \/ e = WriteEvent(e.fd)
    BY EventFacts
  <2>3. e.fd # Listener => e.fd \in Live
    BY <2>1, <2>2 DEF ActiveEventsValid, Events
  <2>4. e.fd = Listener => backlog # <<>>
    BY <2>1, <2>2 DEF ActiveEventsValid, Running
  <2>5. ReadEvent(Listener) \in active => backlog # <<>>
    BY DEF ActiveEventsValid
  <2> QED BY <1>1, <2>1, <2>3, <2>4, <2>5
<1>4. CASE Stop
  BY <1>1, <1>4 DEF Stop
<1>5. CASE EndDispatch \/ AcceptFails \/ RecvAgain \/ SendAgain \/ UNCHANGED vars
  <2>1. /\ active' = active /\ Live' = Live
        /\ UNCHANGED <<conn, backlog, peer, streams>>
    BY <1>5, QuietSteps DEF EndDispatch, AcceptFails, RecvAgain, SendAgain, vars
  <2>2. pc' \in {"poll", "dispatch"} \/ (pc' = pc /\ fd' = fd)
    BY <1>5 DEF EndDispatch, AcceptFails, RecvAgain, SendAgain, Return, vars
  <2>3. ReadEvent(Listener) \in active \/ pc = "accept" => backlog # <<>>
    BY DEF ActiveEventsValid
  <2>4. pc \in {"recv", "send"} => fd \in Live
    BY DEF ActiveEventsValid
  <2> QED BY <1>1, <2>1, <2>2, <2>3, <2>4
<1>6. ASSUME NEW f \in Fds, AcceptInto(f) PROVE ActiveEventsValid'
  <2>1. /\ Live' = Live \cup {f} /\ \A g \in Live : conn'[g] = conn[g]
    BY <1>6, AcceptStep
  <2>2. /\ active' = active /\ pc = "accept" /\ pc' = "dispatch" /\ UNCHANGED <<peer, streams>>
    BY <1>6 DEF AcceptInto, Return
  <2>3. ReadEvent(Listener) \notin active
    BY <2>2 DEF Running
  <2> QED BY <1>1, <2>1, <2>2, <2>3
<1>7. CASE AcceptRefused
  <2>1. /\ active' = active /\ pc = "accept" /\ pc' = "dispatch"
        /\ Live' = Live /\ UNCHANGED <<conn, peer, streams>>
    BY <1>7 DEF AcceptRefused, Return, Live
  <2>2. ReadEvent(Listener) \notin active
    BY <2>1 DEF Running
  <2> QED BY <1>1, <2>1, <2>2
<1>8. CASE RecvEnd \/ SendError
  <2>1. /\ Live' = Live \ {fd} /\ active' = active \ {ReadEvent(fd), WriteEvent(fd)}
        /\ pc' = "dispatch" /\ UNCHANGED <<conn, backlog, peer, streams>>
    BY <1>8, FreeStep
  <2>2. \A f \in Live : {ReadEvent(f), WriteEvent(f)} \cap active' # {} => f \in Live'
    BY <2>1
  <2>3. ReadEvent(Listener) \in active' => backlog' # <<>>
    BY <2>1 DEF ActiveEventsValid
  <2> QED BY <1>1, <2>1, <2>2, <2>3
<1>9. CASE SendDone
  <2>1. /\ Live' = Live /\ active' \subseteq active /\ pc' = "dispatch"
        /\ UNCHANGED <<conn, backlog, peer, streams>>
    BY <1>9, SendDoneStep, HandlerStep DEF SendDone, Return
  <2>2. ReadEvent(Listener) \in active => backlog # <<>>
    BY DEF ActiveEventsValid
  <2> QED BY <1>1, <2>1, <2>2
<1>10. CASE Recv \/ Send
  <2>1. /\ Live' = Live /\ Handling
        /\ UNCHANGED <<pc, fd, active, conn, backlog, peer, sent, drained>>
    BY <1>10, RecvStep, SendStep, HandlerStep DEF Recv, Send, loop
  <2>2. fd \in Live /\ Client = conn[fd] /\ fd # Listener
    BY <2>1, HandlerFacts
  <2>3. \/ pc = "recv" /\ echoed' = echoed /\ \E n : rpos' = [rpos EXCEPT ![Client] = n]
        \/ pc = "send" /\ rpos' = rpos /\ \E s : echoed' = [echoed EXCEPT ![Client] = s]
    BY <1>10 DEF Recv, Send
  <2>4. \A f \in Live : f # fd => /\ Readable(conn[f])' = Readable(conn[f])
                                  /\ Writable(conn[f])' = Writable(conn[f])
    <3>1. ASSUME NEW f \in Live, f # fd
          PROVE  /\ Readable(conn[f])' = Readable(conn[f])
                 /\ Writable(conn[f])' = Writable(conn[f])
      <4>1. conn[f] \in Clients /\ conn[f] # Client /\ conn'[f] = conn[f]
        BY <1>0, <2>1, <2>2, <3>1
      <4> QED BY <2>1, <2>3, <4>1, OthersKept, ConnectionFacts
                 DEF Readable, Writable, Gone, Inbound, SendRoom
    <3> QED BY <3>1
  <2>5. ReadEvent(fd) \in active => pc = "send"
    BY <2>3 DEF Running
  <2>6. WriteEvent(fd) \in active => pc = "recv"
    BY <2>3 DEF Running
  <2>7. pc = "send" => Readable(conn[fd])' = Readable(conn[fd])
    BY <2>1, <2>3 DEF Readable, Gone, Inbound
  <2>8. pc = "recv" => Writable(conn[fd])' = Writable(conn[fd])
    BY <2>1, <2>3 DEF Writable, Gone, SendRoom
  <2>9. \A f \in Live : ReadEvent(f) \in active' /\ Readable(conn[f]) => Readable(conn[f])'
    BY <2>1, <2>4, <2>5, <2>7
  <2>10. \A f \in Live : WriteEvent(f) \in active' /\ Writable(conn[f]) => Writable(conn[f])'
    BY <2>1, <2>4, <2>6, <2>8
  <2>11. ReadEvent(Listener) \in active \/ pc = "accept" => backlog # <<>>
    BY DEF ActiveEventsValid
  <2> QED BY <1>0, <2>1, <2>2, <2>9, <2>10, <2>11, EventsKept
<1>11. ASSUME NEW c \in Clients, ClientStep(c) PROVE ActiveEventsValid'
  <2>1. /\ UNCHANGED <<pc, fd, active, conn>> /\ Live' = Live /\ ClientMoves(c)
    BY <1>11, ClientSteps, ConnectionFacts, ClientsType
  <2>2. \A f \in Live : /\ Readable(conn[f]) => Readable(conn[f])'
                        /\ Writable(conn[f]) => Writable(conn[f])'
    <3>1. ASSUME NEW f \in Live
          PROVE  /\ Readable(conn[f]) => Readable(conn[f])'
                 /\ Writable(conn[f]) => Writable(conn[f])'
      <4> DEFINE d == conn[f]
      <4>1. d \in Clients /\ peer[d] # "idle" /\ conn'[f] = conn[f]
        BY <1>0, <2>1
      <4> QED BY <2>1, <4>1, ClientsMonotone, ConnectionFacts
                 DEF Readable, Writable, Gone, Inbound, SendRoom
    <3> QED BY <3>1
  <2>3. backlog # <<>> => backlog' # <<>>
    <3>1. ASSUME Connect(c) PROVE backlog' # <<>>
      <4>1. backlog' = Append(backlog, c) /\ Len(backlog) \in Nat
        BY <3>1, LenProperties DEF Connect, TypeOK
      <4>2. Len(backlog') = Len(backlog) + 1
        BY <4>1, AppendProperties DEF TypeOK
      <4> QED BY <4>1, <4>2, EmptySeq
    <3>2. ASSUME ~ Connect(c) PROVE backlog' = backlog
      BY <2>1, <3>2 DEF ClientMoves, ClientSend, ClientShutdown, ClientReset, ClientRead
    <3> QED BY <3>1, <3>2
  <2>4. /\ ReadEvent(Listener) \in active \/ pc = "accept" => backlog # <<>>
        /\ pc \in {"recv", "send"} => fd \in Live
    BY DEF ActiveEventsValid
  <2> QED BY <1>0, <2>1, <2>2, <2>3, <2>4, EventsKept
<1> QED
  BY <1>2, <1>3, <1>4, <1>5, <1>6, <1>7, <1>8, <1>9, <1>10, <1>11, StopSteps
  DEF Next, ServerStep, Dispatch, do_accept, do_read, do_write
LEMMA CommittedStep == Inv1 /\ [Next]_vars => SomethingCommitted'
<1> SUFFICES ASSUME Inv1, [Next]_vars PROVE SomethingCommitted'
  OBVIOUS
<1> USE DEF Inv1
<1>0. \A f \in Fds : WriteEvent(f)' = WriteEvent(f)
  BY DEF WriteEvent
<1>1. ASSUME active' \subseteq active, pc' # "send",
             \A f \in Fds : WriteEvent(f) \in active' => state'[f] = state[f]
      PROVE  SomethingCommitted'
  <2>1. ASSUME NEW f \in Fds, WriteEvent(f) \in active' PROVE Unsent(state'[f]) > 0
    BY <1>1, <2>1 DEF SomethingCommitted
  <2> QED BY <1>0, <1>1, <2>1 DEF SomethingCommitted
<1>2. CASE UNCHANGED <<pc, fd, active, state>>
  BY <1>0, <1>2 DEF SomethingCommitted
<1>3. CASE Poll
  <2>1. active' = Ready /\ pc = "poll" /\ pc' = "dispatch" /\ state' = state
    BY <1>3 DEF Poll
  <2>2. ASSUME NEW f \in Fds, WriteEvent(f) \in Ready PROVE Unsent(state[f]) > 0
    <3>1. f \in Live /\ state[f].writing
      BY <2>2, EventFacts DEF Ready
    <3> QED BY <2>1, <3>1 DEF Buffers, InWrite, Settled
  <2> QED BY <1>0, <2>1, <2>2 DEF SomethingCommitted
<1>4. ASSUME NEW e \in Events, Callback(e) PROVE SomethingCommitted'
  <2>1. /\ e \in active /\ active' = active \ {e} /\ fd' = e.fd /\ state' = state
        /\ pc = "dispatch"
        /\ pc' = IF e.fd = Listener THEN "accept"
                 ELSE IF e.what = "read" THEN "recv" ELSE "send"
    BY <1>4 DEF Callback
  <2>2. \/ e = ReadEvent(e.fd) /\ e.what = "read"
        \/ e = WriteEvent(e.fd) /\ e.what = "write"
    BY EventFacts
  <2>3. ASSUME pc' = "send" PROVE state[e.fd].write_upto > 0 /\ state[e.fd].writing
    <3>1. e = WriteEvent(e.fd) /\ e.fd \in Fds
      BY <2>1, <2>2, <2>3 DEF Events
    <3>2. Unsent(state[e.fd]) > 0 /\ e.fd \in Live
      BY <2>1, <3>1 DEF SomethingCommitted, ActiveEventsValid
    <3>3. state[e.fd].writing
      BY <2>1, <3>2 DEF Buffers, InWrite, Settled
    <3>4. state[e.fd].write_upto \in Nat /\ state[e.fd].n_written \in Nat
      BY <3>2, LiveFacts DEF FdState
    <3> QED BY <3>2, <3>3, <3>4 DEF Unsent
  <2>4. \A f \in Fds : WriteEvent(f) \in active' => Unsent(state'[f]) > 0
    BY <2>1 DEF SomethingCommitted
  <2> QED BY <1>0, <2>1, <2>3, <2>4 DEF SomethingCommitted
<1>5. CASE Stop
  BY <1>0, <1>5 DEF Stop, SomethingCommitted
<1>6. CASE EndDispatch \/ AcceptFails \/ AcceptRefused \/ RecvAgain \/ SendAgain
  BY <1>1, <1>6 DEF EndDispatch, AcceptFails, AcceptRefused, RecvAgain, SendAgain, Return
<1>7. ASSUME NEW f \in Fds, AcceptInto(f) PROVE SomethingCommitted'
  <2>1. f \notin Live /\ \A g \in Live : state'[g] = state[g]
    BY <1>7, AcceptStep
  <2>2. active' = active /\ pc' = "dispatch"
    BY <1>7 DEF AcceptInto, Return
  <2>3. \A g \in Fds : WriteEvent(g) \in active => g \in Live
    BY DEF ActiveEventsValid
  <2> QED BY <1>1, <2>1, <2>2, <2>3
<1>8. CASE RecvEnd \/ SendError
  <2>1. /\ active' = active \ {ReadEvent(fd), WriteEvent(fd)} /\ pc' = "dispatch"
        /\ state' = [state EXCEPT ![fd] = NULL]
    BY <1>8, FreeStep
  <2>2. \A f \in Fds : WriteEvent(f) \in active' => state'[f] = state[f]
    BY <2>1 DEF TypeOK
  <2> QED BY <1>1, <2>1, <2>2
<1>9. CASE SendDone
  <2>1. active' = active \ {WriteEvent(fd)} /\ pc' = "dispatch"
    BY <1>9 DEF SendDone, Return
  <2>2. \A f \in Fds : WriteEvent(f) \in active' => f # fd /\ f \in Live
    BY <2>1 DEF ActiveEventsValid
  <2>3. \A f \in Live : f # fd => state'[f] = state[f]
    BY <1>9, SendDoneStep, HandlerStep
  <2> QED BY <1>1, <2>1, <2>2, <2>3
<1>10. CASE Recv
  <2> DEFINE new == StoreChunk(state[fd], Chunk(Client))
  <2>1. /\ UNCHANGED <<fd, active>> /\ pc = "recv" /\ pc' = "recv" /\ Handling
    BY <1>10 DEF Recv, loop, Handling
  <2>2. /\ state[fd] \in FdState /\ CursorsInOrder(state[fd]) /\ fd \in Fds
    BY <2>1, HandlerFacts
  <2>3. /\ Live' = Live /\ state'[fd] = new /\ new \in FdState
        /\ \A f \in Live : f # fd => state'[f] = state[f]
    BY <1>10, RecvStep, HandlerStep
  <2>4. new.n_written = state[fd].n_written /\ new.write_upto >= state[fd].write_upto
    BY <1>10, <2>2, RecvStep, StoreChunkProperties
  <2>5. /\ new.n_written \in Nat /\ new.write_upto \in Nat
        /\ state[fd].write_upto \in Nat
    BY <2>2, <2>3 DEF FdState
  <2> HIDE DEF new
  <2>6. Unsent(state[fd]) > 0 => Unsent(new) > 0
    BY <2>4, <2>5 DEF Unsent
  <2>7. \A f \in Fds : WriteEvent(f) \in active => f \in Live /\ Unsent(state[f]) > 0
    BY DEF ActiveEventsValid, SomethingCommitted
  <2>8. \A f \in Fds : WriteEvent(f) \in active' => Unsent(state'[f]) > 0
    BY <2>1, <2>3, <2>6, <2>7
  <2> QED BY <1>0, <2>1, <2>8 DEF SomethingCommitted
<1>11. CASE Send
  <2>1. UNCHANGED <<fd, active>> /\ pc = "send" /\ pc' = "send" /\ Handling
    BY <1>11 DEF Send, loop, Handling
  <2>2. fd \in Fds /\ state[fd] \in FdState
    BY <2>1, HandlerFacts
  <2>3. PICK n \in 1 .. Unsent(state[fd]) :
           /\ Advance(state[fd], n) \in FdState
           /\ state' = [state EXCEPT ![fd] = Advance(state[fd], n)]
    BY <1>11, SendStep
  <2>4. /\ Advance(state[fd], n).write_upto = state[fd].write_upto
        /\ Advance(state[fd], n).writing = state[fd].writing
    BY <2>2 DEF Advance, FdState
  <2>5. /\ state'[fd] = Advance(state[fd], n)
        /\ \A f \in Live : f # fd => state'[f] = state[f]
    BY <2>1, <2>3, HandlerStep
  <2>6. state'[fd'].write_upto > 0 /\ state'[fd'].writing
    BY <2>1, <2>4, <2>5 DEF SomethingCommitted
  <2>7. \A f \in Fds : WriteEvent(f) \in active => f \in Live /\ f # fd
    BY <2>1 DEF ActiveEventsValid, Running
  <2>8. \A f \in Fds : WriteEvent(f) \in active' => Unsent(state'[f]) > 0
    BY <2>1, <2>5, <2>7 DEF SomethingCommitted
  <2> QED BY <1>0, <2>6, <2>8 DEF SomethingCommitted
<1>12. ASSUME NEW c \in Clients, ClientStep(c) PROVE SomethingCommitted'
  BY <1>2, <1>12, ClientSteps
<1>13. CASE UNCHANGED vars
  BY <1>2, <1>13 DEF vars
<1> QED
  BY <1>3, <1>4, <1>5, <1>6, <1>7, <1>8, <1>9, <1>10, <1>11, <1>12, <1>13, StopSteps
  DEF Next, ServerStep, Dispatch, do_accept, do_read, do_write

-----------------------------------------------------------------------------
(* The first layer is an invariant.                                        *)

LEMMA Inv1Init == Init => Inv1
<1> SUFFICES ASSUME Init PROVE Inv1
  OBVIOUS
<1>1. Live = {}
  BY DEF Init, InitConnections, Live
<1>2. Len(backlog) = 0
  BY EmptySeq DEF Init, InitConnections
<1> QED BY <1>1, <1>2, TypeInit
        DEF Inv1, Init, InitConnections, Table, Waiting, ActiveEventsValid, Running,
            SomethingCommitted, Buffers, CursorOrder

LEMMA Inv1Step == Inv1 /\ [Next]_vars => Inv1'
BY TypeStep, CursorStep, TableStep, WaitingStep, EventsStep, RunningStep,
   CommittedStep, BuffersStep DEF Inv1

LEMMA Inv1Invariant == Spec => []Inv1
BY Inv1Init, Inv1Step, PTL DEF Spec

(* Every variable keeps its type, whatever the clients do.                 *)
THEOREM TypeCorrect == Spec => []TypeOK
<1>1. Inv1 => TypeOK
  BY DEF Inv1
<1> QED BY <1>1, Inv1Invariant, PTL

(* The cursors of every line buffer stay in order and within MAX_LINE,     *)
(* though do_write rewinds an emptied buffer to 1.                         *)
THEOREM CursorsStayInOrder == Spec => []CursorOrder
<1>1. Inv1 => CursorOrder
  BY DEF Inv1
<1> QED BY <1>1, Inv1Invariant, PTL

(* In whatever order the active callbacks are called, none is called for a *)
(* line buffer that another one has freed, and what made its event ready   *)
(* still holds.                                                            *)
THEOREM EventsStayValid == Spec => []ActiveEventsValid
<1>1. Inv1 => ActiveEventsValid
  BY DEF Inv1
<1> QED BY <1>1, Inv1Invariant, PTL

(* Between two calls of do_write the write event is added exactly while a  *)
(* committed byte is unsent, and do_write finds something to send.         *)
THEOREM WriteEventStaysIffPending == Spec => []WriteEventIffPending
<1>1. Inv1 => WriteEventIffPending
  BY DEF Inv1, Buffers, InWrite, Settled, SomethingCommitted, WriteEventIffPending
<1> QED BY <1>1, Inv1Invariant, PTL

-----------------------------------------------------------------------------
(* The descriptors that are never closed, and the streams.                 *)

LEMMA LeakStep == Inv1 /\ OnlyLeaversLeak /\ [Next]_vars => OnlyLeaversLeak'
<1> SUFFICES ASSUME Inv1, OnlyLeaversLeak, [Next]_vars,
                    NEW f \in Fds, f \notin Live', conn'[f] # NULL
             PROVE  peer'[conn'[f]] # "open"
  BY DEF OnlyLeaversLeak
<1>1. CASE UNCHANGED <<conn, peer>> /\ Live' = Live
  BY <1>1 DEF OnlyLeaversLeak
<1>2. CASE Stop
  BY <1>2 DEF Stop
<1>3. ASSUME NEW g \in Fds, AcceptInto(g) PROVE peer'[conn'[f]] # "open"
  <2>1. Live' = Live \cup {g} /\ conn' = [conn EXCEPT ![g] = Head(backlog)]
    BY <1>3, AcceptStep
  <2>2. conn'[f] = conn[f] /\ f \notin Live
    BY <2>1 DEF Inv1, TypeOK
  <2> QED BY <1>3, <2>2 DEF AcceptInto, OnlyLeaversLeak
<1>4. CASE AcceptRefused
  BY <1>1, <1>4 DEF AcceptRefused, Live
<1>5. CASE RecvEnd \/ SendError
  <2>1. /\ Live' = Live \ {fd} /\ peer[Client] # "open" /\ UNCHANGED <<conn, peer>>
        /\ Handling
    BY <1>5, FreeStep
  <2>2. CASE f = fd
    BY <2>1, <2>2 DEF Client
  <2>3. CASE f # fd
    BY <2>1, <2>3 DEF OnlyLeaversLeak
  <2> QED BY <2>2, <2>3
<1>6. CASE Recv \/ Send \/ SendDone
  <2>1. Live' = Live
    BY <1>6, RecvStep, SendStep, SendDoneStep, HandlerStep
  <2> QED BY <1>1, <1>6, <2>1 DEF Recv, Send, SendDone
<1>7. ASSUME NEW c \in Clients, ClientStep(c) PROVE peer'[conn'[f]] # "open"
  <2>1. conn' = conn /\ Live' = Live /\ ClientMoves(c)
    BY <1>7, ClientSteps, ConnectionFacts, ClientsType DEF Inv1
  <2>2. conn[f] \in Clients /\ peer[conn[f]] # "idle" /\ peer[conn[f]] # "open"
    BY <2>1 DEF Inv1, TypeOK, Waiting, OnlyLeaversLeak
  <2> QED BY <2>1, <2>2, ClientsMonotone, ConnectionFacts DEF Inv1
<1> QED
  BY <1>1, <1>2, <1>3, <1>4, <1>5, <1>6, <1>7, QuietSteps, StopSteps
  DEF Next, ServerStep, Dispatch, do_accept, do_read, do_write

(* A descriptor that lost its line buffer is that of a client that left:   *)
(* what is never closed was of no use to a client that is there.           *)
THEOREM LeaversLeak == Spec => []OnlyLeaversLeak
<1>1. Init => OnlyLeaversLeak
  BY DEF Init, InitConnections, OnlyLeaversLeak
<1>2. Spec => [](Inv1 /\ OnlyLeaversLeak)
  BY <1>1, Inv1Init, Inv1Step, LeakStep, PTL DEF Spec
<1> QED BY <1>2, PTL

LEMMA StreamsStep == Inv2 /\ [Next]_vars => Streams'
<1> SUFFICES ASSUME Inv2, [Next]_vars PROVE Streams'
  OBVIOUS
<1> USE DEF Inv2
<1>0. /\ Inv1 /\ TypeOK /\ ConnectionsTypeOK /\ Waiting
      /\ stored \in [Clients -> Seq(Letters)]
      /\ \A f \in Live : f \in Fds /\ conn[f] \in Clients
      /\ \A f, g \in Live : conn[f] = conn[g] => f = g
  BY ConnectionFacts, LiveFacts DEF Inv1, Table, TypeOK
<1>1. CASE UNCHANGED <<state, stored, conn, backlog, peer, streams>>
  BY <1>1, StreamsKept DEF Live, streams
<1>2. ASSUME NEW c \in Clients, ClientStep(c) PROVE Streams'
  BY <1>0, <1>2, ClientSteps, StreamsClient
<1>3. CASE Stop
  BY <1>3, LiveStop, StreamsKept DEF Stop, streams
<1>4. CASE RecvEnd \/ SendError
  <2>1. /\ Live' = Live \ {fd} /\ \A g \in Live' : state'[g] = state[g]
        /\ UNCHANGED <<stored, conn, backlog, peer, echoed>>
    BY <1>0, <1>4, FreeStep DEF streams
  <2> QED BY <2>1, StreamsKept
<1>5. ASSUME NEW f \in Fds, AcceptInto(f) PROVE Streams'
  <2>1. /\ backlog # <<>> /\ Live' = Live \cup {f} /\ state'[f] = alloc_fd_state
        /\ \A g \in Live : state'[g] = state[g] /\ conn'[g] = conn[g]
        /\ conn' = [conn EXCEPT ![f] = Head(backlog)]
    BY <1>0, <1>5, AcceptStep
  <2>2. conn'[f] = Head(backlog)
    BY <1>0, <2>1 DEF TypeOK
  <2>3. backlog' = Tail(backlog) /\ UNCHANGED <<peer, stored, echoed>>
    BY <1>5 DEF AcceptInto, streams
  <2> QED BY <1>0, <2>1, <2>2, <2>3, StreamsAccept
<1>6. CASE AcceptRefused
  <2>1. backlog # <<>>
    BY <1>0, <1>6 DEF AcceptRefused, Inv1, ActiveEventsValid
  <2>2. /\ backlog' = Tail(backlog) /\ Live' = Live
        /\ UNCHANGED <<state, conn, peer, stored, echoed>>
    BY <1>6 DEF AcceptRefused, streams, Live
  <2> QED BY <1>0, <2>1, <2>2, StreamsAccept
<1>7. ASSUME Handling, NEW st \in FdState, state' = [state EXCEPT ![fd] = st],
             NEW ech \in Seq(Char), echoed' = [echoed EXCEPT ![Client] = ech],
             NEW sto \in Seq(Letters), stored' = [stored EXCEPT ![Client] = sto],
             Begins(ech, sto), Carries(st, ech, sto),
             UNCHANGED <<conn, backlog, peer>>
      PROVE  Streams'
  <2>1. fd \in Live /\ Client = conn[fd]
    BY <1>0, <1>7, HandlerFacts
  <2>2. /\ Live' = Live /\ state'[fd] = st
        /\ \A g \in Live : g # fd => state'[g] = state[g]
    BY <1>0, <1>7, HandlerStep
  <2> QED BY <1>0, <1>7, <2>1, <2>2, StreamsHandler
<1>8. ASSUME Handling
      PROVE  /\ fd \in Live /\ state[fd] \in FdState /\ CursorsInOrder(state[fd])
             /\ Client \in Clients
             /\ echoed[Client] \in Seq(Char) /\ stored[Client] \in Seq(Letters)
             /\ Begins(echoed[Client], stored[Client])
             /\ Carries(state[fd], echoed[Client], stored[Client])
  <2>1. /\ fd \in Live /\ state[fd] \in FdState /\ CursorsInOrder(state[fd])
        /\ Client \in Clients /\ Client = conn[fd]
    BY <1>0, <1>8, HandlerFacts
  <2> QED BY <1>0, <2>1 DEF Streams, TypeOK
<1>9. CASE Recv
  <2> DEFINE s == Chunk(Client)
             new == StoreChunk(state[fd], s)
             sto == stored[Client] \o Added(state[fd], s)
  <2>1. UNCHANGED <<conn, backlog, peer, echoed>>
    BY <1>9 DEF Recv
  <2>2. /\ Handling /\ s \in Seq(Letters) /\ new \in FdState /\ sto \in Seq(Letters)
        /\ state' = [state EXCEPT ![fd] = new]
        /\ stored' = [stored EXCEPT ![Client] = sto]
    BY <1>0, <1>9, RecvStep
  <2>3. Begins(echoed[Client], sto) /\ Carries(new, echoed[Client], sto)
    <3>1. Letters \in SUBSET Char
      BY ConnectionsAssumption
    <3> QED BY <1>8, <2>2, <3>1, CarriesStore
  <2>4. echoed' = [echoed EXCEPT ![Client] = echoed[Client]]
    BY <1>0, <1>8, <2>1, <2>2 DEF TypeOK
  <2> HIDE DEF s, new, sto
  <2> QED BY <1>7, <1>8, <2>1, <2>2, <2>3, <2>4
<1>10. CASE Send
  <2>1. Handling /\ UNCHANGED <<conn, backlog, peer, stored>>
    BY <1>10 DEF Send, Handling
  <2>2. PICK n \in 1 .. Unsent(state[fd]) :
           /\ Advance(state[fd], n) \in FdState
           /\ echoed[Client] \o Outgoing(state[fd], n) \in Seq(Char)
           /\ state' = [state EXCEPT ![fd] = Advance(state[fd], n)]
           /\ echoed' = [echoed EXCEPT ![Client] = @ \o Outgoing(state[fd], n)]
    BY <1>0, <1>10, SendStep
  <2> DEFINE ech == echoed[Client] \o Outgoing(state[fd], n)
             new == Advance(state[fd], n)
  <2>3. Begins(ech, stored[Client]) /\ Carries(new, ech, stored[Client])
    BY <1>8, <2>1, CarriesSend
  <2>4. stored' = [stored EXCEPT ![Client] = stored[Client]]
    BY <1>0, <1>8, <2>1 DEF TypeOK
  <2>5. ech \in Seq(Char) /\ echoed' = [echoed EXCEPT ![Client] = ech]
    BY <2>2
  <2> HIDE DEF ech, new
  <2> QED BY <1>7, <1>8, <2>1, <2>2, <2>3, <2>4, <2>5 DEF new
<1>11. CASE SendDone
  <2> DEFINE new == FinishWrite(state[fd], 1)
  <2>1. /\ pc = "send" /\ Unsent(state[fd]) <= 0
        /\ UNCHANGED <<conn, backlog, peer, stored, echoed>>
    BY <1>11 DEF SendDone, streams
  <2>2. Handling /\ new \in FdState /\ state' = [state EXCEPT ![fd] = new]
    BY <1>0, <1>11, SendDoneStep
  <2>3. Carries(new, echoed[Client], stored[Client])
    <3>1. /\ 1 \in Nat
          /\ state[fd].n_written = Len(state[fd].buffer) => 1 <= Len(state[fd].buffer)
      BY <1>0, <2>1, RewindsToOne
    <3> QED BY <1>8, <2>1, <2>2, <3>1, CarriesFinish
  <2>4. /\ stored' = [stored EXCEPT ![Client] = stored[Client]]
        /\ echoed' = [echoed EXCEPT ![Client] = echoed[Client]]
    BY <1>0, <1>8, <2>1, <2>2 DEF TypeOK
  <2> HIDE DEF new
  <2> QED BY <1>7, <1>8, <2>1, <2>2, <2>3, <2>4
<1>12. CASE \/ Poll \/ EndDispatch \/ (\E e \in Events : Callback(e))
            \/ AcceptFails \/ RecvAgain \/ SendAgain \/ UNCHANGED vars
  BY <1>1, <1>12, QuietSteps
<1> QED
  BY <1>2, <1>3, <1>4, <1>5, <1>6, <1>9, <1>10, <1>11, <1>12, StopSteps
  DEF Next, ServerStep, Dispatch, do_accept, do_read, do_write

LEMMA Inv2Invariant == Spec => []Inv2
<1>1. Init => Inv2
  <2> SUFFICES ASSUME Init PROVE Inv2
    OBVIOUS
  <2>1. Live = {} /\ Len(backlog) = 0
    BY EmptySeq DEF Init, InitConnections, Live
  <2>2. \A c \in Clients : Len(stored[c]) = 0 /\ Len(echoed[c]) = 0
    BY EmptySeq DEF Init, InitConnections
  <2> QED BY <2>1, <2>2, Inv1Init DEF Inv2, Streams, Begins
<1>2. Inv2 /\ [Next]_vars => Inv2'
  BY Inv1Step, StreamsStep DEF Inv2
<1> QED BY <1>1, <1>2, PTL DEF Spec

(* What a client is sent is the rot13 of the bytes stored for it, from the *)
(* first one on, although the buffer is rewound to 1 and keeps a stale     *)
(* byte at its beginning: that byte is never sent.                         *)
THEOREM EchoStaysFaithful == Spec => []EchoFaithful
<1>1. Inv2 => EchoFaithful
  BY ConnectionFacts, StreamsFaithful DEF Inv2, Inv1, TypeOK
<1> QED BY <1>1, Inv2Invariant, PTL

-----------------------------------------------------------------------------
(* What enters the line buffers.                                           *)

LEMMA IntactStep == Inv1 /\ Intact /\ [Next]_vars => Intact'
<1> SUFFICES ASSUME Inv1, Intact, [Next]_vars PROVE Intact'
  OBVIOUS
<1>0. /\ TypeOK /\ ConnectionsTypeOK /\ stored \in [Clients -> Seq(Letters)]
      /\ \A f \in Live : /\ f \in Fds /\ conn[f] \in Clients
                         /\ state[f] \in FdState /\ Len(state[f].buffer) \in Nat
  <2>1. \A f \in Live : f \in Fds /\ conn[f] \in Clients /\ state[f] \in FdState
    BY LiveFacts DEF Inv1, Table, TypeOK
  <2>2. \A f \in Live : Len(state[f].buffer) \in Nat
    BY <2>1, LenProperties DEF FdState
  <2> QED BY <2>1, <2>2, ConnectionFacts DEF Inv1, TypeOK
<1>1. ASSUME NEW c \in Clients, ClientStep(c) PROVE Intact'
  BY <1>0, <1>1, ClientSteps, IntactClient
<1>2. ASSUME UNCHANGED <<sent, rpos, stored>>,
             \A f \in Live' : /\ f \in Live /\ conn'[f] = conn[f]
                              /\ state'[f] = state[f]
      PROVE  Intact'
  BY <1>0, <1>2, IntactKept
<1>3. CASE \/ Poll \/ EndDispatch \/ (\E e \in Events : Callback(e))
           \/ AcceptFails \/ RecvAgain \/ SendAgain \/ UNCHANGED vars
  BY <1>2, <1>3, QuietSteps DEF streams
<1>4. CASE Stop
  BY <1>2, <1>4, LiveStop DEF Stop, streams
<1>5. CASE RecvEnd \/ SendError
  BY <1>2, <1>5, FreeStep DEF streams
<1>6. ASSUME NEW f \in Fds, AcceptInto(f) PROVE Intact'
  <2>1. /\ backlog # <<>> /\ Live' = Live \cup {f} /\ state'[f] = alloc_fd_state
        /\ \A g \in Live : conn'[g] = conn[g] /\ state'[g] = state[g]
        /\ conn' = [conn EXCEPT ![f] = Head(backlog)]
    BY <1>6, AcceptStep
  <2>2. conn'[f] \in Clients
    BY <1>0, <2>1, FirstWaiting DEF TypeOK, Inv1
  <2>3. \A g \in Live : Len(state'[g].buffer) <= Len(state[g].buffer)
    BY <1>0, <2>1
  <2>4. UNCHANGED <<sent, rpos, stored>>
    BY <1>6 DEF AcceptInto, streams
  <2> QED BY <1>0, <2>1, <2>2, <2>3, <2>4, IntactKept
<1>7. CASE AcceptRefused
  BY <1>2, <1>7 DEF AcceptRefused, Live, streams
<1>8. ASSUME Handling, NEW st \in FdState, state' = [state EXCEPT ![fd] = st]
      PROVE  /\ fd \in Live /\ state[fd] \in FdState /\ CursorsInOrder(state[fd])
             /\ Client = conn[fd]
             /\ Live' = Live /\ state'[fd] = st
             /\ \A g \in Live : g # fd => state'[g] = state[g]
  BY <1>8, HandlerFacts, HandlerStep
<1>9. CASE Recv
  <2>1. Inbound(Client) > 0 /\ UNCHANGED <<sent, conn>>
    BY <1>9 DEF Recv
  <2>2. /\ Handling /\ StoreChunk(state[fd], Chunk(Client)) \in FdState
        /\ state' = [state EXCEPT ![fd] = StoreChunk(state[fd], Chunk(Client))]
        /\ rpos' = [rpos EXCEPT ![Client] = @ + Len(Chunk(Client))]
        /\ stored' = [stored EXCEPT ![Client] = @ \o Added(state[fd], Chunk(Client))]
    BY <1>9, RecvStep
  <2> QED BY <1>0, <1>8, <2>1, <2>2, IntactStore
<1>10. ASSUME Handling, NEW st \in FdState, state' = [state EXCEPT ![fd] = st],
              Len(st.buffer) <= Len(state[fd].buffer),
              UNCHANGED <<conn, sent, rpos, stored>>
       PROVE  Intact'
  <2>1. \A g \in Live : /\ state'[g] \in FdState
                        /\ Len(state'[g].buffer) <= Len(state[g].buffer)
    BY <1>0, <1>8, <1>10
  <2> QED BY <1>0, <1>8, <1>10, <2>1, IntactKept
<1>11. CASE Send
  <2>1. Handling /\ UNCHANGED <<conn, sent, rpos, stored>>
    BY <1>11 DEF Send, Handling
  <2>2. PICK n \in 1 .. Unsent(state[fd]) :
           /\ Advance(state[fd], n) \in FdState
           /\ state' = [state EXCEPT ![fd] = Advance(state[fd], n)]
    BY <1>11, SendStep
  <2>3. Len(Advance(state[fd], n).buffer) <= Len(state[fd].buffer)
    <3>1. state[fd] \in FdState /\ Len(state[fd].buffer) \in Nat
      BY <1>0, <2>1, HandlerFacts
    <3> QED BY <3>1 DEF Advance, FdState
  <2> QED BY <1>10, <2>1, <2>2, <2>3
<1>12. CASE SendDone
  <2>1. pc = "send" /\ UNCHANGED <<conn, sent, rpos, stored>>
    BY <1>12 DEF SendDone, streams
  <2>2. /\ Handling /\ FinishWrite(state[fd], 1) \in FdState
        /\ state' = [state EXCEPT ![fd] = FinishWrite(state[fd], 1)]
    BY <1>12, SendDoneStep
  <2>3. Len(FinishWrite(state[fd], 1).buffer) <= Len(state[fd].buffer)
    BY <2>1, <2>2, HandlerFacts, RewindsToOne, FinishShrinks
  <2> QED BY <1>10, <2>1, <2>2, <2>3
<1> QED
  BY <1>1, <1>3, <1>4, <1>5, <1>6, <1>7, <1>9, <1>11, <1>12, StopSteps
  DEF Next, ServerStep, Dispatch, do_accept, do_read, do_write

(* Under libevent too, nothing of the first MAX_LINE bytes of a connection *)
(* is dropped: the stale byte that a rewound buffer keeps takes the place  *)
(* of one that was received.                                               *)
THEOREM NothingIsLostBelowMaxLine == Spec => []NothingLostBelowMaxLine
<1>1. Init => Intact
  <2> SUFFICES ASSUME Init PROVE Intact
    OBVIOUS
  <2>1. Live = {} /\ SubSeq(<<>>, 1, 0) = <<>> /\ Len(<<>>) = 0
    BY SubSeqEmpty, EmptySeq DEF Init, Live
  <2> QED BY <2>1 DEF Init, InitConnections, Intact, NothingLostBelowMaxLine
<1>2. Intact => NothingLostBelowMaxLine
  BY DEF Intact
<1> QED BY <1>1, <1>2, IntactStep, Inv1Invariant, PTL DEF Spec

-----------------------------------------------------------------------------
(* The refinement: every step of the server is one of LineEcho, or leaves  *)
(* what LineEcho sees as it is.                                            *)

Inv3 == Inv2 /\ Apart /\ Uncommitted

LEMMA RefineStep ==
    Inv3 /\ [Next]_vars => RefinesStep /\ Apart' /\ Uncommitted'
<1> SUFFICES ASSUME Inv3, [Next]_vars PROVE RefinesStep /\ Apart' /\ Uncommitted'
  OBVIOUS
<1> USE DEF Inv3, Inv2
<1>0. /\ TypeOK /\ ConnectionsTypeOK /\ Waiting /\ Inv1
      /\ stored \in [Clients -> Seq(Letters)]
  BY ConnectionFacts DEF Inv1, TypeOK
<1>1. ASSUME UNCHANGED <<stored, echoed>>,
             \A f \in Live' : f \in Live /\ conn'[f] = conn[f] /\ state'[f] = state[f],
             \A c \in Clients : NotYet(c)' => NotYet(c)
      PROVE  RefinesStep /\ Apart' /\ Uncommitted'
  BY <1>0, <1>1, RefineHangUp DEF RefinesStep
<1>2. ASSUME NEW c \in Clients, ClientStep(c)
      PROVE  RefinesStep /\ Apart' /\ Uncommitted'
  <2>1. ClientMoves(c) /\ UNCHANGED <<state, stored>> /\ conn' = conn /\ Live' = Live
    BY <1>0, <1>2, ClientSteps, ClientsType
  <2>2. UNCHANGED echoed
    BY <2>1 DEF ClientMoves, Connect, ClientSend, ClientShutdown, ClientReset, ClientRead
  <2>3. \A d \in Clients : NotYet(d)' => NotYet(d)
    BY <1>0, <2>1, NotYetClient
  <2> QED BY <1>1, <2>1, <2>2, <2>3
<1>3. CASE \/ Poll \/ EndDispatch \/ (\E e \in Events : Callback(e))
           \/ AcceptFails \/ RecvAgain \/ SendAgain \/ UNCHANGED vars
  <2>1. UNCHANGED <<state, conn, backlog, peer, stored, echoed>> /\ Live' = Live
    BY <1>3, QuietSteps DEF streams
  <2> QED BY <1>1, <2>1 DEF NotYet
<1>4. CASE Stop
  <2>1. backlog' = <<>> /\ UNCHANGED <<peer, stored, echoed>> /\ Live' = {}
    BY <1>4, LiveStop DEF Stop, streams
  <2>2. \A c \in Clients : NotYet(c)' => NotYet(c)
    BY <2>1, EmptySeq DEF NotYet
  <2> QED BY <1>1, <2>1, <2>2
<1>5. CASE RecvEnd \/ SendError
  <2>1. /\ Live' = Live \ {fd} /\ \A g \in Live' : state'[g] = state[g]
        /\ UNCHANGED <<stored, conn, backlog, peer, echoed>>
    BY <1>0, <1>5, FreeStep DEF streams
  <2> QED BY <1>1, <2>1 DEF NotYet
<1>6. ASSUME NEW f \in Fds, AcceptInto(f)
      PROVE  RefinesStep /\ Apart' /\ Uncommitted'
  <2>1. /\ backlog # <<>> /\ Live' = Live \cup {f} /\ f \notin Live
        /\ state'[f] = alloc_fd_state
        /\ \A g \in Live : conn'[g] = conn[g] /\ state'[g] = state[g]
        /\ conn' = [conn EXCEPT ![f] = Head(backlog)]
    BY <1>0, <1>6, AcceptStep
  <2>2. conn'[f] = Head(backlog)
    BY <1>0, <2>1 DEF TypeOK
  <2>3. backlog' = Tail(backlog) /\ UNCHANGED <<peer, stored, echoed>>
    BY <1>6 DEF AcceptInto, streams
  <2> QED BY <1>0, <2>1, <2>2, <2>3, RefineAccept DEF RefinesStep
<1>7. CASE AcceptRefused
  <2>1. /\ backlog # <<>> /\ backlog' = Tail(backlog)
        /\ UNCHANGED <<state, conn, peer, stored, echoed>>
    BY <1>0, <1>7 DEF AcceptRefused, Inv1, ActiveEventsValid, streams
  <2>2. \A c \in Clients : NotYet(c)' => NotYet(c)
    BY <1>0, <2>1, NotYetAccept
  <2> QED BY <1>1, <2>1, <2>2 DEF Live
<1>8. ASSUME Handling, NEW st \in FdState, state' = [state EXCEPT ![fd] = st]
      PROVE  /\ fd \in Live /\ state[fd] \in FdState /\ CursorsInOrder(state[fd])
             /\ Client = conn[fd] /\ Client \in Clients
             /\ Live' = Live /\ state'[fd] = st
             /\ \A g \in Live : g # fd => state'[g] = state[g]
  BY <1>0, <1>8, HandlerFacts, HandlerStep
<1>9. CASE Recv
  <2> DEFINE s == Chunk(Client)
             new == StoreChunk(state[fd], s)
  <2>1. Inbound(Client) > 0 /\ UNCHANGED <<conn, backlog, peer, echoed>>
    BY <1>9 DEF Recv
  <2>2. /\ Handling /\ s \in Seq(Letters) /\ new \in FdState
        /\ state' = [state EXCEPT ![fd] = new]
        /\ stored' = [stored EXCEPT ![Client] = @ \o Added(state[fd], s)]
    BY <1>0, <1>9, RecvStep
  <2>3. Len(s) <= RecvMax
    BY <1>0, <2>1, <2>2, HandlerFacts, ChunkFacts
  <2> HIDE DEF s
  <2>4. LE!Receive(conn[fd]) /\ Apart' /\ Uncommitted'
    BY <1>0, <1>8, <2>1, <2>2, <2>3, RefineStore
  <2> QED BY <1>8, <2>2, <2>4 DEF RefinesStep
<1>10. CASE Send
  <2>1. Handling /\ UNCHANGED <<conn, backlog, peer, stored>>
    BY <1>10 DEF Send, Handling
  <2>2. PICK n \in 1 .. Unsent(state[fd]) :
           /\ Advance(state[fd], n) \in FdState
           /\ state' = [state EXCEPT ![fd] = Advance(state[fd], n)]
           /\ echoed' = [echoed EXCEPT ![Client] = @ \o Outgoing(state[fd], n)]
    BY <1>0, <1>10, SendStep
  <2>3. LE!Echo(conn[fd]) /\ Apart' /\ Uncommitted'
    BY <1>0, <1>8, <2>1, <2>2, RefineSend
  <2> QED BY <1>8, <2>1, <2>2, <2>3 DEF RefinesStep
<1>11. CASE SendDone
  <2>1. /\ pc = "send" /\ Unsent(state[fd]) <= 0
        /\ UNCHANGED <<conn, backlog, peer, stored, echoed>>
    BY <1>11 DEF SendDone, streams
  <2>2. /\ Handling /\ FinishWrite(state[fd], 1) \in FdState
        /\ state' = [state EXCEPT ![fd] = FinishWrite(state[fd], 1)]
    BY <1>0, <1>11, SendDoneStep
  <2>3. /\ 1 \in Nat
        /\ state[fd].n_written = Len(state[fd].buffer) => 1 <= Len(state[fd].buffer)
    BY <1>0, <2>1, RewindsToOne
  <2> QED BY <1>0, <1>8, <2>1, <2>2, <2>3, RefineFinish DEF RefinesStep
<1> QED
  BY <1>2, <1>3, <1>4, <1>5, <1>6, <1>7, <1>9, <1>10, <1>11, StopSteps
  DEF Next, ServerStep, Dispatch, do_accept, do_read, do_write

(* Driven by events in any order, the handlers make the same line echo as  *)
(* under select: each step accepts bytes of one client, echoes committed   *)
(* ones, hangs up, or does none of these.                                  *)
THEOREM RefinesLineEcho == Spec => ImplementsLineEcho
<1>1. Init => LE!Init /\ Apart /\ Uncommitted
  <2> SUFFICES ASSUME Init PROVE LE!Init /\ Apart /\ Uncommitted
    OBVIOUS
  <2>1. Live = {} /\ stored = [c \in Clients |-> <<>>] /\ InitConnections
    BY DEF Init, Live
  <2> QED BY <2>1, RefineInit
<1>2. Inv3 /\ [Next]_vars => [LE!Next]_(LE!evars)
  BY RefineStep DEF RefinesStep, LE!Next
<1>3. Inv2 /\ Apart /\ Uncommitted /\ [Next]_vars => (Apart /\ Uncommitted)'
  BY RefineStep DEF Inv3
<1>4. Spec => [](Apart /\ Uncommitted)
  BY <1>1, <1>3, Inv2Invariant, PTL DEF Spec
<1>5. Inv2 /\ Apart /\ Uncommitted => Inv3
  BY DEF Inv3
<1> QED BY <1>1, <1>2, <1>4, <1>5, Inv2Invariant, PTL DEF Spec, ImplementsLineEcho, LE!Spec
=============================================================================
