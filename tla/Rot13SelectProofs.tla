------------------------- MODULE Rot13SelectProofs -------------------------
(***************************************************************************)
(* Proofs about Rot13Select, for every number of clients, every size of    *)
(* the line buffer, of the table and of the kernel's buffers.              *)
(***************************************************************************)
EXTENDS Rot13Select, LineServerProofs

(* The inductive invariant, in three layers. The first one relates the     *)
(* table to the descriptors and to the place that the loop has reached.    *)
Table ==
    /\ \A f \in Live : f \in Fds /\ conn[f] # NULL
    /\ \A f \in Fds : conn[f] # NULL => f \in Live \/ f = FdSetSize
    /\ \A f, g \in Fds : conn[f] # NULL /\ conn[f] = conn[g] => f = g

Ahead(f) ==
    /\ f \in readset \cup writeset
    /\ f # Listener
    /\ IF pc \in {"recv", "send"} THEN f > i ELSE f >= i

Handling == pc \in {"recv", "send"}

Phase ==
    /\ \A f \in readset : Ahead(f) => f \in Live /\ Readable(conn[f])
    /\ \A f \in writeset : Ahead(f) => f \in Live /\ Writable(conn[f])
    /\ Handling => i \in Live
    /\ pc = "accept" => backlog # <<>> /\ i = 0

(* The second layer is about the line buffers: outside of do_write, the    *)
(* flag says whether something is unsent, and a buffer that is sent whole  *)
(* is empty.                                                               *)
InWrite(f) == pc = "send" /\ i = f

Buffers == \A f \in Live : InWrite(f) \/ Settled(state[f], 0)

WriteSetWriting ==
    /\ \A f \in writeset : Ahead(f) \/ (Handling /\ f = i) => state[f].writing
    /\ pc = "send" => i \in writeset

(* The third is about the streams that run through the line buffers.       *)
Inv1 == TypeOK /\ CursorOrder /\ Table /\ Waiting /\ Phase
Inv2 == Inv1 /\ Buffers /\ WriteSetWriting
Inv3 == Inv2 /\ Streams

-----------------------------------------------------------------------------
(* Facts about a state.                                                    *)

LEMMA LiveFacts ==
    ASSUME TypeOK, NEW f \in Live
    PROVE  f \in Slots /\ state[f] \in FdState /\ f \in Nat /\ f # Listener /\ f # FdSetSize
BY SelectAssumption, ConnectionsAssumption DEF TypeOK, Live, Slots, Listener

LEMMA HandlerFacts ==
    ASSUME Inv1, Handling
    PROVE  /\ i \in Live /\ i \in Slots /\ i \in Fds
           /\ i \in Nat /\ i + 1 \in 0 .. NoFile
           /\ state[i] \in FdState /\ CursorsInOrder(state[i])
           /\ Client \in Clients /\ Client # NULL
<1>1. i \in Live
  BY DEF Inv1, Phase
<1>2. i \in Fds /\ conn[i] # NULL
  BY <1>1 DEF Inv1, Table
<1>3. i \in Slots /\ state[i] \in FdState /\ i \in Nat
  BY <1>1, LiveFacts DEF Inv1
<1>4. CursorsInOrder(state[i])
  BY <1>1 DEF Inv1, CursorOrder
<1>5. Client \in Clients /\ Client # NULL
  BY <1>2 DEF Inv1, TypeOK, Client
<1>6. i + 1 \in 0 .. NoFile
  BY <1>2, SelectAssumption, ConnectionsAssumption DEF Fds
<1> QED BY <1>1, <1>2, <1>3, <1>4, <1>5, <1>6

LEMMA ConnectionFacts ==
    /\ TypeOK => ConnectionsTypeOK
    /\ \A c \in Clients : ClientStep(c) => ClientMoves(c)
BY DEF TypeOK, ConnectionsTypeOK, ClientStep, ClientMoves

-----------------------------------------------------------------------------
(* Type correctness.                                                       *)

LEMMA TypeInit == Init => TypeOK
<1> SUFFICES ASSUME Init PROVE TypeOK
  OBVIOUS
<1>1. \A S : <<>> \in Seq(S)
  BY EmptySeq
<1> QED BY <1>1, SelectAssumption, ConnectionsAssumption DEF Init, InitConnections, TypeOK, PeerStates, Fds, Slots

LEMMA TypeStop == ASSUME TypeOK, Stop PROVE TypeOK'
<1>1. <<>> \in Seq(Clients)
  BY EmptySeq
<1> QED BY <1>1, SelectAssumption, ConnectionsAssumption DEF TypeOK, Stop, streams

LEMMA TypeDrop == ASSUME Inv1, Handling, Drop PROVE TypeOK'
<1>1. i + 1 \in 0 .. NoFile
  BY HandlerFacts
<1> QED BY <1>1 DEF Inv1, TypeOK, Drop, NextDescriptor, streams

LEMMA TypeStep == Inv1 /\ [Next]_vars => TypeOK'
<1> SUFFICES ASSUME Inv1, [Next]_vars PROVE TypeOK'
  OBVIOUS
<1> USE DEF Inv1
<1>1. ASSUME NEW c \in Clients, ClientStep(c) PROVE TypeOK'
  <2>0. UNCHANGED <<pc, i, readset, writeset, state, stored>>
    BY <1>1 DEF ClientStep, server
  <2> QED BY <1>1, <2>0, ConnectionFacts, ClientsType DEF ConnectionsTypeOK, TypeOK
<1>2. CASE Select
  <2>1. ReadyToRead \subseteq {Listener} \cup Slots /\ ReadyToWrite \subseteq Slots
    BY DEF ReadyToRead, ReadyToWrite, Live, TypeOK
  <2> QED BY <1>2, <2>1, SelectAssumption, ConnectionsAssumption DEF Select, TypeOK, streams
<1>3. CASE SelectFails
  BY <1>3, TypeStop DEF SelectFails
<1>4. CASE Accept
  <2> USE DEF TypeOK, streams
  <2>1. CASE AcceptFails
    BY <2>1 DEF AcceptFails
  <2>2. ASSUME NEW f \in Fds, AcceptInto(f) PROVE TypeOK'
    <3>1. Head(backlog) \in Clients /\ Tail(backlog) \in Seq(Clients)
      BY <2>2, HeadTailProperties DEF AcceptInto, Phase
    <3> QED BY <2>2, <3>1, AllocProperties DEF AcceptInto
  <2>3. CASE AcceptPastTable
    <3>1. Head(backlog) \in Clients /\ Tail(backlog) \in Seq(Clients)
      BY <2>3, HeadTailProperties DEF AcceptPastTable, Phase
    <3> QED BY <2>3, <3>1 DEF AcceptPastTable
  <2>4. CASE AcceptRefused
    <3>1. Tail(backlog) \in Seq(Clients)
      BY <2>4, HeadTailProperties DEF AcceptRefused, Phase
    <3> QED BY <2>4, <3>1 DEF AcceptRefused
  <2>5. CASE AcceptStops
    BY <2>5, TypeStop DEF AcceptStops
  <2> QED BY <1>4, <2>1, <2>2, <2>3, <2>4, <2>5 DEF Accept
<1>5. CASE Handle
  <2>1. ASSUME NEW f \in Slots, Serve(f) PROVE TypeOK'
    <3>1. f \in Live
      BY <2>1 DEF Serve, Pending, Phase, Ahead
    <3>2. f \in 0 .. NoFile
      BY <3>1, SelectAssumption, ConnectionsAssumption DEF Table, Fds
    <3> QED BY <2>1, <3>2 DEF Serve, TypeOK, streams
  <2>2. CASE EndLoop
    BY <2>2, SelectAssumption, ConnectionsAssumption DEF EndLoop, TypeOK, streams
  <2>3. CASE Recv
    <3> DEFINE s == Chunk(Client)
               a == Added(state[i], s)
    <3>1. Handling /\ Inbound(Client) > 0
      BY <2>3 DEF Recv, Handling
    <3>2. Client \in Clients /\ i \in Slots /\ state[i] \in FdState /\ CursorsInOrder(state[i])
      BY <3>1, HandlerFacts
    <3>3. s \in Seq(Letters) /\ s \in Seq(Char) /\ Len(s) \in Nat
      BY <3>1, <3>2, ChunkFacts, ConnectionFacts
    <3>4. StoreChunk(state[i], s) \in FdState
      BY <3>2, <3>3, StoreChunkProperties
    <3>5. a \in Seq(Letters)
      BY <3>2, <3>3, AddedProperties, SelectAssumption, ConnectionsAssumption
    <3>6. stored[Client] \o a \in Seq(Letters)
      BY <3>2, <3>5, ConcatProperties DEF TypeOK
    <3>7. /\ state' = [state EXCEPT ![i] = StoreChunk(@, s)]
          /\ rpos' = [rpos EXCEPT ![Client] = @ + Len(s)]
          /\ stored' = [stored EXCEPT ![Client] = @ \o a]
          /\ UNCHANGED <<pc, i, readset, writeset, conn, backlog, peer,
                         sent, echoed, drained>>
      BY <2>3 DEF Recv, Added
    <3> HIDE DEF s, a
    <3> QED BY <3>2, <3>3, <3>4, <3>6, <3>7 DEF TypeOK
  <2>4. CASE RecvAgain
    <3>1. i + 1 \in 0 .. NoFile
      BY <2>4, HandlerFacts DEF RecvAgain, Handling
    <3> QED BY <2>4, <3>1 DEF RecvAgain, NextDescriptor, TypeOK, streams
  <2>5. CASE RecvEnd
    BY <2>5, TypeDrop DEF RecvEnd, Handling
  <2>6. CASE Send
    <3>1. Handling
      BY <2>6 DEF Send, Handling
    <3>2. Client \in Clients /\ i \in Slots /\ state[i] \in FdState /\ CursorsInOrder(state[i])
      BY <3>1, HandlerFacts
    <3>3. PICK n \in 1 .. Least(SendRoom(Client), Unsent(state[i])) :
             /\ echoed' = [echoed EXCEPT ![Client] = @ \o Outgoing(state[i], n)]
             /\ state' = [state EXCEPT ![i] = Advance(@, n)]
      BY <2>6 DEF Send
    <3>4. n \in 1 .. Unsent(state[i])
      <4>1. SendRoom(Client) \in Int /\ Unsent(state[i]) \in Int
        BY <3>2, LenProperties, SelectAssumption, ConnectionsAssumption DEF SendRoom, Unsent, TypeOK, FdState
      <4> QED BY <4>1 DEF Least
    <3>5. Outgoing(state[i], n) \in Seq(Char) /\ Advance(state[i], n) \in FdState
      BY <3>2, <3>4, OutgoingProperties, AdvanceProperties
    <3>6. echoed[Client] \o Outgoing(state[i], n) \in Seq(Char)
      BY <3>2, <3>5, ConcatProperties DEF TypeOK
    <3> QED BY <2>6, <3>2, <3>3, <3>5, <3>6 DEF Send, TypeOK
  <2>7. CASE SendAgain
    <3>1. i + 1 \in 0 .. NoFile
      BY <2>7, HandlerFacts DEF SendAgain, Handling
    <3> QED BY <2>7, <3>1 DEF SendAgain, NextDescriptor, TypeOK, streams
  <2>8. CASE SendDone
    <3>1. i + 1 \in 0 .. NoFile /\ state[i] \in FdState /\ CursorsInOrder(state[i])
      BY <2>8, HandlerFacts DEF SendDone, Handling
    <3>2. FinishWrite(state[i], 0) \in FdState
      BY <2>8, <3>1, RewindsToZero, FinishWriteProperties DEF SendDone
    <3> QED BY <2>8, <3>1, <3>2 DEF SendDone, NextDescriptor, TypeOK, streams
  <2>9. CASE SendError
    BY <2>9, TypeDrop DEF SendError, Handling
  <2>10. CASE SendSignal
    BY <2>10, TypeStop DEF SendSignal
  <2> QED BY <1>5, <2>1, <2>2, <2>3, <2>4, <2>5, <2>6, <2>7, <2>8, <2>9, <2>10 DEF Handle
<1>6. CASE UNCHANGED vars
  BY <1>6 DEF vars, TypeOK
<1> QED BY <1>1, <1>2, <1>3, <1>4, <1>5, <1>6 DEF Next, ServerStep

-----------------------------------------------------------------------------
(* Which line buffers a step creates, changes and removes. Everything the  *)
(* later layers say of "state" rests on this classification.               *)

StateKept == state' = state
StateStopped == state' = [f \in Slots |-> NULL]
StateAdded(f) == /\ f \in Slots /\ f \notin Live
                 /\ state' = [state EXCEPT ![f] = alloc_fd_state]
StateDropped == /\ Handling
                /\ state' = [state EXCEPT ![i] = NULL]

LEMMA LiveKept == ASSUME StateKept PROVE Live' = Live
BY DEF StateKept, Live

LEMMA LiveStopped == ASSUME StateStopped PROVE Live' = {}
BY DEF StateStopped, Live

LEMMA LiveAdded ==
    ASSUME TypeOK, NEW f, StateAdded(f)
    PROVE  /\ Live' = Live \cup {f}
           /\ state'[f] = alloc_fd_state
           /\ \A g \in Live : g # f /\ state'[g] = state[g]
<1>1. alloc_fd_state # NULL
  BY AllocProperties, SelectAssumption, ConnectionsAssumption
<1> QED BY <1>1 DEF StateAdded, Live, TypeOK

LEMMA LiveDropped ==
    ASSUME TypeOK, StateDropped
    PROVE  /\ Live' = Live \ {i}
           /\ \A g \in Live' : state'[g] = state[g]
BY DEF StateDropped, Live, TypeOK

LEMMA LiveChanged ==
    ASSUME TypeOK, i \in Live, NEW st \in FdState,
           state' = [state EXCEPT ![i] = st]
    PROVE  /\ Live' = Live
           /\ state'[i] = st
           /\ \A g \in Live : g # i => state'[g] = state[g]
BY SelectAssumption, ConnectionsAssumption DEF Live, TypeOK

(* The steps that keep the table as it is.                                 *)
LEMMA QuietSteps ==
    ASSUME \/ \E c \in Clients : ClientStep(c)
           \/ Select \/ AcceptFails \/ AcceptPastTable \/ AcceptRefused
           \/ \E f \in Slots : Serve(f)
           \/ EndLoop \/ RecvAgain \/ SendAgain
           \/ UNCHANGED vars
    PROVE  StateKept
BY DEF StateKept, ClientStep, Connect, ClientSend, ClientShutdown, ClientReset,
       ClientRead, Select, AcceptFails, AcceptPastTable, AcceptRefused, Serve,
       EndLoop, RecvAgain, SendAgain, server, vars

LEMMA StopSteps ==
    ASSUME SelectFails \/ AcceptStops \/ SendSignal
    PROVE  Stop /\ StateStopped
BY DEF SelectFails, AcceptStops, SendSignal, Stop, StateStopped

LEMMA DropSteps ==
    ASSUME RecvEnd \/ SendError
    PROVE  Drop /\ Handling /\ StateDropped
BY DEF RecvEnd, SendError, Drop, Handling, StateDropped

LEMMA AcceptStep ==
    ASSUME Inv1, NEW f \in Fds, AcceptInto(f)
    PROVE  StateAdded(f) /\ conn[f] = NULL
<1>1. f \in Slots
  BY SelectAssumption, ConnectionsAssumption DEF AcceptInto, Fds, Slots
<1>2. conn[f] = NULL
  BY DEF AcceptInto, LowestFree, FreeFds
<1> QED BY <1>1, <1>2 DEF AcceptInto, StateAdded, Inv1, Table

LEMMA RecvStep ==
    ASSUME Inv1, Recv
    PROVE  LET s == Chunk(Client)
               new == StoreChunk(state[i], s) IN
           /\ s \in Seq(Letters) /\ s \in Seq(Char) /\ Len(s) \in Nat
           /\ new \in FdState
           /\ CursorsInOrder(new)
           /\ state' = [state EXCEPT ![i] = new]
           /\ stored' = [stored EXCEPT ![Client] = @ \o Added(state[i], s)]
<1> DEFINE s == Chunk(Client)
<1>1. Handling /\ Inbound(Client) > 0
  BY DEF Recv, Handling
<1>2. Client \in Clients /\ state[i] \in FdState /\ CursorsInOrder(state[i])
  BY <1>1, HandlerFacts
<1>3. s \in Seq(Letters) /\ s \in Seq(Char) /\ Len(s) \in Nat
  BY <1>1, <1>2, ChunkFacts, ConnectionFacts DEF Inv1
<1>4. /\ state' = [state EXCEPT ![i] = StoreChunk(state[i], s)]
      /\ stored' = [stored EXCEPT ![Client] = @ \o Added(state[i], s)]
  BY DEF Recv, Added
<1> QED BY <1>2, <1>3, <1>4, StoreChunkProperties

LEMMA SendStep ==
    ASSUME Inv1, Send
    PROVE  \E n \in 1 .. Unsent(state[i]) :
             /\ n <= SendRoom(Client)
             /\ Advance(state[i], n) \in FdState
             /\ CursorsInOrder(Advance(state[i], n))
             /\ state' = [state EXCEPT ![i] = Advance(state[i], n)]
             /\ echoed' = [echoed EXCEPT ![Client] = @ \o Outgoing(state[i], n)]
<1>1. Handling
  BY DEF Send, Handling
<1>2. Client \in Clients /\ state[i] \in FdState /\ CursorsInOrder(state[i])
  BY <1>1, HandlerFacts
<1>3. PICK n \in 1 .. Least(SendRoom(Client), Unsent(state[i])) :
         /\ echoed' = [echoed EXCEPT ![Client] = @ \o Outgoing(state[i], n)]
         /\ state' = [state EXCEPT ![i] = Advance(@, n)]
  BY DEF Send
<1>4. n \in 1 .. Unsent(state[i]) /\ n <= SendRoom(Client)
  <2>1. SendRoom(Client) \in Int /\ Unsent(state[i]) \in Int
    <3>1. /\ echoed[Client] \in Seq(Char) /\ drained[Client] \in Nat
          /\ state[i].write_upto \in Nat /\ state[i].n_written \in Nat
      BY <1>2 DEF Inv1, TypeOK, FdState
    <3>2. Len(echoed[Client]) \in Nat /\ SendCap \in Nat
      BY <3>1, LenProperties, ConnectionsAssumption
    <3> QED BY <3>1, <3>2 DEF SendRoom, Unsent
  <2> QED BY <2>1 DEF Least
<1> QED BY <1>2, <1>3, <1>4, AdvanceProperties

LEMMA SendDoneStep ==
    ASSUME Inv1, SendDone
    PROVE  /\ Handling
           /\ FinishWrite(state[i], 0) \in FdState
           /\ CursorsInOrder(FinishWrite(state[i], 0))
           /\ state' = [state EXCEPT ![i] = FinishWrite(state[i], 0)]
<1>1. Handling /\ Unsent(state[i]) <= 0
  BY DEF SendDone, Handling
<1>2. state[i] \in FdState /\ CursorsInOrder(state[i])
  BY <1>1, HandlerFacts
<1> QED BY <1>1, <1>2, RewindsToZero, FinishWriteProperties DEF SendDone

-----------------------------------------------------------------------------
(* The cursors.                                                            *)

LEMMA CursorStep == Inv1 /\ [Next]_vars => CursorOrder'
<1> SUFFICES ASSUME Inv1, [Next]_vars, NEW f \in Live'
             PROVE  CursorsInOrder(state'[f])
  BY DEF CursorOrder
<1>1. TypeOK /\ \A g \in Live : CursorsInOrder(state[g])
  BY DEF Inv1, CursorOrder
<1>2. CASE StateKept
  BY <1>1, <1>2, LiveKept DEF StateKept
<1>3. CASE StateStopped
  BY <1>3, LiveStopped
<1>4. ASSUME NEW g, StateAdded(g) PROVE CursorsInOrder(state'[f])
  BY <1>1, <1>4, LiveAdded, AllocProperties
<1>5. CASE StateDropped
  BY <1>1, <1>5, LiveDropped
<1>6. ASSUME Handling, NEW st \in FdState, CursorsInOrder(st), state' = [state EXCEPT ![i] = st]
      PROVE  CursorsInOrder(state'[f])
  BY <1>1, <1>6, LiveChanged, HandlerFacts
<1>7. CASE Recv
  BY <1>6, <1>7, RecvStep DEF Recv, Handling
<1>8. CASE Send
  BY <1>6, <1>8, SendStep DEF Send, Handling
<1>9. CASE SendDone
  BY <1>6, <1>9, SendDoneStep
<1>10. ASSUME NEW g \in Fds, AcceptInto(g) PROVE CursorsInOrder(state'[f])
  BY <1>4, <1>10, AcceptStep
<1> QED
  BY <1>2, <1>3, <1>5, <1>7, <1>8, <1>9, <1>10, QuietSteps, StopSteps, DropSteps
  DEF Next, ServerStep, Accept, Handle

-----------------------------------------------------------------------------
(* The descriptors.                                                        *)

(* The steps that open and close no descriptor and leave the backlog.      *)
LEMMA ConnKept ==
    ASSUME \/ \E c \in Clients : ClientStep(c) /\ ~ Connect(c)
           \/ Select \/ AcceptFails
           \/ \E f \in Slots : Serve(f)
           \/ EndLoop \/ Recv \/ RecvAgain \/ Send \/ SendAgain \/ SendDone
           \/ UNCHANGED vars
    PROVE  UNCHANGED <<conn, backlog>>
BY DEF ClientStep, ClientSend, ClientShutdown, ClientReset, ClientRead, Select,
       AcceptFails, Serve, EndLoop, Recv, RecvAgain, Send, SendAgain, SendDone,
       server, vars

(* The steps that leave the set of line buffers as it is.                  *)
LEMMA LiveSame ==
    ASSUME Inv1,
           \/ \E c \in Clients : ClientStep(c)
           \/ Select \/ AcceptFails \/ AcceptPastTable \/ AcceptRefused
           \/ \E f \in Slots : Serve(f)
           \/ EndLoop \/ Recv \/ RecvAgain \/ Send \/ SendAgain \/ SendDone
           \/ UNCHANGED vars
    PROVE  Live' = Live
<1>1. ASSUME Handling, NEW st \in FdState, state' = [state EXCEPT ![i] = st]
      PROVE  Live' = Live
  BY <1>1, LiveChanged, HandlerFacts DEF Inv1
<1>2. CASE Recv
  BY <1>1, <1>2, RecvStep DEF Recv, Handling
<1>3. CASE Send
  BY <1>1, <1>3, SendStep DEF Send, Handling
<1>4. CASE SendDone
  BY <1>1, <1>4, SendDoneStep
<1> QED BY <1>2, <1>3, <1>4, QuietSteps, LiveKept

LEMMA TableStep == Inv1 /\ [Next]_vars => Table'
<1> SUFFICES ASSUME Inv1, [Next]_vars PROVE Table'
  OBVIOUS
<1> USE DEF Inv1
<1>1. CASE Live' = Live /\ conn' = conn
  BY <1>1 DEF Table
<1>2. CASE Stop /\ StateStopped
  BY <1>2, LiveStopped DEF Stop, Table
<1>3. ASSUME NEW f \in Fds, AcceptInto(f) PROVE Table'
  <2>1. /\ Live' = Live \cup {f}
        /\ conn[f] = NULL
    BY <1>3, AcceptStep, LiveAdded
  <2>2. /\ conn' = [conn EXCEPT ![f] = Head(backlog)]
        /\ backlog # <<>>
    BY <1>3 DEF AcceptInto, Phase
  <2>3. /\ Head(backlog) \in Clients /\ Head(backlog) # NULL
        /\ \A g \in Fds : Head(backlog) # conn[g]
    BY <2>2, FirstWaiting, ConnectionFacts
  <2> QED BY <2>1, <2>2, <2>3 DEF Table, TypeOK
<1>4. CASE AcceptPastTable
  <2>1. Live' = Live /\ FdSetSize \in Fds /\ conn[FdSetSize] = NULL
    BY <1>4, LiveSame DEF AcceptPastTable, LowestFree, FreeFds
  <2>2. /\ conn' = [conn EXCEPT ![FdSetSize] = Head(backlog)]
        /\ backlog # <<>>
    BY <1>4 DEF AcceptPastTable, Phase
  <2>3. /\ Head(backlog) \in Clients /\ Head(backlog) # NULL
        /\ \A g \in Fds : Head(backlog) # conn[g]
    BY <2>2, FirstWaiting, ConnectionFacts
  <2>4. \A f \in Live : f # FdSetSize
    BY LiveFacts
  <2> QED BY <2>1, <2>2, <2>3, <2>4 DEF Table, TypeOK
<1>5. CASE Drop /\ Handling /\ StateDropped
  <2>1. Live' = Live \ {i} /\ conn' = [conn EXCEPT ![i] = NULL]
    BY <1>5, LiveDropped DEF Drop
  <2> QED BY <2>1 DEF Table, TypeOK
<1>6. ASSUME NEW c \in Clients, ClientStep(c), Connect(c)
      PROVE  Live' = Live /\ conn' = conn
  BY <1>6, LiveSame DEF Connect
<1>7. CASE AcceptRefused
  BY <1>1, <1>7, LiveSame DEF AcceptRefused
<1> QED
  BY <1>1, <1>2, <1>3, <1>4, <1>5, <1>6, <1>7, LiveSame, ConnKept, StopSteps, DropSteps
  DEF Next, ServerStep, Accept, Handle

LEMMA WaitingStep == Inv1 /\ [Next]_vars => Waiting'
<1> SUFFICES ASSUME Inv1, [Next]_vars PROVE Waiting'
  OBVIOUS
<1> USE DEF Inv1
<1>0. ConnectionsTypeOK
  BY ConnectionFacts
<1>1. ASSUME UNCHANGED <<conn, backlog>>,
             \A c \in Clients : peer[c] # "idle" => peer'[c] # "idle"
      PROVE  Waiting'
  BY <1>0, <1>1, WaitingKept
<1>2. ASSUME NEW c \in Clients, Connect(c) PROVE Waiting'
  BY <1>0, <1>2, WaitingConnect
<1>3. CASE Stop
  BY <1>3, WaitingStop DEF Stop
<1>4. CASE Drop /\ Handling
  <2>1. backlog' = backlog /\ peer' = peer /\ conn' = [conn EXCEPT ![i] = NULL]
    BY <1>4 DEF Drop, streams
  <2> QED BY <1>0, <2>1, WaitingKept DEF TypeOK
<1>5. ASSUME NEW c \in Clients, ClientStep(c), ~ Connect(c) PROVE Waiting'
  <2>1. \A d \in Clients : peer[d] # "idle" => peer'[d] # "idle"
    BY <1>0, <1>5, ConnectionFacts, ClientsMonotone
  <2> QED BY <1>1, <1>5, <2>1, ConnKept
<1>6. ASSUME \/ Select \/ AcceptFails \/ (\E f \in Slots : Serve(f)) \/ EndLoop
             \/ Recv \/ RecvAgain \/ Send \/ SendAgain \/ SendDone \/ UNCHANGED vars
      PROVE  Waiting'
  <2>1. peer' = peer
    BY <1>6 DEF Select, AcceptFails, Serve, EndLoop, Recv, RecvAgain, Send, SendAgain,
                SendDone, vars
  <2> QED BY <1>1, <1>6, <2>1, ConnKept
<1>7. CASE Accept
  <2>1. ASSUME NEW f \in Fds, AcceptInto(f) PROVE Waiting'
    BY <1>0, <2>1, WaitingAccept DEF AcceptInto, Phase
  <2>2. CASE AcceptPastTable
    BY <1>0, <2>2, WaitingAccept DEF AcceptPastTable, Phase, LowestFree, FreeFds
  <2>3. CASE AcceptRefused
    BY <1>0, <2>3, WaitingAccept DEF AcceptRefused, Phase
  <2> QED BY <1>3, <1>6, <1>7, <2>1, <2>2, <2>3, StopSteps DEF Accept
<1> QED
  BY <1>2, <1>3, <1>4, <1>5, <1>6, <1>7, StopSteps, DropSteps
  DEF Next, ServerStep, Handle

-----------------------------------------------------------------------------
(* The place that the loop has reached.                                    *)

LEMMA SetMembers ==
    ASSUME TypeOK, NEW f \in readset \cup writeset
    PROVE  f \in Nat /\ i \in Nat
BY SelectAssumption, ConnectionsAssumption DEF TypeOK, Slots, Listener

(* If a step keeps the sets, does not go back in them, and keeps what is   *)
(* ahead alive and ready, then the loop stays valid.                       *)
LEMMA AheadKept ==
    ASSUME Inv1,
           \A f \in Live : Ahead(f)' => f \in Live' /\ conn'[f] = conn[f],
           \A f \in Live : Ahead(f)' /\ f \in readset /\ Readable(conn[f]) => Readable(conn[f])',
           \A f \in Live : Ahead(f)' /\ f \in writeset /\ Writable(conn[f]) => Writable(conn[f])',
           UNCHANGED <<readset, writeset>>,
           \A f \in readset \cup writeset : Ahead(f)' => Ahead(f)
    PROVE  /\ \A f \in readset' : Ahead(f)' => f \in Live' /\ Readable(conn[f])'
           /\ \A f \in writeset' : Ahead(f)' => f \in Live' /\ Writable(conn[f])'
<1>1. ASSUME NEW f \in readset', Ahead(f)' PROVE f \in Live' /\ Readable(conn[f])'
  <2>1. f \in Live /\ f \in readset /\ Readable(conn[f])
    BY <1>1 DEF Inv1, Phase
  <2>2. conn'[f] = conn[f] /\ f \in Live' /\ Readable(conn[f])'
    BY <1>1, <2>1
  <2> QED BY <2>2
<1>2. ASSUME NEW f \in writeset', Ahead(f)' PROVE f \in Live' /\ Writable(conn[f])'
  <2>1. f \in Live /\ f \in writeset /\ Writable(conn[f])
    BY <1>2 DEF Inv1, Phase
  <2>2. conn'[f] = conn[f] /\ f \in Live' /\ Writable(conn[f])'
    BY <1>2, <2>1
  <2> QED BY <2>2
<1> QED BY <1>1, <1>2

(* A handler that returns leaves the descriptors after it as they were.    *)
LEMMA NextDescriptorAhead ==
    ASSUME TypeOK, Handling, NextDescriptor, UNCHANGED <<readset, writeset>>
    PROVE  /\ \A f \in readset \cup writeset : Ahead(f)' => Ahead(f) /\ f # i
           /\ ~ Handling' /\ pc' # "accept"
<1>1. ASSUME NEW f \in readset \cup writeset, Ahead(f)' PROVE Ahead(f) /\ f # i
  <2>1. f \in Nat /\ i \in Nat
    BY SetMembers
  <2>2. f # Listener /\ f >= i + 1
    BY <1>1 DEF Ahead, NextDescriptor
  <2>3. f > i /\ f # i
    BY <2>1, <2>2
  <2> QED BY <2>2, <2>3 DEF Ahead, Handling
<1> QED BY <1>1 DEF NextDescriptor, Handling

LEMMA PhaseStep == Inv1 /\ [Next]_vars => Phase'
<1> SUFFICES ASSUME Inv1, [Next]_vars PROVE Phase'
  OBVIOUS
<1> USE DEF Inv1
<1>0. /\ \A f \in Live : f \in Fds /\ conn[f] # NULL /\ conn[f] \in Clients /\ peer[conn[f]] # "idle"
      /\ \A f, g \in Live : conn[f] = conn[g] => f = g
  BY DEF Table, Waiting, TypeOK
<1>1. ASSUME NEW c \in Clients, ClientStep(c) PROVE Phase'
  <2>1. UNCHANGED <<pc, i, readset, writeset, conn>>
    BY <1>1 DEF ClientStep, Connect, ClientSend, ClientShutdown, ClientReset, ClientRead, server
  <2>2. Live' = Live
    BY <1>1, LiveSame
  <2>3. \A f \in Live : /\ Readable(conn[f]) => Readable(conn[f])'
                        /\ Writable(conn[f]) => Writable(conn[f])'
    <3>1. ASSUME NEW f \in Live
          PROVE  /\ Readable(conn[f]) => Readable(conn[f])'
                 /\ Writable(conn[f]) => Writable(conn[f])'
      <4> DEFINE d == conn[f]
      <4>1. d \in Clients /\ peer[d] # "idle"
        BY <1>0
      <4>2. conn'[f] = conn[f]
        BY <2>1
      <4>3. /\ Readable(conn[f]) => Readable(conn[f])'
            /\ Writable(conn[f]) => Writable(conn[f])'
        BY <1>1, <4>1, <4>2, ClientsMonotone, ConnectionFacts
           DEF Readable, Writable, Gone, Inbound, SendRoom
      <4> QED BY <4>3
    <3> QED BY <3>1
  <2>4. \A f \in readset \cup writeset : Ahead(f)' => Ahead(f)
    BY <2>1 DEF Ahead
  <2>5. backlog # <<>> => backlog' # <<>>
    <3>1. ASSUME Connect(c) PROVE backlog' # <<>>
      BY <3>1, AppendProperties DEF Connect, TypeOK
    <3>2. ASSUME ~ Connect(c) PROVE backlog' = backlog
      BY <1>1, <3>2, ConnKept
    <3> QED BY <3>1, <3>2
  <2>6. /\ \A f \in readset' : Ahead(f)' => f \in Live' /\ Readable(conn[f])'
        /\ \A f \in writeset' : Ahead(f)' => f \in Live' /\ Writable(conn[f])'
    BY <2>1, <2>2, <2>3, <2>4, AheadKept
  <2> QED BY <2>1, <2>2, <2>5, <2>6 DEF Phase, Handling
<1>2. CASE Select
  <2>1. /\ readset' = ReadyToRead /\ writeset' = ReadyToWrite
        /\ pc' = IF Listener \in ReadyToRead THEN "accept" ELSE "serve"
        /\ i' = 0
        /\ UNCHANGED <<state, conn, backlog, peer, sent, rpos, echoed, drained>>
    BY <1>2 DEF Select, streams
  <2>2. Live' = Live
    BY <2>1 DEF Live
  <2>3. \A f \in Live : Readable(conn[f])' = Readable(conn[f]) /\ Writable(conn[f])' = Writable(conn[f])
    BY <2>1 DEF Readable, Writable, Gone, Inbound, SendRoom
  <2>4. \A f \in readset' : f # Listener => f \in Live /\ Readable(conn[f])
    BY <2>1 DEF ReadyToRead
  <2>5. \A f \in writeset' : f \in Live /\ Writable(conn[f])
    BY <2>1 DEF ReadyToWrite
  <2>6. pc' = "accept" => backlog' # <<>>
    <3>1. \A f \in Live : f # Listener
      BY LiveFacts
    <3> QED BY <2>1, <3>1 DEF ReadyToRead
  <2> QED BY <2>1, <2>2, <2>3, <2>4, <2>5, <2>6 DEF Phase, Ahead, Handling
<1>3. CASE Stop
  BY <1>3 DEF Stop, Phase, Ahead, Handling
<1>4. ASSUME pc = "accept", pc' = "serve", UNCHANGED <<i, readset, writeset, peer, streams>>,
             \A f \in Live : f \in Live' /\ conn'[f] = conn[f]
      PROVE  Phase'
  <2>1. \A f \in Live : Readable(conn[f])' = Readable(conn[f]) /\ Writable(conn[f])' = Writable(conn[f])
    BY <1>4 DEF Readable, Writable, Gone, Inbound, SendRoom, streams
  <2>2. \A f \in readset \cup writeset : Ahead(f)' => Ahead(f)
    BY <1>4 DEF Ahead
  <2>3. /\ \A f \in readset' : Ahead(f)' => f \in Live' /\ Readable(conn[f])'
        /\ \A f \in writeset' : Ahead(f)' => f \in Live' /\ Writable(conn[f])'
    BY <1>4, <2>1, <2>2, AheadKept
  <2> QED BY <1>4, <2>3 DEF Phase, Handling
<1>5. CASE Accept
  <2>1. CASE AcceptFails
    BY <1>4, <2>1, LiveSame DEF AcceptFails
  <2>2. ASSUME NEW f \in Fds, AcceptInto(f) PROVE Phase'
    <3>1. Live' = Live \cup {f} /\ \A g \in Live : g # f
      BY <2>2, AcceptStep, LiveAdded
    <3>2. \A g \in Live : conn'[g] = conn[g]
      BY <2>2, <3>1 DEF AcceptInto, TypeOK, Table
    <3> QED BY <1>4, <2>2, <3>1, <3>2 DEF AcceptInto
  <2>3. CASE AcceptPastTable
    <3>1. Live' = Live /\ \A g \in Live : g # FdSetSize
      BY <2>3, LiveSame, LiveFacts
    <3>2. \A g \in Live : conn'[g] = conn[g]
      BY <2>3, <3>1 DEF AcceptPastTable, TypeOK, Table
    <3> QED BY <1>4, <2>3, <3>1, <3>2 DEF AcceptPastTable
  <2>4. CASE AcceptRefused
    BY <1>4, <2>4, LiveSame DEF AcceptRefused
  <2> QED BY <1>3, <1>5, <2>1, <2>2, <2>3, <2>4, StopSteps DEF Accept
<1>6. ASSUME NEW f \in Slots, Serve(f) PROVE Phase'
  <2>1. /\ pc = "serve" /\ f \in Pending /\ i' = f /\ pc' \in {"recv", "send"}
        /\ UNCHANGED <<readset, writeset, state, conn, backlog, peer, streams>>
    BY <1>6 DEF Serve
  <2>2. Ahead(f)
    BY <2>1 DEF Pending, Ahead
  <2>3. f \in Live /\ Live' = Live
    BY <2>1, <2>2 DEF Pending, Phase, Live
  <2>4. \A g \in Live : Readable(conn[g])' = Readable(conn[g]) /\ Writable(conn[g])' = Writable(conn[g])
    BY <2>1 DEF Readable, Writable, Gone, Inbound, SendRoom, streams
  <2>5. ASSUME NEW g \in readset \cup writeset, Ahead(g)' PROVE Ahead(g)
    <3>1. g \in Nat /\ i \in Nat /\ f \in Nat /\ f >= i
      BY <2>1, SetMembers DEF Pending
    <3>2. g # Listener /\ g > f
      BY <2>1, <2>5 DEF Ahead
    <3>3. g >= i
      BY <3>1, <3>2
    <3> QED BY <2>1, <3>2, <3>3 DEF Ahead
  <2>6. /\ \A g \in readset' : Ahead(g)' => g \in Live' /\ Readable(conn[g])'
        /\ \A g \in writeset' : Ahead(g)' => g \in Live' /\ Writable(conn[g])'
    BY <2>1, <2>3, <2>4, <2>5, AheadKept
  <2> QED BY <2>1, <2>3, <2>6 DEF Phase, Handling
<1>7. CASE EndLoop
  BY <1>7 DEF EndLoop, Phase, Ahead, Handling
<1>8. ASSUME Recv \/ Send PROVE Phase'
  <2>1. /\ Handling /\ UNCHANGED <<pc, i, readset, writeset, conn, backlog>>
        /\ \/ /\ UNCHANGED <<peer, sent, echoed, drained>>
              /\ \E n : rpos' = [rpos EXCEPT ![Client] = n]
           \/ /\ UNCHANGED <<peer, sent, rpos, drained>>
              /\ \E s : echoed' = [echoed EXCEPT ![Client] = s]
    BY <1>8 DEF Recv, Send, Handling
  <2>2. Live' = Live /\ i \in Live
    BY <1>8, <2>1, LiveSame, HandlerFacts
  <2>3. \A f \in readset \cup writeset : Ahead(f)' => Ahead(f) /\ f # i
    <3>1. \A f \in readset \cup writeset : Ahead(f) => f > i
      BY <2>1 DEF Ahead, Handling
    <3> QED BY <2>1, <3>1, SetMembers DEF Ahead
  <2>4. \A f \in Live : f # i => /\ Readable(conn[f])' = Readable(conn[f])
                                 /\ Writable(conn[f])' = Writable(conn[f])
    <3>1. ASSUME NEW f \in Live, f # i
          PROVE  /\ Readable(conn[f])' = Readable(conn[f])
                 /\ Writable(conn[f])' = Writable(conn[f])
      <4>1. conn[f] \in Clients /\ conn[f] # Client /\ conn'[f] = conn[f]
        BY <1>0, <2>1, <2>2, <3>1 DEF Client
      <4> QED BY <2>1, <4>1, OthersKept, ConnectionFacts DEF Readable, Writable, Gone, Inbound, SendRoom
    <3> QED BY <3>1
  <2>5. /\ \A f \in readset' : Ahead(f)' => f \in Live' /\ Readable(conn[f])'
        /\ \A f \in writeset' : Ahead(f)' => f \in Live' /\ Writable(conn[f])'
    <3>1. \A f \in readset' : Ahead(f)' => f \in Live /\ f # i /\ Readable(conn[f])
      BY <2>1, <2>3 DEF Phase
    <3>2. \A f \in writeset' : Ahead(f)' => f \in Live /\ f # i /\ Writable(conn[f])
      BY <2>1, <2>3 DEF Phase
    <3> QED BY <2>2, <2>4, <3>1, <3>2
  <2> QED BY <2>1, <2>2, <2>5 DEF Phase, Handling
<1>9. ASSUME Handling, NextDescriptor, UNCHANGED <<readset, writeset, peer, streams>>,
             \A f \in Live : f # i => f \in Live' /\ conn'[f] = conn[f]
      PROVE  Phase'
  <2>1. /\ \A f \in readset \cup writeset : Ahead(f)' => Ahead(f) /\ f # i
        /\ ~ Handling' /\ pc' # "accept"
    BY <1>9, NextDescriptorAhead
  <2>2. \A f \in Live : f # i => /\ Readable(conn[f])' = Readable(conn[f])
                                 /\ Writable(conn[f])' = Writable(conn[f])
    BY <1>9 DEF Readable, Writable, Gone, Inbound, SendRoom, streams
  <2>3. \A f \in readset' : Ahead(f)' => f \in Live /\ f # i /\ Readable(conn[f])
    BY <1>9, <2>1 DEF Phase
  <2>4. \A f \in writeset' : Ahead(f)' => f \in Live /\ f # i /\ Writable(conn[f])
    BY <1>9, <2>1 DEF Phase
  <2> QED BY <1>9, <2>1, <2>2, <2>3, <2>4 DEF Phase
<1>10. CASE RecvAgain
  <2>1. CASE i \in writeset
    <3>1. /\ pc = "recv" /\ pc' = "send" /\ i' = i
          /\ UNCHANGED <<readset, writeset, state, conn, backlog, peer, streams>>
      BY <1>10, <2>1 DEF RecvAgain
    <3>2. Live' = Live
      BY <3>1 DEF Live
    <3>3. \A f \in Live : Readable(conn[f])' = Readable(conn[f]) /\ Writable(conn[f])' = Writable(conn[f])
      BY <3>1 DEF Readable, Writable, Gone, Inbound, SendRoom, streams
    <3>4. \A f \in readset \cup writeset : Ahead(f)' => Ahead(f)
      BY <3>1 DEF Ahead
    <3>5. /\ \A f \in readset' : Ahead(f)' => f \in Live' /\ Readable(conn[f])'
          /\ \A f \in writeset' : Ahead(f)' => f \in Live' /\ Writable(conn[f])'
      BY <3>1, <3>2, <3>3, <3>4, AheadKept
    <3> QED BY <3>1, <3>2, <3>5 DEF Phase, Handling
  <2>2. CASE i \notin writeset
    BY <1>9, <1>10, <2>2, LiveSame DEF RecvAgain, Handling
  <2> QED BY <2>1, <2>2
<1>11. CASE SendAgain
  BY <1>9, <1>11, LiveSame DEF SendAgain, Handling
<1>12. CASE SendDone
  BY <1>9, <1>12, LiveSame DEF SendDone, Handling
<1>13. CASE Drop /\ Handling /\ StateDropped
  <2>1. Live' = Live \ {i} /\ conn' = [conn EXCEPT ![i] = NULL]
    BY <1>13, LiveDropped DEF Drop
  <2>2. \A f \in Live : f # i => f \in Live' /\ conn'[f] = conn[f]
    BY <1>0, <2>1 DEF TypeOK
  <2> QED BY <1>9, <1>13, <2>2 DEF Drop
<1>14. CASE UNCHANGED vars
  BY <1>14 DEF vars, Phase, Ahead, Handling, Live, Readable, Writable, Gone, Inbound, SendRoom
<1> QED
  BY <1>1, <1>2, <1>3, <1>5, <1>6, <1>7, <1>8, <1>10, <1>11, <1>12, <1>13, <1>14,
     StopSteps, DropSteps DEF Next, ServerStep, Handle

-----------------------------------------------------------------------------
(* The first layer is an invariant.                                        *)

LEMMA Inv1Init == Init => Inv1
<1> SUFFICES ASSUME Init PROVE Inv1
  OBVIOUS
<1>1. Live = {}
  BY DEF Init, InitConnections, Live
<1>2. Len(backlog) = 0
  BY EmptySeq DEF Init, InitConnections
<1>3. Table /\ Waiting
  BY <1>1, <1>2 DEF Init, InitConnections, Table, Waiting
<1>4. Phase
  BY DEF Init, InitConnections, Phase, Handling
<1>5. CursorOrder
  BY <1>1 DEF CursorOrder
<1> QED BY <1>3, <1>4, <1>5, TypeInit DEF Inv1

LEMMA Inv1Step == Inv1 /\ [Next]_vars => Inv1'
BY TypeStep, CursorStep, TableStep, WaitingStep, PhaseStep DEF Inv1

LEMMA Inv1Invariant == Spec => []Inv1
BY Inv1Init, Inv1Step, PTL DEF Spec

(* Every variable keeps its type, whatever the clients do.                 *)
THEOREM TypeCorrect == Spec => []TypeOK
<1>1. Inv1 => TypeOK
  BY DEF Inv1
<1> QED BY <1>1, Inv1Invariant, PTL

(* The cursors of every line buffer stay in order and within MAX_LINE:     *)
(* do_read never stores past the array, do_write never sends past what was *)
(* stored, for buffers of any size and any interleaving.                   *)
THEOREM CursorsStayInOrder == Spec => []CursorOrder
<1>1. Inv1 => CursorOrder
  BY DEF Inv1
<1> QED BY <1>1, Inv1Invariant, PTL

(* Descriptors and line buffers correspond, but for descriptor FD_SETSIZE, *)
(* and no client is behind two descriptors.                                *)
THEOREM DescriptorsStayAccounted == Spec => []DescriptorsAccounted
<1>1. Inv1 => DescriptorsAccounted
  <2> SUFFICES ASSUME Inv1 PROVE DescriptorsAccounted
    OBVIOUS
  <2>1. \A f \in Live : f # FdSetSize
    BY LiveFacts DEF Inv1
  <2> QED BY <2>1 DEF Inv1, Table, DescriptorsAccounted
<1> QED BY <1>1, Inv1Invariant, PTL

(* No handler is ever called with a NULL line buffer, and what select      *)
(* reported as ready still is when its turn comes.                         *)
THEOREM ReadySetsStayValid == Spec => []ReadySetsValid
<1>1. Inv1 => ReadySetsValid
  <2> SUFFICES ASSUME Inv1 PROVE ReadySetsValid
    OBVIOUS
  <2>1. pc = "serve" => \A f \in Pending : Ahead(f)
    BY DEF Pending, Ahead
  <2> QED BY <2>1 DEF Inv1, Phase, ReadySetsValid, Pending, Handling
<1> QED BY <1>1, Inv1Invariant, PTL

-----------------------------------------------------------------------------
(* The second layer: the flag "writing".                                   *)

LEMMA WriteSetStep == Inv2 /\ [Next]_vars => WriteSetWriting'
<1> SUFFICES ASSUME Inv2, [Next]_vars PROVE WriteSetWriting'
  OBVIOUS
<1> USE DEF Inv2
<1>0. TypeOK /\ \A f \in writeset : Ahead(f) => f \in Live
  BY DEF Inv1, Phase
<1>1. ASSUME UNCHANGED <<pc, i, readset, writeset>>,
             \A f \in Live : f \in Live' /\ (state[f].writing => state'[f].writing)
      PROVE  WriteSetWriting'
  <2>1. \A f \in writeset : Ahead(f)' <=> Ahead(f)
    BY <1>1 DEF Ahead
  <2>2. Handling => i \in Live
    BY DEF Inv1, Phase
  <2> QED BY <1>0, <1>1, <2>1, <2>2 DEF WriteSetWriting, Handling
<1>2. ASSUME NEW c \in Clients, ClientStep(c) PROVE WriteSetWriting'
  <2>1. UNCHANGED <<pc, i, readset, writeset, state>>
    BY <1>2 DEF ClientStep, Connect, ClientSend, ClientShutdown, ClientReset, ClientRead, server
  <2> QED BY <1>1, <2>1 DEF Live
<1>3. CASE Select
  BY <1>3 DEF Select, ReadyToWrite, WriteSetWriting, Handling
<1>4. CASE Stop
  BY <1>4 DEF Stop, WriteSetWriting, Handling
<1>5. ASSUME pc = "accept", pc' = "serve", UNCHANGED <<i, readset, writeset>>,
             \A f \in Live : state'[f] = state[f]
      PROVE  WriteSetWriting'
  <2>1. \A f \in writeset : Ahead(f)' => Ahead(f)
    BY <1>5 DEF Ahead
  <2> QED BY <1>0, <1>5, <2>1 DEF WriteSetWriting, Handling
<1>6. CASE Accept
  <2>1. ASSUME NEW f \in Fds, AcceptInto(f) PROVE WriteSetWriting'
    <3>1. \A g \in Live : state'[g] = state[g]
      BY <2>1, AcceptStep, LiveAdded DEF Inv1
    <3> QED BY <1>5, <2>1, <3>1 DEF AcceptInto
  <2>2. CASE AcceptFails \/ AcceptPastTable \/ AcceptRefused
    BY <1>5, <2>2 DEF AcceptFails, AcceptPastTable, AcceptRefused
  <2> QED BY <1>4, <1>6, <2>1, <2>2, StopSteps DEF Accept
<1>7. ASSUME NEW f \in Slots, Serve(f) PROVE WriteSetWriting'
  <2>1. /\ pc = "serve" /\ f \in Pending /\ i' = f
        /\ pc' = IF f \in readset THEN "recv" ELSE "send"
        /\ UNCHANGED <<readset, writeset, state>>
    BY <1>7 DEF Serve
  <2>2. f \in readset \cup writeset /\ f # Listener /\ f >= i
    BY <2>1 DEF Pending
  <2>3. \A g \in writeset : Ahead(g)' \/ g = f => Ahead(g)
    <3>1. ASSUME NEW g \in writeset, Ahead(g)' \/ g = f PROVE Ahead(g)
      <4>1. g \in Nat /\ i \in Nat /\ f \in Nat
        BY <1>0, <2>2, SetMembers
      <4>2. g # Listener /\ g >= f
        BY <2>1, <2>2, <3>1, <4>1 DEF Ahead
      <4>3. g >= i
        BY <2>2, <4>1, <4>2
      <4> QED BY <2>1, <4>2, <4>3 DEF Ahead
    <3> QED BY <3>1
  <2> QED BY <2>1, <2>2, <2>3 DEF WriteSetWriting, Handling
<1>8. CASE EndLoop
  BY <1>8 DEF EndLoop, WriteSetWriting, Handling
<1>9. CASE Recv
  <2>1. i \in Live /\ state[i] \in FdState /\ CursorsInOrder(state[i])
    BY <1>9, HandlerFacts DEF Recv, Handling
  <2>2. /\ Chunk(Client) \in Seq(Char)
        /\ StoreChunk(state[i], Chunk(Client)) \in FdState
        /\ state' = [state EXCEPT ![i] = StoreChunk(state[i], Chunk(Client))]
    BY <1>9, RecvStep
  <2>3. state[i].writing => StoreChunk(state[i], Chunk(Client)).writing
    BY <2>1, <2>2, StoreChunkProperties
  <2>4. /\ Live' = Live
        /\ state'[i] = StoreChunk(state[i], Chunk(Client))
        /\ \A g \in Live : g # i => state'[g] = state[g]
    BY <1>0, <2>1, <2>2, LiveChanged
  <2> QED BY <1>1, <1>9, <2>3, <2>4 DEF Recv
<1>10. CASE Send
  <2>1. i \in Live /\ state[i] \in FdState
    BY <1>10, HandlerFacts DEF Send, Handling
  <2>2. PICK n \in 1 .. Unsent(state[i]) :
           /\ Advance(state[i], n) \in FdState
           /\ state' = [state EXCEPT ![i] = Advance(state[i], n)]
    BY <1>10, SendStep
  <2>3. Advance(state[i], n).writing = state[i].writing
    BY <2>1 DEF Advance, FdState
  <2>4. /\ Live' = Live
        /\ state'[i] = Advance(state[i], n)
        /\ \A g \in Live : g # i => state'[g] = state[g]
    BY <1>0, <2>1, <2>2, LiveChanged
  <2> QED BY <1>1, <1>10, <2>3, <2>4 DEF Send
<1>11. ASSUME Handling, NextDescriptor, UNCHANGED <<readset, writeset>>,
              \A f \in Live : f # i => state'[f] = state[f]
       PROVE  WriteSetWriting'
  <2>1. /\ \A f \in readset \cup writeset : Ahead(f)' => Ahead(f) /\ f # i
        /\ ~ Handling' /\ pc' = "serve"
    BY <1>0, <1>11, NextDescriptorAhead DEF NextDescriptor
  <2> QED BY <1>0, <1>11, <2>1 DEF WriteSetWriting
<1>12. CASE RecvAgain
  <2>1. CASE i \in writeset
    <3>1. /\ pc = "recv" /\ pc' = "send" /\ i' = i
          /\ UNCHANGED <<readset, writeset, state>>
      BY <1>12, <2>1 DEF RecvAgain
    <3>2. \A f \in writeset : Ahead(f)' => Ahead(f)
      BY <3>1 DEF Ahead
    <3> QED BY <2>1, <3>1, <3>2 DEF WriteSetWriting, Handling
  <2>2. CASE i \notin writeset
    BY <1>11, <1>12, <2>2 DEF RecvAgain, Handling
  <2> QED BY <2>1, <2>2
<1>13. CASE SendAgain
  BY <1>11, <1>13 DEF SendAgain, Handling
<1>14. CASE SendDone
  <2>1. i \in Live /\ FinishWrite(state[i], 0) \in FdState
        /\ state' = [state EXCEPT ![i] = FinishWrite(state[i], 0)]
    BY <1>14, SendDoneStep, HandlerFacts
  <2>2. \A g \in Live : g # i => state'[g] = state[g]
    BY <1>0, <2>1, LiveChanged
  <2> QED BY <1>11, <1>14, <2>2 DEF SendDone, Handling
<1>15. CASE Drop /\ Handling
  <2>1. \A g \in Live : g # i => state'[g] = state[g]
    BY <1>0, <1>15 DEF Drop, Live, TypeOK
  <2> QED BY <1>11, <1>15, <2>1 DEF Drop
<1>16. CASE UNCHANGED vars
  BY <1>1, <1>16 DEF vars, Live
<1> QED
  BY <1>2, <1>3, <1>4, <1>6, <1>7, <1>8, <1>9, <1>10, <1>12, <1>13, <1>14, <1>15, <1>16,
     StopSteps, DropSteps DEF Next, ServerStep, Handle

LEMMA BuffersStep == Inv2 /\ [Next]_vars => Buffers'
<1> SUFFICES ASSUME Inv2, [Next]_vars, NEW f \in Live'
             PROVE  InWrite(f)' \/ Settled(state'[f], 0)
  BY DEF Buffers, Settled, Unsent
<1> USE DEF Inv2
<1>0. TypeOK /\ \A g \in Live : CursorsInOrder(state[g])
  BY DEF Inv1, CursorOrder
<1>1. ASSUME f \in Live, state'[f] = state[f], InWrite(f) => InWrite(f)'
      PROVE  InWrite(f)' \/ Settled(state'[f], 0)
  BY <1>1 DEF Buffers
<1>2. ASSUME StateKept, InWrite(f) => InWrite(f)'
      PROVE  InWrite(f)' \/ Settled(state'[f], 0)
  BY <1>1, <1>2, LiveKept DEF StateKept
<1>3. CASE StateStopped
  BY <1>3, LiveStopped
<1>4. ASSUME NEW g \in Fds, AcceptInto(g)
      PROVE  Settled(state'[f], 0)
  <2>1. Settled(alloc_fd_state, 0)
    BY AllocProperties, EmptySeq DEF Settled, alloc_fd_state
  <2>2. f = g \/ f \in Live
    BY <1>0, <1>4, AcceptStep, LiveAdded
  <2>3. state'[g] = alloc_fd_state
    BY <1>0, <1>4, AcceptStep, LiveAdded
  <2>4. f \in Live => state'[f] = state[f] /\ ~ InWrite(f)
    BY <1>0, <1>4, AcceptStep, LiveAdded DEF AcceptInto, InWrite
  <2> QED BY <2>1, <2>2, <2>3, <2>4 DEF Buffers
<1>5. ASSUME NEW c \in Clients, ClientStep(c) PROVE InWrite(f)' \/ Settled(state'[f], 0)
  <2>1. UNCHANGED <<pc, i>>
    BY <1>5 DEF ClientStep, Connect, ClientSend, ClientShutdown, ClientReset, ClientRead, server
  <2> QED BY <1>2, <1>5, <2>1, QuietSteps DEF InWrite
<1>6. ASSUME \/ Select \/ AcceptFails \/ AcceptPastTable \/ AcceptRefused
             \/ \E g \in Slots : Serve(g)
             \/ EndLoop \/ RecvAgain
      PROVE  ~ InWrite(f)
  BY <1>6 DEF Select, AcceptFails, AcceptPastTable, AcceptRefused, Serve, EndLoop,
              RecvAgain, InWrite
<1>7. CASE SendAgain
  <2>1. i \in Live /\ state[i] \in FdState /\ CursorsInOrder(state[i])
    BY <1>7, HandlerFacts DEF SendAgain, Handling
  <2>2. state[i].writing /\ Unsent(state[i]) > 0
    BY <1>7 DEF SendAgain, WriteSetWriting, Handling
  <2>3. state[i].n_written # Len(state[i].buffer)
    <3>1. /\ state[i].n_written \in Nat /\ state[i].write_upto \in Nat
          /\ Len(state[i].buffer) \in Nat
      BY <2>1, LenProperties DEF FdState
    <3> QED BY <2>1, <2>2, <3>1 DEF Unsent, CursorsInOrder
  <2>4. Settled(state[i], 0)
    BY <2>2, <2>3 DEF Settled
  <2>5. state' = state /\ f \in Live
    BY <1>7, QuietSteps, LiveKept DEF StateKept
  <2>6. f # i => ~ InWrite(f)
    BY DEF InWrite
  <2> QED BY <2>4, <2>5, <2>6 DEF Buffers
<1>8. ASSUME Handling, NEW st \in FdState, state' = [state EXCEPT ![i] = st],
             i \in Live, f # i
      PROVE  Settled(state'[f], 0)
  BY <1>0, <1>8, LiveChanged DEF Buffers, InWrite
<1>9. ASSUME Handling, NEW st \in FdState, state' = [state EXCEPT ![i] = st], i \in Live
      PROVE  state'[i] = st
  BY <1>0, <1>9, LiveChanged
<1>10. CASE Recv
  <2>1. /\ Handling /\ i \in Live /\ state[i] \in FdState /\ CursorsInOrder(state[i])
        /\ ~ InWrite(i)
    BY <1>10, HandlerFacts DEF Recv, Handling, InWrite
  <2>2. Settled(state[i], 0)
    BY <2>1 DEF Buffers
  <2>3. /\ Chunk(Client) \in Seq(Char)
        /\ StoreChunk(state[i], Chunk(Client)) \in FdState
        /\ state' = [state EXCEPT ![i] = StoreChunk(state[i], Chunk(Client))]
    BY <1>10, RecvStep
  <2>4. Settled(StoreChunk(state[i], Chunk(Client)), 0)
    BY <2>1, <2>2, <2>3, RewindsToZero, SettledStore
  <2> QED BY <1>8, <1>9, <2>1, <2>3, <2>4
<1>11. CASE Send
  <2>1. Handling /\ i \in Live
    BY <1>11, HandlerFacts DEF Send, Handling
  <2>2. PICK n \in 1 .. Unsent(state[i]) :
           /\ Advance(state[i], n) \in FdState
           /\ state' = [state EXCEPT ![i] = Advance(state[i], n)]
    BY <1>11, SendStep
  <2>3. f = i => InWrite(f)'
    BY <1>11 DEF Send, InWrite
  <2> QED BY <1>8, <2>1, <2>2, <2>3
<1>12. CASE SendDone
  <2>1. /\ Handling /\ i \in Live /\ state[i] \in FdState /\ CursorsInOrder(state[i])
        /\ Unsent(state[i]) <= 0
    BY <1>12, HandlerFacts DEF SendDone, Handling
  <2>2. /\ FinishWrite(state[i], 0) \in FdState
        /\ state' = [state EXCEPT ![i] = FinishWrite(state[i], 0)]
    BY <1>12, SendDoneStep
  <2>3. Settled(FinishWrite(state[i], 0), 0)
    BY <2>1, RewindsToZero, SettledFinish
  <2> QED BY <1>8, <1>9, <2>1, <2>2, <2>3
<1>13. CASE Drop /\ Handling /\ StateDropped
  <2>1. f \in Live /\ f # i /\ state'[f] = state[f]
    BY <1>0, <1>13, LiveDropped
  <2> QED BY <1>1, <2>1 DEF InWrite
<1>14. CASE UNCHANGED vars
  BY <1>2, <1>14, QuietSteps DEF vars, InWrite
<1> QED
  BY <1>2, <1>3, <1>4, <1>5, <1>6, <1>7, <1>10, <1>11, <1>12, <1>13, <1>14,
     QuietSteps, StopSteps, DropSteps DEF Next, ServerStep, Accept, Handle

LEMMA Inv2Invariant == Spec => []Inv2
<1>1. Init => Inv2
  BY Inv1Init DEF Init, InitConnections, Inv2, Buffers, WriteSetWriting, Live, Handling
<1>2. Inv2 /\ [Next]_vars => Inv2'
  BY Inv1Step, BuffersStep, WriteSetStep DEF Inv2
<1> QED BY <1>1, <1>2, PTL DEF Spec

(* Between two calls of do_write, the flag "writing" says exactly whether  *)
(* committed bytes are unsent: no line waits without select being asked,   *)
(* even when the newline that committed it found the buffer full.          *)
THEOREM WritingStaysIffPending == Spec => []WritingIffPending
<1>1. Inv2 => WritingIffPending
  BY DEF Inv2, Buffers, Settled, InWrite, WritingIffPending
<1> QED BY <1>1, Inv2Invariant, PTL

-----------------------------------------------------------------------------
(* The third layer: what is echoed.                                        *)

LEMMA StreamsStep == Inv3 /\ [Next]_vars => Streams'
<1> SUFFICES ASSUME Inv3, [Next]_vars PROVE Streams'
  OBVIOUS
<1> USE DEF Inv3, Inv2
<1>0. /\ TypeOK /\ ConnectionsTypeOK /\ Waiting
      /\ \A f \in Live : f \in Fds /\ conn[f] # NULL /\ conn[f] \in Clients
      /\ \A f, g \in Live : conn[f] = conn[g] => f = g
  BY ConnectionFacts DEF Inv1, Table, TypeOK
<1>1. ASSUME NEW c \in Clients, ClientStep(c) PROVE Streams'
  <2>1. UNCHANGED <<state, stored>>
    BY <1>1 DEF ClientStep, server
  <2> QED BY <1>0, <1>1, <2>1, ConnectionFacts, StreamsClient
<1>4. ASSUME \/ Select \/ AcceptFails
             \/ \E f \in Slots : Serve(f)
             \/ EndLoop \/ RecvAgain \/ SendAgain \/ UNCHANGED vars
      PROVE  Streams'
  <2>1. UNCHANGED <<state, conn, backlog, peer, stored, echoed>>
    BY <1>4 DEF Select, AcceptFails, Serve, EndLoop, RecvAgain, SendAgain, vars, streams
  <2> QED BY <2>1, StreamsKept DEF Live
<1>5. CASE Stop /\ StateStopped
  BY <1>5, LiveStopped, StreamsKept DEF Stop, streams
<1>6. CASE Drop /\ Handling /\ StateDropped
  <2>1. /\ Live' = Live \ {i}
        /\ \A g \in Live' : state'[g] = state[g]
        /\ conn' = [conn EXCEPT ![i] = NULL]
        /\ UNCHANGED <<backlog, peer, stored, echoed>>
    BY <1>0, <1>6, LiveDropped DEF Drop, streams
  <2>2. \A g \in Live' : conn'[g] = conn[g]
    BY <1>0, <2>1 DEF TypeOK
  <2> QED BY <2>1, <2>2, StreamsKept
<1>7. ASSUME backlog # <<>>, backlog' = Tail(backlog), UNCHANGED <<peer, stored, echoed>>,
             \A f \in Live' :
                \/ f \in Live /\ conn'[f] = conn[f] /\ state'[f] = state[f]
                \/ conn'[f] = Head(backlog) /\ state'[f] = alloc_fd_state
      PROVE  Streams'
  BY <1>0, <1>7, StreamsAccept DEF TypeOK
<1>8. CASE Accept
  <2>0. pc = "accept" => backlog # <<>>
    BY DEF Inv1, Phase
  <2>1. ASSUME NEW f \in Fds, AcceptInto(f) PROVE Streams'
    <3>1. /\ Live' = Live \cup {f} /\ state'[f] = alloc_fd_state
          /\ \A g \in Live : g # f /\ state'[g] = state[g]
      BY <1>0, <2>1, AcceptStep, LiveAdded
    <3>2. /\ conn' = [conn EXCEPT ![f] = Head(backlog)] /\ pc = "accept"
          /\ backlog' = Tail(backlog)
          /\ UNCHANGED <<peer, stored, echoed>>
      BY <2>1 DEF AcceptInto, streams
    <3>3. conn'[f] = Head(backlog) /\ \A g \in Live : conn'[g] = conn[g]
      BY <1>0, <3>1, <3>2 DEF TypeOK
    <3> QED BY <1>7, <2>0, <3>1, <3>2, <3>3
  <2>2. CASE AcceptPastTable
    <3>1. /\ conn' = [conn EXCEPT ![FdSetSize] = Head(backlog)] /\ pc = "accept"
          /\ backlog' = Tail(backlog)
          /\ UNCHANGED <<state, peer, stored, echoed>>
      BY <2>2 DEF AcceptPastTable, streams
    <3>2. \A g \in Live : g # FdSetSize /\ conn'[g] = conn[g]
      BY <1>0, <3>1, LiveFacts DEF TypeOK
    <3> QED BY <1>7, <2>0, <3>1, <3>2 DEF Live
  <2>3. CASE AcceptRefused
    <3>1. /\ pc = "accept" /\ backlog' = Tail(backlog)
          /\ UNCHANGED <<state, conn, peer, stored, echoed>>
      BY <2>3 DEF AcceptRefused, streams
    <3> QED BY <1>7, <2>0, <3>1 DEF Live
  <2> QED BY <1>4, <1>5, <1>8, <2>1, <2>2, <2>3, StopSteps DEF Accept
<1>9. ASSUME Handling, NEW st \in FdState, state' = [state EXCEPT ![i] = st],
             NEW ech \in Seq(Char), echoed' = [echoed EXCEPT ![Client] = ech],
             NEW sto \in Seq(Letters), stored' = [stored EXCEPT ![Client] = sto],
             Begins(ech, sto), Carries(st, ech, sto),
             UNCHANGED <<conn, backlog, peer>>
      PROVE  Streams'
  <2>1. i \in Live /\ Client = conn[i]
    BY <1>9, HandlerFacts DEF Client
  <2>2. /\ Live' = Live /\ state'[i] = st
        /\ \A g \in Live : g # i => state'[g] = state[g]
    BY <1>0, <1>9, <2>1, LiveChanged
  <2> QED BY <1>0, <1>9, <2>1, <2>2, StreamsHandler DEF TypeOK
<1>10. ASSUME Handling
       PROVE  /\ i \in Live /\ state[i] \in FdState /\ CursorsInOrder(state[i])
              /\ Client \in Clients
              /\ echoed[Client] \in Seq(Char) /\ stored[Client] \in Seq(Letters)
              /\ Begins(echoed[Client], stored[Client])
              /\ Carries(state[i], echoed[Client], stored[Client])
  <2>1. i \in Live /\ state[i] \in FdState /\ CursorsInOrder(state[i]) /\ Client \in Clients
    BY <1>10, HandlerFacts
  <2> QED BY <1>0, <2>1 DEF Streams, Client, TypeOK
<1>11. CASE Recv
  <2> DEFINE s == Chunk(Client)
             new == StoreChunk(state[i], s)
             sto == stored[Client] \o Added(state[i], s)
  <2>1. Handling /\ UNCHANGED <<conn, backlog, peer, echoed>>
    BY <1>11 DEF Recv, Handling
  <2>2. /\ s \in Seq(Letters) /\ s \in Seq(Char) /\ new \in FdState
        /\ state' = [state EXCEPT ![i] = new]
        /\ stored' = [stored EXCEPT ![Client] = sto]
    BY <1>11, RecvStep
  <2>3. Added(state[i], s) \in Seq(Letters)
    BY <1>10, <2>1, <2>2, AddedProperties, SelectAssumption, ConnectionsAssumption
  <2>4. sto \in Seq(Letters)
    BY <1>10, <2>1, <2>3, ConcatProperties
  <2>5. Begins(echoed[Client], sto) /\ Carries(new, echoed[Client], sto)
    <3>1. Letters \in SUBSET Char
      BY ConnectionsAssumption
    <3> QED BY <1>10, <2>1, <2>2, <3>1, CarriesStore
  <2>6. echoed' = [echoed EXCEPT ![Client] = echoed[Client]]
    BY <1>0, <1>10, <2>1 DEF TypeOK
  <2> HIDE DEF s, new, sto
  <2> QED BY <1>9, <1>10, <2>1, <2>2, <2>4, <2>5, <2>6
<1>12. CASE Send
  <2>1. Handling /\ UNCHANGED <<conn, backlog, peer, stored>>
    BY <1>12 DEF Send, Handling
  <2>2. PICK n \in 1 .. Unsent(state[i]) :
           /\ Advance(state[i], n) \in FdState
           /\ state' = [state EXCEPT ![i] = Advance(state[i], n)]
           /\ echoed' = [echoed EXCEPT ![Client] = @ \o Outgoing(state[i], n)]
    BY <1>12, SendStep
  <2> DEFINE ech == echoed[Client] \o Outgoing(state[i], n)
             new == Advance(state[i], n)
  <2>3. Outgoing(state[i], n) \in Seq(Char)
    BY <1>10, <2>1, OutgoingProperties
  <2>4. ech \in Seq(Char)
    BY <1>10, <2>1, <2>3, ConcatProperties
  <2>5. Begins(ech, stored[Client]) /\ Carries(new, ech, stored[Client])
    BY <1>10, <2>1, CarriesSend
  <2>6. stored' = [stored EXCEPT ![Client] = stored[Client]]
    BY <1>0, <1>10, <2>1 DEF TypeOK
  <2>7. echoed' = [echoed EXCEPT ![Client] = ech]
    BY <2>2
  <2> HIDE DEF ech, new
  <2> QED BY <1>9, <1>10, <2>1, <2>2, <2>4, <2>5, <2>6, <2>7 DEF new
<1>13. CASE SendDone
  <2> DEFINE new == FinishWrite(state[i], 0)
  <2>1. Handling /\ Unsent(state[i]) <= 0 /\ UNCHANGED <<conn, backlog, peer, stored, echoed>>
    BY <1>13 DEF SendDone, Handling, streams
  <2>2. new \in FdState /\ state' = [state EXCEPT ![i] = new]
    BY <1>13, SendDoneStep
  <2>5. Carries(new, echoed[Client], stored[Client])
    BY <1>10, <2>1, CarriesFinish
  <2>6. /\ stored' = [stored EXCEPT ![Client] = stored[Client]]
        /\ echoed' = [echoed EXCEPT ![Client] = echoed[Client]]
    BY <1>0, <1>10, <2>1 DEF TypeOK
  <2> HIDE DEF new
  <2> QED BY <1>9, <1>10, <2>1, <2>2, <2>5, <2>6
<1> QED
  BY <1>1, <1>4, <1>5, <1>6, <1>8, <1>11, <1>12, <1>13, StopSteps, DropSteps
  DEF Next, ServerStep, Handle

LEMMA Inv3Invariant == Spec => []Inv3
<1>1. Init => Inv3
  <2> SUFFICES ASSUME Init PROVE Inv3
    OBVIOUS
  <2>1. Inv2
    BY Inv1Init DEF Init, InitConnections, Inv2, Buffers, WriteSetWriting, Live, Handling
  <2>2. Live = {} /\ Len(backlog) = 0
    BY EmptySeq DEF Init, InitConnections, Live
  <2>3. \A c \in Clients : Len(stored[c]) = 0 /\ Len(echoed[c]) = 0
    BY EmptySeq DEF Init, InitConnections
  <2> QED BY <2>1, <2>2, <2>3 DEF Inv3, Streams, Begins
<1>2. Inv3 /\ [Next]_vars => Inv3'
  <2>1. Inv3 /\ [Next]_vars => Inv2'
    BY Inv1Step, BuffersStep, WriteSetStep DEF Inv2, Inv3
  <2> QED BY <2>1, StreamsStep DEF Inv3
<1> QED BY <1>1, <1>2, PTL DEF Spec

(* What a client is sent is the rot13 of the bytes stored for it, from the *)
(* first one on: nothing is skipped, repeated, reordered or taken from     *)
(* another client's buffer, whatever the sizes and the interleaving.       *)
THEOREM EchoStaysFaithful == Spec => []EchoFaithful
<1>1. Inv3 => EchoFaithful
  BY ConnectionFacts, StreamsFaithful DEF Inv3, Inv2, Inv1, TypeOK
<1> QED BY <1>1, Inv3Invariant, PTL

-----------------------------------------------------------------------------
(* What enters the line buffers.                                           *)

LEMMA IntactStep == Inv1 /\ Intact /\ [Next]_vars => Intact'
<1> SUFFICES ASSUME Inv1, Intact, [Next]_vars PROVE Intact'
  OBVIOUS
<1>0. /\ TypeOK /\ ConnectionsTypeOK /\ stored \in [Clients -> Seq(Letters)]
      /\ \A f \in Live : f \in Fds /\ conn[f] \in Clients /\ state[f] \in FdState
  BY ConnectionFacts, LiveFacts DEF Inv1, Table, TypeOK
<1>1. ASSUME NEW c \in Clients, ClientStep(c) PROVE Intact'
  <2>1. UNCHANGED <<state, stored>>
    BY <1>1 DEF ClientStep, server
  <2> QED BY <1>0, <1>1, <2>1, ConnectionFacts, IntactClient
<1>2. ASSUME UNCHANGED <<sent, rpos, stored>>,
             \A f \in Live' : /\ f \in Live /\ conn'[f] = conn[f]
                              /\ state'[f] = state[f]
      PROVE  Intact'
  <2>1. \A f \in Live' : Len(state'[f].buffer) <= Len(state[f].buffer)
    <3>1. ASSUME NEW f \in Live' PROVE Len(state[f].buffer) \in Nat
      BY <1>0, <1>2, LenProperties DEF FdState
    <3> QED BY <1>2, <3>1
  <2> QED BY <1>0, <1>2, <2>1, IntactKept
<1>3. ASSUME \/ Select \/ AcceptFails
             \/ \E f \in Slots : Serve(f)
             \/ EndLoop \/ RecvAgain \/ SendAgain \/ UNCHANGED vars
      PROVE  Intact'
  <2>1. UNCHANGED <<state, conn, sent, rpos, stored>>
    BY <1>3 DEF Select, AcceptFails, Serve, EndLoop, RecvAgain, SendAgain, vars, streams
  <2> QED BY <1>2, <2>1 DEF Live
<1>4. CASE Stop /\ StateStopped
  <2>1. UNCHANGED <<sent, rpos, stored>> /\ Live' = {}
    BY <1>4, LiveStopped DEF Stop, streams
  <2> QED BY <1>2, <2>1
<1>5. CASE Drop /\ Handling /\ StateDropped
  <2>1. /\ Live' = Live \ {i}
        /\ \A g \in Live' : state'[g] = state[g]
        /\ conn' = [conn EXCEPT ![i] = NULL]
        /\ UNCHANGED <<sent, rpos, stored>>
    BY <1>0, <1>5, LiveDropped DEF Drop, streams
  <2>2. \A g \in Live' : conn'[g] = conn[g]
    BY <1>0, <2>1 DEF TypeOK
  <2> QED BY <1>2, <2>1, <2>2
<1>6. CASE Accept
  <2>0. pc = "accept" => Head(backlog) \in Clients
    BY <1>0, FirstWaiting DEF Inv1, Phase
  <2>1. ASSUME NEW f \in Fds, AcceptInto(f) PROVE Intact'
    <3>1. /\ Live' = Live \cup {f} /\ state'[f] = alloc_fd_state
          /\ \A g \in Live : g # f /\ state'[g] = state[g]
      BY <1>0, <2>1, AcceptStep, LiveAdded
    <3>2. /\ conn' = [conn EXCEPT ![f] = Head(backlog)] /\ pc = "accept"
          /\ UNCHANGED <<sent, rpos, stored>>
      BY <2>1 DEF AcceptInto, streams
    <3>3. conn'[f] \in Clients /\ \A g \in Live : conn'[g] = conn[g]
      BY <1>0, <2>0, <3>1, <3>2 DEF TypeOK
    <3>4. \A g \in Live : Len(state'[g].buffer) <= Len(state[g].buffer)
      <4>1. ASSUME NEW g \in Live PROVE Len(state[g].buffer) \in Nat
        BY <1>0, LenProperties DEF FdState
      <4> QED BY <3>1, <4>1
    <3> QED BY <1>0, <3>1, <3>2, <3>3, <3>4, IntactKept
  <2>2. CASE AcceptPastTable \/ AcceptRefused
    <3>1. /\ UNCHANGED <<state, sent, rpos, stored>>
          /\ conn' = conn \/ conn' = [conn EXCEPT ![FdSetSize] = Head(backlog)]
      BY <2>2 DEF AcceptPastTable, AcceptRefused, streams
    <3>2. \A g \in Live : g # FdSetSize /\ conn'[g] = conn[g]
      BY <1>0, <3>1, LiveFacts DEF TypeOK
    <3> QED BY <1>2, <3>1, <3>2 DEF Live
  <2> QED BY <1>3, <1>4, <1>6, <2>1, <2>2, StopSteps DEF Accept
<1>7. ASSUME Handling
      PROVE  i \in Live /\ state[i] \in FdState /\ CursorsInOrder(state[i]) /\ Client = conn[i]
  BY <1>0, <1>7, HandlerFacts DEF Client
<1>8. CASE Recv
  <2>1. /\ Handling /\ Inbound(Client) > 0
        /\ rpos' = [rpos EXCEPT ![Client] = @ + Len(Chunk(Client))]
        /\ UNCHANGED <<sent, conn>>
    BY <1>8 DEF Recv, Handling
  <2>2. /\ StoreChunk(state[i], Chunk(Client)) \in FdState
        /\ state' = [state EXCEPT ![i] = StoreChunk(state[i], Chunk(Client))]
        /\ stored' = [stored EXCEPT ![Client] = @ \o Added(state[i], Chunk(Client))]
    BY <1>8, RecvStep
  <2>3. /\ Live' = Live /\ state'[i] = StoreChunk(state[i], Chunk(Client))
        /\ \A g \in Live : g # i => state'[g] = state[g]
    BY <1>0, <1>7, <2>1, <2>2, LiveChanged
  <2> QED BY <1>0, <1>7, <2>1, <2>2, <2>3, IntactStore
<1>9. ASSUME Handling, NEW st \in FdState, state' = [state EXCEPT ![i] = st],
             Len(st.buffer) <= Len(state[i].buffer),
             UNCHANGED <<conn, sent, rpos, stored>>
      PROVE  Intact'
  <2>1. /\ Live' = Live /\ state'[i] = st
        /\ \A g \in Live : g # i => state'[g] = state[g]
    BY <1>0, <1>7, <1>9, LiveChanged
  <2>2. \A g \in Live : /\ state'[g] \in FdState
                        /\ Len(state'[g].buffer) <= Len(state[g].buffer)
    <3>1. ASSUME NEW g \in Live PROVE Len(state[g].buffer) \in Nat
      BY <1>0, LenProperties DEF FdState
    <3> QED BY <1>0, <1>9, <2>1, <3>1
  <2> QED BY <1>0, <1>9, <2>1, <2>2, IntactKept
<1>10. CASE Send
  <2>1. Handling /\ UNCHANGED <<conn, sent, rpos, stored>>
    BY <1>10 DEF Send, Handling
  <2>2. PICK n \in 1 .. Unsent(state[i]) :
           /\ Advance(state[i], n) \in FdState
           /\ state' = [state EXCEPT ![i] = Advance(state[i], n)]
    BY <1>10, SendStep
  <2>3. Len(Advance(state[i], n).buffer) <= Len(state[i].buffer)
    <3>1. state[i] \in FdState /\ Len(state[i].buffer) \in Nat
      BY <1>7, <2>1, LenProperties DEF FdState
    <3> QED BY <3>1 DEF Advance, FdState
  <2> QED BY <1>9, <2>1, <2>2, <2>3
<1>11. CASE SendDone
  <2>1. Handling /\ UNCHANGED <<conn, sent, rpos, stored>>
    BY <1>11 DEF SendDone, Handling, streams
  <2>2. /\ FinishWrite(state[i], 0) \in FdState
        /\ state' = [state EXCEPT ![i] = FinishWrite(state[i], 0)]
    BY <1>11, SendDoneStep
  <2>3. Len(FinishWrite(state[i], 0).buffer) <= Len(state[i].buffer)
    BY <1>7, <2>1, RewindsToZero, FinishShrinks
  <2> QED BY <1>9, <2>1, <2>2, <2>3
<1> QED
  BY <1>1, <1>3, <1>4, <1>5, <1>6, <1>8, <1>10, <1>11, StopSteps, DropSteps
  DEF Next, ServerStep, Handle

(* Nothing of the first MAX_LINE bytes of a connection is dropped, for     *)
(* every MAX_LINE, however they are cut into chunks and lines, and         *)
(* whatever happens to the other connections.                              *)
THEOREM NothingIsLostBelowMaxLine == Spec => []NothingLostBelowMaxLine
<1>1. Init => Intact
  <2> SUFFICES ASSUME Init PROVE Intact
    OBVIOUS
  <2>1. Live = {} /\ \A c \in Clients : SubSeq(<<>>, 1, 0) = <<>> /\ Len(<<>>) = 0
    BY SubSeqEmpty, EmptySeq DEF Init, Live
  <2> QED BY <2>1 DEF Init, InitConnections, Intact, NothingLostBelowMaxLine
<1>2. Intact => NothingLostBelowMaxLine
  BY DEF Intact
<1> QED BY <1>1, <1>2, IntactStep, Inv1Invariant, PTL DEF Spec

-----------------------------------------------------------------------------
(* The server never hangs up on a client that is there: a step that closes *)
(* a descriptor closes that of a client that shut down or reset, and it is *)
(* not the descriptor of another.                                          *)
THEOREM NeverHangsUpOnOpenClient == Spec => NoHangUpOnOpenClient
<1> DEFINE Keeps == \A c \in Clients :
                      Served(c) /\ peer[c] = "open" => Served(c)' \/ pc' = "stopped"
<1>1. ASSUME Inv1, [Next]_vars PROVE Keeps
  <2>0. /\ TypeOK /\ \A f \in Live : f \in Fds /\ conn[f] # NULL
        /\ \A f, g \in Live : conn[f] = conn[g] => f = g
    BY <1>1 DEF Inv1, Table
  <2>1. ASSUME \A f \in Live : f \in Live' /\ conn'[f] = conn[f] PROVE Keeps
    BY <2>1 DEF Served
  <2>2. ASSUME Stop PROVE Keeps
    BY <2>2 DEF Stop
  <2>3. ASSUME RecvEnd \/ SendError PROVE Keeps
    <3>1. /\ Handling /\ StateDropped /\ conn' = [conn EXCEPT ![i] = NULL]
      BY <2>3, DropSteps DEF Drop
    <3>2. peer[conn[i]] # "open"
      BY <2>3 DEF RecvEnd, SendError, Client, Gone
    <3>3. Live' = Live \ {i}
      BY <2>0, <3>1, LiveDropped
    <3>4. \A g \in Live : g # i => g \in Live' /\ conn'[g] = conn[g]
      BY <2>0, <3>1, <3>3 DEF TypeOK
    <3> QED BY <3>2, <3>4 DEF Served
  <2>4. ASSUME NEW f \in Fds, AcceptInto(f) PROVE Keeps
    <3>1. Live' = Live \cup {f} /\ \A g \in Live : g # f
      BY <1>1, <2>0, <2>4, AcceptStep, LiveAdded
    <3>2. \A g \in Live : conn'[g] = conn[g]
      BY <2>0, <2>4, <3>1 DEF AcceptInto, TypeOK
    <3> QED BY <2>1, <3>1, <3>2
  <2>5. ASSUME AcceptPastTable \/ AcceptRefused PROVE Keeps
    <3>1. Live' = Live
      BY <1>1, <2>5, LiveSame
    <3>2. \A g \in Live : g # FdSetSize
      BY <2>0, LiveFacts
    <3>3. \A g \in Live : conn'[g] = conn[g]
      BY <2>0, <2>5, <3>2 DEF AcceptPastTable, AcceptRefused, TypeOK
    <3> QED BY <2>1, <3>1, <3>3
  <2>6. ASSUME NEW c \in Clients, ClientStep(c), Connect(c) PROVE Keeps
    BY <1>1, <2>1, <2>6, LiveSame DEF Connect
  <2>7. ASSUME \/ \E c \in Clients : ClientStep(c) /\ ~ Connect(c)
               \/ Select \/ AcceptFails
               \/ \E f \in Slots : Serve(f)
               \/ EndLoop \/ Recv \/ RecvAgain \/ Send \/ SendAgain \/ SendDone
               \/ UNCHANGED vars
        PROVE  Keeps
    BY <1>1, <2>1, <2>7, LiveSame, ConnKept
  <2> HIDE DEF Keeps
  <2> QED BY <1>1, <2>2, <2>3, <2>4, <2>5, <2>6, <2>7, StopSteps
          DEF Next, ServerStep, Accept, Handle
<1>2. Spec => [][Keeps]_vars
  BY <1>1, Inv1Invariant, PTL DEF Spec
<1> QED BY <1>2 DEF NoHangUpOnOpenClient

-----------------------------------------------------------------------------
(* The refinement: every step of the server is one of LineEcho, or leaves  *)
(* what LineEcho sees as it is.                                            *)

Inv4 == Inv3 /\ Apart /\ Uncommitted

LEMMA RefineStep ==
    Inv4 /\ [Next]_vars => RefinesStep /\ Apart' /\ Uncommitted'
<1> SUFFICES ASSUME Inv4, [Next]_vars PROVE RefinesStep /\ Apart' /\ Uncommitted'
  OBVIOUS
<1> USE DEF Inv4, Inv3, Inv2
<1>0. /\ TypeOK /\ ConnectionsTypeOK /\ Waiting /\ Inv1
      /\ stored \in [Clients -> Seq(Letters)]
      /\ \A f \in Live : f \in Fds /\ conn[f] # NULL
  BY ConnectionFacts DEF Inv1, Table, TypeOK
<1>1. ASSUME UNCHANGED <<stored, echoed>>,
             \A f \in Live' : f \in Live /\ conn'[f] = conn[f] /\ state'[f] = state[f],
             \A c \in Clients : NotYet(c)' => NotYet(c)
      PROVE  RefinesStep /\ Apart' /\ Uncommitted'
  BY <1>0, <1>1, RefineHangUp DEF RefinesStep
<1>2. ASSUME NEW c \in Clients, ClientStep(c)
      PROVE  RefinesStep /\ Apart' /\ Uncommitted'
  <2>1. ClientMoves(c) /\ UNCHANGED <<state, stored>> /\ conn' = conn
    BY <1>0, <1>2, ConnectionFacts, ClientsType DEF ClientStep, server
  <2>2. UNCHANGED echoed
    BY <2>1 DEF ClientMoves, Connect, ClientSend, ClientShutdown, ClientReset, ClientRead
  <2>3. \A d \in Clients : NotYet(d)' => NotYet(d)
    BY <1>0, <2>1, NotYetClient
  <2> QED BY <1>1, <2>1, <2>2, <2>3 DEF Live
<1>3. ASSUME \/ Select \/ AcceptFails
             \/ \E f \in Slots : Serve(f)
             \/ EndLoop \/ RecvAgain \/ SendAgain \/ UNCHANGED vars
      PROVE  RefinesStep /\ Apart' /\ Uncommitted'
  <2>1. UNCHANGED <<state, conn, backlog, peer, stored, echoed>>
    BY <1>3 DEF Select, AcceptFails, Serve, EndLoop, RecvAgain, SendAgain, vars, streams
  <2> QED BY <1>1, <2>1 DEF Live, NotYet
<1>4. CASE Stop /\ StateStopped
  <2>1. backlog' = <<>> /\ UNCHANGED <<peer, stored, echoed>> /\ Live' = {}
    BY <1>4, LiveStopped DEF Stop, streams
  <2>2. \A c \in Clients : NotYet(c)' => NotYet(c)
    BY <2>1, EmptySeq DEF NotYet
  <2> QED BY <1>1, <2>1, <2>2
<1>5. CASE Drop /\ Handling /\ StateDropped
  <2>1. /\ Live' = Live \ {i}
        /\ \A g \in Live' : state'[g] = state[g]
        /\ conn' = [conn EXCEPT ![i] = NULL]
        /\ UNCHANGED <<backlog, peer, stored, echoed>>
    BY <1>0, <1>5, LiveDropped DEF Drop, streams
  <2>2. \A g \in Live' : conn'[g] = conn[g]
    BY <1>0, <2>1 DEF TypeOK
  <2> QED BY <1>1, <2>1, <2>2 DEF NotYet
<1>6. CASE Accept
  <2>0. pc = "accept" => backlog # <<>>
    BY DEF Inv1, Phase
  <2>1. ASSUME NEW f \in Fds, AcceptInto(f)
        PROVE  RefinesStep /\ Apart' /\ Uncommitted'
    <3>1. /\ Live' = Live \cup {f} /\ f \notin Live /\ state'[f] = alloc_fd_state
          /\ \A g \in Live : g # f /\ state'[g] = state[g]
      BY <1>0, <2>1, AcceptStep, LiveAdded
    <3>2. /\ conn' = [conn EXCEPT ![f] = Head(backlog)] /\ pc = "accept"
          /\ backlog' = Tail(backlog)
          /\ UNCHANGED <<peer, stored, echoed>>
      BY <2>1 DEF AcceptInto, streams
    <3>3. conn'[f] = Head(backlog) /\ \A g \in Live : conn'[g] = conn[g]
      BY <1>0, <3>1, <3>2 DEF TypeOK
    <3> QED BY <1>0, <2>0, <3>1, <3>2, <3>3, RefineAccept DEF RefinesStep
  <2>2. CASE AcceptPastTable \/ AcceptRefused
    <3>1. /\ pc = "accept" /\ backlog' = Tail(backlog)
          /\ UNCHANGED <<state, peer, stored, echoed>>
          /\ conn' = conn \/ conn' = [conn EXCEPT ![FdSetSize] = Head(backlog)]
      BY <2>2 DEF AcceptPastTable, AcceptRefused, streams
    <3>2. \A g \in Live : g # FdSetSize /\ conn'[g] = conn[g]
      BY <1>0, <3>1, LiveFacts DEF TypeOK
    <3>3. \A c \in Clients : NotYet(c)' => NotYet(c)
      BY <1>0, <2>0, <3>1, NotYetAccept
    <3> QED BY <1>1, <3>1, <3>2, <3>3 DEF Live
  <2> QED BY <1>3, <1>4, <1>6, <2>1, <2>2, StopSteps DEF Accept
<1>7. ASSUME Handling
      PROVE  i \in Live /\ state[i] \in FdState /\ CursorsInOrder(state[i]) /\ Client = conn[i]
  BY <1>0, <1>7, HandlerFacts DEF Client
<1>8. CASE Recv
  <2> DEFINE s == Chunk(Client)
             new == StoreChunk(state[i], s)
  <2>1. Handling /\ Inbound(Client) > 0 /\ UNCHANGED <<conn, backlog, peer, echoed>>
    BY <1>8 DEF Recv, Handling
  <2>2. /\ s \in Seq(Letters) /\ new \in FdState
        /\ state' = [state EXCEPT ![i] = new]
        /\ stored' = [stored EXCEPT ![Client] = @ \o Added(state[i], s)]
    BY <1>0, <1>8, RecvStep
  <2>3. Len(s) <= RecvMax
    BY <1>0, <2>1, HandlerFacts, ChunkFacts
  <2>4. /\ Live' = Live /\ state'[i] = new
        /\ \A g \in Live : g # i => state'[g] = state[g]
    BY <1>0, <1>7, <2>1, <2>2, LiveChanged
  <2> HIDE DEF s
  <2>5. LE!Receive(conn[i]) /\ Apart' /\ Uncommitted'
    BY <1>0, <1>7, <2>1, <2>2, <2>3, <2>4, RefineStore
  <2> QED BY <1>7, <2>1, <2>5 DEF RefinesStep, Apart
<1>9. CASE Send
  <2>1. Handling /\ UNCHANGED <<conn, backlog, peer, stored>>
    BY <1>9 DEF Send, Handling
  <2>2. PICK n \in 1 .. Unsent(state[i]) :
           /\ Advance(state[i], n) \in FdState
           /\ state' = [state EXCEPT ![i] = Advance(state[i], n)]
           /\ echoed' = [echoed EXCEPT ![Client] = @ \o Outgoing(state[i], n)]
    BY <1>0, <1>9, SendStep
  <2>3. /\ Live' = Live /\ state'[i] = Advance(state[i], n)
        /\ \A g \in Live : g # i => state'[g] = state[g]
    BY <1>0, <1>7, <2>1, <2>2, LiveChanged
  <2>4. LE!Echo(conn[i]) /\ Apart' /\ Uncommitted'
    BY <1>0, <1>7, <2>1, <2>2, <2>3, RefineSend
  <2> QED BY <1>7, <2>1, <2>4 DEF RefinesStep, Apart
<1>10. CASE SendDone
  <2>1. Handling /\ Unsent(state[i]) <= 0 /\ UNCHANGED <<conn, backlog, peer, stored, echoed>>
    BY <1>10 DEF SendDone, Handling, streams
  <2>2. /\ FinishWrite(state[i], 0) \in FdState
        /\ state' = [state EXCEPT ![i] = FinishWrite(state[i], 0)]
    BY <1>0, <1>10, SendDoneStep
  <2>3. /\ Live' = Live /\ state'[i] = FinishWrite(state[i], 0)
        /\ \A g \in Live : g # i => state'[g] = state[g]
    BY <1>0, <1>7, <2>1, <2>2, LiveChanged
  <2> QED BY <1>0, <1>7, <2>1, <2>3, RewindsToZero, RefineFinish DEF RefinesStep
<1> QED
  BY <1>2, <1>3, <1>4, <1>5, <1>6, <1>8, <1>9, <1>10, StopSteps, DropSteps
  DEF Next, ServerStep, Handle

(* The server is a line echo: for every number of clients and every size   *)
(* of its buffers, table and chunks, each of its steps accepts bytes of    *)
(* one client, echoes committed ones, hangs up, or does none of these.     *)
THEOREM RefinesLineEcho == Spec => ImplementsLineEcho
<1>1. Init => LE!Init /\ Apart /\ Uncommitted
  <2> SUFFICES ASSUME Init PROVE LE!Init /\ Apart /\ Uncommitted
    OBVIOUS
  <2>1. Live = {} /\ stored = [c \in Clients |-> <<>>] /\ InitConnections
    BY DEF Init, Live
  <2> QED BY <2>1, RefineInit
<1>2. Inv4 /\ [Next]_vars => [LE!Next]_(LE!evars)
  BY RefineStep DEF RefinesStep, LE!Next
<1>3. Inv3 /\ Apart /\ Uncommitted /\ [Next]_vars => (Apart /\ Uncommitted)'
  BY RefineStep DEF Inv4
<1>4. Spec => [](Apart /\ Uncommitted)
  BY <1>1, <1>3, Inv3Invariant, PTL DEF Spec
<1>5. Inv3 /\ Apart /\ Uncommitted => Inv4
  BY DEF Inv4
<1> QED BY <1>1, <1>2, <1>4, <1>5, Inv3Invariant, PTL DEF Spec, ImplementsLineEcho, LE!Spec
=============================================================================
