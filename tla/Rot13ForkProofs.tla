-------------------------- MODULE Rot13ForkProofs --------------------------
(***************************************************************************)
(* Proofs about Rot13Fork, for every number of clients and children, every *)
(* MAX_LINE and every size of the kernel's buffers: it implements LineEcho *)
(* and loses nothing of a stream whose lines fit.                          *)
(***************************************************************************)
EXTENDS Rot13Fork, TLAPS, SequenceTheorems

(* The inductive invariant. What the state is made of.                     *)
TypeOK ==
    /\ pc \in {"accept", "fork"}
    /\ fd \in {Listener} \cup Fds
    /\ child \in [Clients -> Child \cup {NULL}]
    /\ stored \in [Clients -> Seq(Letters)]
    /\ conn \in [Fds -> Clients \cup {NULL}]
    /\ backlog \in Seq(Clients)
    /\ peer \in [Clients -> PeerStates]
    /\ sent \in [Clients -> Seq(Letters)]
    /\ rpos \in [Clients -> Nat]
    /\ echoed \in [Clients -> Seq(Char)]
    /\ drained \in [Clients -> Nat]

(* A client is forked for once, after it was accepted once.                *)
Waits(c) == \E k \in 1 .. Len(backlog) : backlog[k] = c
Forking(c) == pc = "fork" /\ conn[fd] = c

Parent ==
    /\ \A k, l \in 1 .. Len(backlog) : backlog[k] = backlog[l] => k = l
    /\ pc = "fork" => fd \in Fds /\ conn[fd] \in Clients
    /\ \A c \in Clients :
          /\ Waits(c) \/ Forking(c) => child[c] = NULL /\ peer[c] # "idle"
          /\ Forking(c) => ~ Waits(c)
          /\ peer[c] = "idle" => child[c] = NULL

(* What was echoed begins what was stored; the rest of outbuf is the rest  *)
(* of it, up to the end of the connection, and holds no complete line      *)
(* while the child receives. Nothing moves before there is a child.        *)
Begins(ech, sto) ==
    /\ Len(ech) <= Len(sto)
    /\ \A k \in 1 .. Len(ech) : ech[k] = rot13_char(sto[k])

Remains(ch) == Len(ch.outbuf) - ch.n

Carries(ch, ech, sto) ==
    /\ Len(sto) = Len(ech) + Remains(ch)
    /\ \A k \in 1 .. Remains(ch) : ch.outbuf[ch.n + k] = rot13_char(sto[Len(ech) + k])
    /\ ch.pc = "recv" => \A k \in Len(ech) + 1 .. Len(sto) : sto[k] # NL

Cursor(ch) == ch.n <= Len(ch.outbuf) /\ (ch.pc = "recv" => ch.n = 0)

Stream(c) ==
    /\ Begins(echoed[c], stored[c])
    /\ child[c] = NULL => stored[c] = <<>> /\ echoed[c] = <<>> /\ rpos[c] = 0
    /\ Running(c) => Cursor(child[c])
    /\ Running(c) /\ ~ Gone(c) => Carries(child[c], echoed[c], stored[c])

Streams == \A c \in Clients : Stream(c)

Inv == TypeOK /\ Parent /\ Streams

(* And for what is lost: nothing is received that was not sent.            *)
Intact ==
    \A c \in Clients :
        /\ rpos[c] <= Len(sent[c])
        /\ LinesFit(sent[c]) /\ ~ Gone(c) => stored[c] = SubSeq(sent[c], 1, rpos[c])

-----------------------------------------------------------------------------
(* Facts about a state.                                                    *)

LEMMA Rot13CharType == \A c \in Char : rot13_char(c) \in Char
BY DEF rot13_char, Char, FirstHalf, SecondHalf

LEMMA Lengths ==
    ASSUME TypeOK, NEW c \in Clients
    PROVE  /\ sent[c] \in Seq(Letters) /\ Len(sent[c]) \in Nat
           /\ stored[c] \in Seq(Letters) /\ Len(stored[c]) \in Nat
           /\ echoed[c] \in Seq(Char) /\ Len(echoed[c]) \in Nat
           /\ rpos[c] \in Nat /\ drained[c] \in Nat
           /\ Letters \in SUBSET Char
BY LenProperties, ConnectionsAssumption DEF TypeOK

LEMMA ChildFacts ==
    ASSUME TypeOK, NEW c \in Clients, Running(c)
    PROVE  /\ child[c] \in Child /\ child[c].outbuf \in Seq(Char)
           /\ Len(child[c].outbuf) \in Nat /\ child[c].n \in Nat
           /\ child[c].pc \in {"recv", "send"}
<1>1. child[c] \in Child /\ child[c].pc # "ended"
  BY DEF TypeOK, Running
<1> QED BY <1>1, LenProperties DEF Child

(* A child as Fork makes it and as SendReturns leaves it, and one that     *)
(* has ended.                                                              *)
Receiving == [pc |-> "recv", outbuf |-> <<>>, n |-> 0]
Ended == [pc |-> "ended", outbuf |-> <<>>, n |-> 0]

LEMMA NewChildren ==
    /\ Receiving \in Child /\ Receiving # NULL /\ Receiving.pc = "recv" /\ Receiving.n = 0
    /\ Remains(Receiving) = 0 /\ Cursor(Receiving) /\ Len(Receiving.outbuf) = 0
    /\ Ended \in Child /\ Ended # NULL /\ Ended.pc = "ended"
<1>1. <<>> \in Seq(Char) /\ Len(<<>>) = 0
  BY EmptySeq
<1>2. Receiving \in Child /\ Ended \in Child
  BY <1>1 DEF Receiving, Ended, Child
<1> QED BY <1>1, <1>2, ForkAssumption DEF Receiving, Ended, Remains, Cursor

LEMMA FirstWaiting ==
    ASSUME TypeOK, backlog # <<>>
    PROVE  /\ Head(backlog) \in Clients /\ Head(backlog) = backlog[1]
           /\ Tail(backlog) \in Seq(Clients)
           /\ Len(backlog) \in Nat /\ Len(backlog) >= 1
           /\ Len(Tail(backlog)) = Len(backlog) - 1
           /\ \A k \in 1 .. Len(Tail(backlog)) : /\ k + 1 \in 2 .. Len(backlog)
                                                 /\ Tail(backlog)[k] = backlog[k + 1]
<1>1. backlog \in Seq(Clients) /\ Len(backlog) \in Nat
  BY LenProperties DEF TypeOK
<1>2. /\ Len(Tail(backlog)) = Len(backlog) - 1
      /\ \A k \in 1 .. Len(Tail(backlog)) : Tail(backlog)[k] = backlog[k + 1]
      /\ Head(backlog) = backlog[1] /\ Head(backlog) \in Clients
      /\ Tail(backlog) \in Seq(Clients)
      /\ Len(backlog) >= 1
  BY <1>1, HeadTailProperties, EmptySeq
<1> QED BY <1>1, <1>2

-----------------------------------------------------------------------------
(* What the steps do, one lemma for each kind.                             *)

(* A byte received: appended to outbuf, or dropped when it does not fit.   *)
Byte(c) == sent[c][rpos[c] + 1]

Grown(ch, b) ==
    [ch EXCEPT !.outbuf = IF Fits(@) THEN Append(@, rot13_char(b)) ELSE @,
               !.pc = IF b = NL THEN "send" ELSE "recv"]

LEMMA GrownProperties ==
    ASSUME NEW ch \in Child, ch.pc = "recv", NEW b \in Char
    PROVE  LET new == Grown(ch, b) IN
           /\ new \in Child /\ new # NULL
           /\ new.pc = IF b = NL THEN "send" ELSE "recv"
           /\ new.n = ch.n
           /\ Fits(ch.outbuf) => /\ new.outbuf = Append(ch.outbuf, rot13_char(b))
                                 /\ Len(new.outbuf) = Len(ch.outbuf) + 1
                                 /\ new.outbuf[Len(ch.outbuf) + 1] = rot13_char(b)
                                 /\ \A k \in 1 .. Len(ch.outbuf) : new.outbuf[k] = ch.outbuf[k]
           /\ ~ Fits(ch.outbuf) => new.outbuf = ch.outbuf
<1>1. ch.outbuf \in Seq(Char) /\ rot13_char(b) \in Char
  BY Rot13CharType DEF Child
<1>2. /\ Append(ch.outbuf, rot13_char(b)) \in Seq(Char)
      /\ Len(Append(ch.outbuf, rot13_char(b))) = Len(ch.outbuf) + 1
      /\ Append(ch.outbuf, rot13_char(b))[Len(ch.outbuf) + 1] = rot13_char(b)
      /\ \A k \in 1 .. Len(ch.outbuf) : Append(ch.outbuf, rot13_char(b))[k] = ch.outbuf[k]
  BY <1>1, AppendProperties
<1>3. Grown(ch, b) \in Child
  BY <1>1, <1>2 DEF Grown, Child
<1> QED BY <1>1, <1>2, <1>3, ForkAssumption DEF Grown, Child

LEMMA RecvStep ==
    ASSUME TypeOK, NEW c \in Clients, Recv(c)
    PROVE  /\ Running(c) /\ child[c].pc = "recv"
           /\ Byte(c) \in Letters /\ Byte(c) \in Char
           /\ rpos[c] + 1 \in 1 .. Len(sent[c])
           /\ child' = [child EXCEPT ![c] = Grown(child[c], Byte(c))]
           /\ stored' = [stored EXCEPT ![c] = IF Fits(child[c].outbuf) /\ ~ Gone(c)
                                              THEN Append(stored[c], Byte(c)) ELSE stored[c]]
           /\ rpos' = [rpos EXCEPT ![c] = rpos[c] + 1]
           /\ UNCHANGED <<pc, fd, conn, backlog, peer, sent, echoed, drained>>
<1>1. rpos[c] + 1 \in 1 .. Len(sent[c])
  BY Lengths DEF Recv, HasByte, Inbound
<1>2. Byte(c) \in Letters /\ Byte(c) \in Char
  BY <1>1, Lengths, ElementOfSeq DEF Byte
<1>3. child[c] \in Child
  BY ChildFacts DEF Recv
<1>4. child' = [child EXCEPT ![c] = Grown(child[c], Byte(c))]
  BY <1>3 DEF Recv, Grown, Byte, TypeOK, Child
<1> QED BY <1>1, <1>2, <1>4 DEF Recv, Byte

LEMMA SendStep ==
    ASSUME TypeOK, NEW c \in Clients, Send(c)
    PROVE  \E n \in 1 .. Remains(child[c]) :
             LET o == SubSeq(child[c].outbuf, child[c].n + 1, child[c].n + n)
                 new == [child[c] EXCEPT !.n = @ + n] IN
             /\ Running(c) /\ child[c].pc = "send" /\ ~ Gone(c)
             /\ o \in Seq(Char) /\ Len(o) = n
             /\ \A k \in 1 .. n : o[k] = child[c].outbuf[child[c].n + k]
             /\ new \in Child /\ new # NULL /\ new.pc = "send"
             /\ new.n = child[c].n + n /\ new.outbuf = child[c].outbuf
             /\ child' = [child EXCEPT ![c] = new]
             /\ echoed' = [echoed EXCEPT ![c] = echoed[c] \o o]
             /\ UNCHANGED <<pc, fd, stored, conn, backlog, peer, sent, rpos, drained>>
<1>1. Running(c) /\ child[c].pc = "send" /\ ~ Gone(c)
  BY DEF Send
<1>2. /\ child[c] \in Child /\ child[c].outbuf \in Seq(Char)
      /\ Len(child[c].outbuf) \in Nat /\ child[c].n \in Nat
  BY <1>1, ChildFacts
<1>3. SendRoom(c) \in Int /\ Remains(child[c]) \in Int /\ Outgoing(c) = Remains(child[c])
  BY <1>2, Lengths, ConnectionsAssumption DEF SendRoom, Remains, Outgoing
<1>4. PICK n \in 1 .. Least(SendRoom(c), Remains(child[c])) :
         /\ echoed' = [echoed EXCEPT ![c] =
                @ \o SubSeq(child[c].outbuf, child[c].n + 1, child[c].n + n)]
         /\ child' = [child EXCEPT ![c].n = @ + n]
  BY <1>3 DEF Send
<1>5. n \in 1 .. Remains(child[c])
  BY <1>3 DEF Least
<1> DEFINE o == SubSeq(child[c].outbuf, child[c].n + 1, child[c].n + n)
           new == [child[c] EXCEPT !.n = @ + n]
<1>6. /\ child[c].n + 1 \in Int /\ child[c].n + n \in Nat
      /\ child[c].n + 1 <= child[c].n + n
      /\ child[c].n + n <= Len(child[c].outbuf)
      /\ (child[c].n + n) - (child[c].n + 1) + 1 = n
      /\ n \in Nat
  <2>1. \A l, m \in Nat : \A q \in 1 .. l - m :
           /\ m + 1 \in Int /\ m + q \in Nat /\ m + 1 <= m + q
           /\ m + q <= l /\ (m + q) - (m + 1) + 1 = q /\ q \in Nat
    OBVIOUS
  <2>2. n \in 1 .. Len(child[c].outbuf) - child[c].n
    BY <1>5 DEF Remains
  <2> QED BY <1>2, <2>1, <2>2
<1>7. \A k \in child[c].n + 1 .. child[c].n + n : child[c].outbuf[k] \in Char
  <2>1. \A m, q, l \in Nat : m + q <= l => \A k \in m + 1 .. m + q : k \in 1 .. l
    OBVIOUS
  <2>2. \A k \in child[c].n + 1 .. child[c].n + n : k \in 1 .. Len(child[c].outbuf)
    BY <1>2, <1>6, <2>1
  <2> QED BY <1>2, <2>2, ElementOfSeq
<1>8. /\ o \in Seq(Char) /\ Len(o) = n
      /\ \A k \in 1 .. n : o[k] = child[c].outbuf[child[c].n + k]
  <2>1. /\ o \in Seq(Char) /\ Len(o) = (child[c].n + n) - (child[c].n + 1) + 1
        /\ \A k \in 1 .. (child[c].n + n) - (child[c].n + 1) + 1 :
              o[k] = child[c].outbuf[(child[c].n + 1) + k - 1]
    BY <1>6, <1>7, SubSeqProperties
  <2>2. \A k \in 1 .. n : (child[c].n + 1) + k - 1 = child[c].n + k
    BY <1>2, <1>6
  <2> HIDE DEF o
  <2> QED BY <1>6, <2>1, <2>2
<1>9. new \in Child
  <2>1. new.n \in Nat /\ DOMAIN new = {"pc", "outbuf", "n"}
    BY <1>2, <1>6 DEF Child
  <2> QED BY <1>2, <1>6 DEF Child
<1>10. new # NULL /\ new.pc = "send" /\ new.n = child[c].n + n
       /\ new.outbuf = child[c].outbuf
  BY <1>1, <1>2, <1>9, ForkAssumption DEF Child
<1>11. child' = [child EXCEPT ![c] = new]
  BY <1>4
<1>12. echoed' = [echoed EXCEPT ![c] = echoed[c] \o o]
  BY <1>4
<1> QED BY <1>1, <1>5, <1>8, <1>9, <1>10, <1>11, <1>12 DEF Send

(* The other steps of a child: its send returns, or it ends.               *)
LEMMA ReturnSteps ==
    ASSUME TypeOK, NEW c \in Clients, SendDone(c) \/ SendError(c)
    PROVE  /\ Running(c) /\ child[c].pc = "send"
           /\ child' = [child EXCEPT ![c] = Receiving]
           /\ SendDone(c) => Remains(child[c]) = 0 /\ peer' = peer
           /\ SendError(c) => Gone(c)
           /\ \/ peer' = peer
              \/ Gone(c) /\ peer' = [peer EXCEPT ![c] = "broken"]
           /\ UNCHANGED <<pc, fd, stored, conn, backlog, streams>>
<1>1. CASE SendDone(c)
  BY <1>1 DEF SendDone, SendReturns, Receiving, Outgoing, Remains, SendError, Gone
<1>2. CASE SendError(c)
  <2>1. peer[c] = "reset" /\ Gone(c)
    BY <1>2 DEF SendError, Gone
  <2>2. peer' = peer \/ peer' = [peer EXCEPT ![c] = "broken"]
    BY <1>2 DEF SendError, TypeOK
  <2>3. ~ SendDone(c) \/ (Remains(child[c]) = 0 /\ peer' = peer)
    BY DEF SendDone, Outgoing, Remains
  <2> QED BY <1>2, <2>1, <2>2, <2>3 DEF SendError, SendReturns, Receiving
<1> QED BY <1>1, <1>2

LEMMA EndSteps ==
    ASSUME NEW c \in Clients, RecvEnd(c) \/ SendSignal(c)
    PROVE  /\ Running(c)
           /\ child' = [child EXCEPT ![c] = Ended]
           /\ SendSignal(c) => Gone(c)
           /\ RecvEnd(c) => child[c].pc = "recv"
           /\ UNCHANGED <<pc, fd, stored, conn, backlog, peer, streams>>
BY DEF RecvEnd, SendSignal, End, Ended, Gone

-----------------------------------------------------------------------------
(* Type correctness.                                                       *)

LEMMA TypeInit == Init => TypeOK
<1>1. \A S : <<>> \in Seq(S)
  BY EmptySeq
<1> QED BY <1>1, ConnectionsAssumption DEF Init, InitConnections, TypeOK, PeerStates

LEMMA TypeClient == ASSUME TypeOK, NEW c \in Clients, ClientStep(c) PROVE TypeOK'
<1> USE DEF TypeOK
<1>0. UNCHANGED <<pc, fd, child, stored>>
  BY DEF ClientStep
<1>1. CASE Connect(c)
  <2>1. Append(backlog, c) \in Seq(Clients)
    BY AppendProperties
  <2> QED BY <1>0, <1>1, <2>1 DEF Connect, PeerStates
<1>2. CASE ClientSend(c)
  <2>1. PICK b \in Letters : sent' = [sent EXCEPT ![c] = Append(@, b)]
    BY <1>2 DEF ClientSend
  <2>2. Append(sent[c], b) \in Seq(Letters)
    BY AppendProperties
  <2> QED BY <1>0, <1>2, <2>1, <2>2 DEF ClientSend
<1>3. CASE ClientShutdown(c)
  BY <1>0, <1>3 DEF ClientShutdown, PeerStates
<1>4. CASE ClientReset(c)
  BY <1>0, <1>4 DEF ClientReset, PeerStates
<1>5. CASE ClientRead(c)
  BY <1>0, <1>5 DEF ClientRead
<1> QED BY <1>1, <1>2, <1>3, <1>4, <1>5 DEF ClientStep

LEMMA TypeChild == ASSUME TypeOK, NEW c \in Clients, ChildStep(c) PROVE TypeOK'
<1> USE DEF TypeOK
<1>1. CASE Recv(c)
  <2> DEFINE g == Grown(child[c], Byte(c))
             v == IF Fits(child[c].outbuf) /\ ~ Gone(c)
                  THEN Append(stored[c], Byte(c)) ELSE stored[c]
  <2>0. /\ Running(c) /\ child[c].pc = "recv"
        /\ Byte(c) \in Letters /\ Byte(c) \in Char
        /\ child' = [child EXCEPT ![c] = g]
        /\ stored' = [stored EXCEPT ![c] = v]
        /\ rpos' = [rpos EXCEPT ![c] = rpos[c] + 1]
        /\ UNCHANGED <<pc, fd, conn, backlog, peer, sent, echoed, drained>>
    BY <1>1, RecvStep
  <2>1. g \in Child
    BY <2>0, ChildFacts, GrownProperties
  <2>2. stored[c] \in Seq(Letters) /\ Append(stored[c], Byte(c)) \in Seq(Letters)
    BY <2>0, AppendProperties
  <2>3. v \in Seq(Letters)
    BY <2>2
  <2> HIDE DEF g, v
  <2> QED BY <2>0, <2>1, <2>3
<1>2. CASE Send(c)
  <2>1. PICK n \in 1 .. Remains(child[c]) :
          LET o == SubSeq(child[c].outbuf, child[c].n + 1, child[c].n + n)
              new == [child[c] EXCEPT !.n = @ + n] IN
          /\ o \in Seq(Char)
          /\ new \in Child
          /\ child' = [child EXCEPT ![c] = new]
          /\ echoed' = [echoed EXCEPT ![c] = echoed[c] \o o]
          /\ UNCHANGED <<pc, fd, stored, conn, backlog, peer, sent, rpos, drained>>
    BY <1>2, SendStep
  <2> DEFINE o == SubSeq(child[c].outbuf, child[c].n + 1, child[c].n + n)
             new == [child[c] EXCEPT !.n = @ + n]
  <2>2. /\ o \in Seq(Char) /\ new \in Child
        /\ child' = [child EXCEPT ![c] = new]
        /\ echoed' = [echoed EXCEPT ![c] = echoed[c] \o o]
    BY <2>1
  <2> HIDE DEF o, new
  <2>3. echoed[c] \o o \in Seq(Char)
    BY <2>2, ConcatProperties
  <2> QED BY <2>1, <2>2, <2>3
<1>3. CASE SendDone(c) \/ SendError(c)
  BY <1>3, ReturnSteps, NewChildren DEF streams, PeerStates
<1>4. CASE RecvEnd(c) \/ SendSignal(c)
  BY <1>4, EndSteps, NewChildren DEF streams
<1> QED BY <1>1, <1>2, <1>3, <1>4 DEF ChildStep

LEMMA ForkStep ==
    ASSUME TypeOK, Parent, Fork
    PROVE  /\ conn[fd] \in Clients /\ child[conn[fd]] = NULL
           /\ peer[conn[fd]] # "idle" /\ ~ Waits(conn[fd])
           /\ child' = [child EXCEPT ![conn[fd]] = Receiving]
           /\ pc' = "accept"
           /\ UNCHANGED <<fd, stored, conn, backlog, peer, streams>>
BY DEF Fork, Parent, Forking, Receiving

LEMMA TypeParent == ASSUME TypeOK, Parent, ParentStep PROVE TypeOK'
<1> USE DEF TypeOK
<1>1. CASE Fork
  BY <1>1, ForkStep, NewChildren DEF streams
<1>2. CASE ForkFails
  BY <1>2 DEF ForkFails, streams
<1>3. ASSUME NEW f \in Fds, Accept(f) PROVE TypeOK'
  <2>1. Head(backlog) \in Clients /\ Tail(backlog) \in Seq(Clients)
    BY <1>3, FirstWaiting DEF Accept
  <2> QED BY <1>3, <2>1 DEF Accept, streams
<1> QED BY <1>1, <1>2, <1>3 DEF ParentStep

LEMMA TypeStep == TypeOK /\ Parent /\ [Next]_vars => TypeOK'
<1> SUFFICES ASSUME TypeOK, Parent, [Next]_vars PROVE TypeOK'
  OBVIOUS
<1>1. CASE UNCHANGED vars
  BY <1>1 DEF vars, streams, TypeOK
<1> QED BY <1>1, TypeClient, TypeChild, TypeParent DEF Next, AcceptFails

-----------------------------------------------------------------------------
(* The parent.                                                             *)

LEMMA ParentInit == Init => Parent
<1> SUFFICES ASSUME Init PROVE Parent
  OBVIOUS
<1>1. \A k \in 1 .. Len(backlog) : FALSE
  BY EmptySeq DEF Init, InitConnections
<1> QED BY <1>1 DEF Init, InitConnections, Parent, Waits, Forking

(* What keeps the backlog: a client that connected stays so, and who has   *)
(* no child may get one from Fork only.                                    *)
LEMMA ParentKept ==
    ASSUME TypeOK, Parent, UNCHANGED <<conn, backlog, fd>>,
           pc' = pc \/ pc' = "accept",
           \A c \in Clients :
              /\ peer[c] # "idle" <=> peer'[c] # "idle"
              /\ child[c] = NULL <=> child'[c] = NULL
    PROVE  Parent'
<1>1. pc' = "fork" => pc = "fork"
  OBVIOUS
<1>2. \A c : Waits(c)' <=> Waits(c)
  BY DEF Waits
<1>3. \A c : Forking(c)' => Forking(c)
  BY <1>1 DEF Forking
<1> QED BY <1>1, <1>2, <1>3 DEF Parent

LEMMA ParentStepKept == TypeOK /\ Parent /\ [Next]_vars => Parent'
<1> SUFFICES ASSUME TypeOK, Parent, [Next]_vars PROVE Parent'
  OBVIOUS
<1>1. ASSUME NEW c \in Clients, Connect(c), UNCHANGED <<pc, fd, child, stored>>
      PROVE  Parent'
  <2>1. /\ backlog' = Append(backlog, c) /\ conn' = conn
        /\ peer[c] = "idle" /\ peer' = [peer EXCEPT ![c] = "open"]
    BY <1>1 DEF Connect
  <2>2. /\ Len(backlog) \in Nat
        /\ Len(backlog') = Len(backlog) + 1
        /\ \A k \in 1 .. Len(backlog) : backlog'[k] = backlog[k]
        /\ backlog'[Len(backlog) + 1] = c
    BY <2>1, AppendProperties, LenProperties DEF TypeOK
  <2>3. \A k \in 1 .. Len(backlog') : k \in 1 .. Len(backlog) \/ k = Len(backlog) + 1
    BY <2>2
  <2>4. ~ Waits(c) /\ ~ Forking(c)
    BY <2>1 DEF Parent
  <2>5. \A k \in 1 .. Len(backlog) : backlog[k] # c
    BY <2>4 DEF Waits
  <2>6. \A d : Waits(d)' => Waits(d) \/ d = c
    BY <2>2, <2>3 DEF Waits
  <2>7. \A d : Forking(d)' <=> Forking(d)
    BY <1>1, <2>1 DEF Forking
  <2>8. \A k, l \in 1 .. Len(backlog') : backlog'[k] = backlog'[l] => k = l
    BY <2>2, <2>3, <2>5 DEF Parent
  <2>9. peer'[c] = "open" /\ \A d \in Clients : d # c => peer'[d] = peer[d]
    BY <2>1 DEF TypeOK
  <2>10. child[c] = NULL
    BY <2>1 DEF Parent
  <2> QED BY <1>1, <2>1, <2>4, <2>6, <2>7, <2>8, <2>9, <2>10 DEF Parent
<1>2. ASSUME NEW c \in Clients, ClientStep(c), ~ Connect(c) PROVE Parent'
  BY <1>2, ParentKept DEF ClientStep, ClientSend, ClientShutdown, ClientReset, ClientRead, TypeOK
<1>3. ASSUME NEW c \in Clients, ChildStep(c) PROVE Parent'
  <2>1. child[c] # NULL /\ c \in Clients
    BY <1>3 DEF ChildStep, Recv, Send, RecvEnd, SendDone, SendError, SendSignal, Running
  <2>2. \E new : new # NULL /\ child' = [child EXCEPT ![c] = new]
    <3>1. CASE Recv(c)
      <4>1. /\ Running(c) /\ child[c].pc = "recv" /\ Byte(c) \in Char
            /\ child' = [child EXCEPT ![c] = Grown(child[c], Byte(c))]
        BY <3>1, RecvStep
      <4>2. Grown(child[c], Byte(c)) # NULL
        BY <4>1, ChildFacts, GrownProperties
      <4> QED BY <4>1, <4>2
    <3>2. CASE Send(c)
      BY <3>2, SendStep
    <3>3. CASE SendDone(c) \/ SendError(c)
      BY <3>3, ReturnSteps, NewChildren
    <3>4. CASE RecvEnd(c) \/ SendSignal(c)
      BY <3>4, EndSteps, NewChildren
    <3> QED BY <1>3, <3>1, <3>2, <3>3, <3>4 DEF ChildStep
  <2>3. /\ UNCHANGED <<pc, fd, conn, backlog>>
        /\ peer' = peer \/ (Gone(c) /\ peer' = [peer EXCEPT ![c] = "broken"])
    <3>1. CASE Recv(c)
      BY <3>1 DEF Recv
    <3>2. CASE Send(c)
      BY <3>2 DEF Send
    <3>3. CASE SendDone(c) \/ SendError(c)
      BY <3>3, ReturnSteps
    <3>4. CASE RecvEnd(c) \/ SendSignal(c)
      BY <3>4, EndSteps
    <3> QED BY <1>3, <3>1, <3>2, <3>3, <3>4 DEF ChildStep
  <2> QED BY <2>1, <2>2, <2>3, ParentKept DEF TypeOK, Gone
<1>4. CASE Fork
  <2>1. \A d : Waits(d)' <=> Waits(d)
    BY <1>4 DEF Fork, Waits
  <2>2. \A d : ~ Forking(d)'
    BY <1>4 DEF Fork, Forking
  <2>3. \A d \in Clients : d # conn[fd] => child'[d] = child[d]
    BY <1>4 DEF Fork, TypeOK
  <2> QED BY <1>4, <2>1, <2>2, <2>3, ForkStep DEF Parent
<1>5. CASE ForkFails
  BY <1>5, ParentKept DEF ForkFails
<1>6. ASSUME NEW f \in Fds, Accept(f) PROVE Parent'
  <2> DEFINE h == Head(backlog)
  <2>1. /\ backlog # <<>> /\ backlog' = Tail(backlog)
        /\ conn' = [conn EXCEPT ![f] = h] /\ fd' = f /\ pc' = "fork"
        /\ UNCHANGED <<child, stored, peer, streams>>
    BY <1>6 DEF Accept
  <2>2. /\ h \in Clients /\ h = backlog[1]
        /\ Len(backlog) \in Nat /\ Len(backlog) >= 1
        /\ Len(backlog') = Len(backlog) - 1
        /\ \A k \in 1 .. Len(backlog') : /\ k + 1 \in 2 .. Len(backlog)
                                         /\ backlog'[k] = backlog[k + 1]
    BY <2>1, FirstWaiting
  <2>3. conn'[fd'] = h
    BY <2>1 DEF TypeOK
  <2> HIDE DEF h
  <2>4. 1 \in 1 .. Len(backlog) /\ Waits(h)
    BY <2>2 DEF Waits
  <2>5. \A k \in 1 .. Len(backlog') : k + 1 \in 1 .. Len(backlog) /\ k + 1 # 1
    BY <2>2
  <2>6. \A k \in 1 .. Len(backlog') : backlog'[k] # h
    BY <2>2, <2>4, <2>5 DEF Parent
  <2>7. \A k, l \in 1 .. Len(backlog') : backlog'[k] = backlog'[l] => k = l
    <3>1. \A k, l \in 1 .. Len(backlog') : backlog[k + 1] = backlog[l + 1] => k + 1 = l + 1
      BY <2>5 DEF Parent
    <3> QED BY <2>2, <3>1
  <2>8. \A d : Waits(d)' => Waits(d) /\ d # h
    BY <2>2, <2>5, <2>6 DEF Waits
  <2>9. \A d : Forking(d)' <=> d = h
    BY <2>1, <2>3 DEF Forking
  <2> QED BY <2>1, <2>2, <2>3, <2>4, <2>7, <2>8, <2>9 DEF Parent
<1>7. CASE UNCHANGED vars
  BY <1>7, ParentKept DEF vars
<1> QED BY <1>1, <1>2, <1>3, <1>4, <1>5, <1>6, <1>7
        DEF Next, ParentStep, AcceptFails, ClientStep

-----------------------------------------------------------------------------
(* The streams.                                                            *)

LEMMA StreamsInit == Init => Streams
<1> SUFFICES ASSUME Init, NEW c \in Clients PROVE Stream(c)
  BY DEF Streams
<1>1. Len(echoed[c]) = 0 /\ Len(stored[c]) = 0
  BY EmptySeq DEF Init, InitConnections
<1> QED BY <1>1 DEF Init, InitConnections, Stream, Begins, Running

LEMMA StreamKept ==
    ASSUME NEW c \in Clients, Stream(c),
           child'[c] = child[c], stored'[c] = stored[c],
           echoed'[c] = echoed[c], rpos'[c] = rpos[c], Gone(c) => Gone(c)'
    PROVE  Stream(c)'
BY DEF Stream, Running

(* A byte received is appended to both, or dropped from both.              *)
LEMMA CarriesGrown ==
    ASSUME NEW ch \in Child, ch.pc = "recv", Cursor(ch),
           NEW S \in SUBSET Char, NEW ech \in Seq(Char), NEW sto \in Seq(S), NEW b \in S,
           Begins(ech, sto), Carries(ch, ech, sto)
    PROVE  LET acc == IF Fits(ch.outbuf) THEN Append(sto, b) ELSE sto IN
           /\ acc \in Seq(S)
           /\ Begins(ech, acc)
           /\ Carries(Grown(ch, b), ech, acc)
           /\ Cursor(Grown(ch, b))
<1> DEFINE new == Grown(ch, b)
           add == Append(sto, b)
<1>1. /\ ch.n = 0 /\ ch.outbuf \in Seq(Char) /\ Len(ch.outbuf) \in Nat
      /\ Len(ech) \in Nat /\ Len(sto) \in Nat /\ Remains(ch) = Len(ch.outbuf)
      /\ b \in Char
  BY LenProperties DEF Cursor, Child, Remains
<1>2. /\ new.pc = IF b = NL THEN "send" ELSE "recv"
      /\ new.n = 0
      /\ Fits(ch.outbuf) => /\ Len(new.outbuf) = Len(ch.outbuf) + 1
                            /\ new.outbuf[Len(ch.outbuf) + 1] = rot13_char(b)
                            /\ \A k \in 1 .. Len(ch.outbuf) : new.outbuf[k] = ch.outbuf[k]
      /\ ~ Fits(ch.outbuf) => new.outbuf = ch.outbuf
  BY <1>1, GrownProperties
<1>3. /\ add \in Seq(S) /\ Len(add) = Len(sto) + 1 /\ add[Len(sto) + 1] = b
      /\ \A k \in 1 .. Len(sto) : add[k] = sto[k]
  BY AppendProperties
<1> HIDE DEF new, add
<1>4. /\ Len(sto) = Len(ech) + Len(ch.outbuf)
      /\ \A k \in 1 .. Len(ch.outbuf) : ch.outbuf[k] = rot13_char(sto[Len(ech) + k])
      /\ \A k \in Len(ech) + 1 .. Len(sto) : sto[k] # NL
  BY <1>1 DEF Carries
<1>5. CASE Fits(ch.outbuf)
  <2>1. Begins(ech, add)
    BY <1>1, <1>3 DEF Begins
  <2>2. Remains(new) = Len(ch.outbuf) + 1 /\ Len(add) = Len(ech) + Remains(new)
    <3>1. /\ Len(new.outbuf) = Len(ch.outbuf) + 1 /\ new.n = 0
          /\ Len(add) = Len(sto) + 1 /\ Len(sto) = Len(ech) + Len(ch.outbuf)
          /\ Len(ch.outbuf) \in Nat /\ Len(ech) \in Nat
      BY <1>1, <1>2, <1>3, <1>4, <1>5
    <3>2. Remains(new) = Len(ch.outbuf) + 1
      BY <3>1 DEF Remains
    <3> QED BY <3>1, <3>2
  <2>3. ASSUME NEW k \in 1 .. Remains(new)
        PROVE  new.outbuf[new.n + k] = rot13_char(add[Len(ech) + k])
    <3>1. new.n + k = k /\ k \in Nat
      BY <1>2, <2>2, <1>1
    <3>2. CASE k \in 1 .. Len(ch.outbuf)
      <4>1. Len(ech) + k \in 1 .. Len(sto)
        BY <1>1, <1>4, <3>2
      <4> QED BY <1>2, <1>3, <1>4, <1>5, <3>1, <3>2, <4>1
    <3>3. CASE k = Len(ch.outbuf) + 1
      <4>1. Len(ech) + k = Len(sto) + 1
        BY <1>1, <1>4, <3>3
      <4> QED BY <1>2, <1>3, <1>5, <3>1, <3>3, <4>1
    <3>4. k \in 1 .. Len(ch.outbuf) \/ k = Len(ch.outbuf) + 1
      <4>1. Len(ch.outbuf) \in Nat /\ k \in 1 .. Len(ch.outbuf) + 1
        BY <1>1, <2>2
      <4> QED BY <4>1
    <3> QED BY <3>2, <3>3, <3>4
  <2>4. new.pc = "recv" => \A k \in Len(ech) + 1 .. Len(add) : add[k] # NL
    <3> SUFFICES ASSUME b # NL, NEW k \in Len(ech) + 1 .. Len(add) PROVE add[k] # NL
      BY <1>2
    <3>1. k = Len(sto) + 1 \/ (k \in 1 .. Len(sto) /\ k \in Len(ech) + 1 .. Len(sto))
      BY <1>1, <1>3
    <3> QED BY <1>3, <1>4, <3>1
  <2>5. Carries(new, ech, add) /\ Cursor(new)
    BY <1>1, <1>2, <1>5, <2>2, <2>3, <2>4 DEF Carries, Cursor
  <2> QED BY <1>3, <1>5, <2>1, <2>5 DEF new, add
<1>6. CASE ~ Fits(ch.outbuf)
  <2>1. Remains(new) = Remains(ch) /\ new.outbuf = ch.outbuf /\ new.n = ch.n
    BY <1>1, <1>2, <1>6 DEF Remains
  <2>2. Carries(new, ech, sto) /\ Cursor(new)
    BY <1>1, <1>2, <2>1 DEF Carries, Cursor
  <2> QED BY <1>6, <2>2 DEF new
<1> QED BY <1>5, <1>6

(* Bytes sent move from outbuf to what is echoed.                          *)
LEMMA CarriesSent ==
    ASSUME NEW ch \in Child, ch.pc = "send", Cursor(ch),
           NEW ech \in Seq(Char), NEW S, NEW sto \in Seq(S),
           NEW n \in 1 .. Remains(ch), NEW o \in Seq(Char), Len(o) = n,
           \A k \in 1 .. n : o[k] = ch.outbuf[ch.n + k],
           NEW new \in Child, new.pc = "send",
           new.n = ch.n + n, new.outbuf = ch.outbuf,
           Begins(ech, sto), Carries(ch, ech, sto)
    PROVE  /\ Begins(ech \o o, sto)
           /\ Carries(new, ech \o o, sto)
           /\ Cursor(new)
           /\ Len(ech \o o) = Len(ech) + n
           /\ Remains(new) = Remains(ch) - n
<1>1. /\ ch.n \in Nat /\ Len(ch.outbuf) \in Nat
      /\ Len(ech) \in Nat /\ Len(sto) \in Nat
      /\ Remains(ch) \in Nat /\ n \in Nat /\ n >= 1 /\ n <= Remains(ch)
  BY LenProperties DEF Cursor, Child, Remains
<1>2. /\ Len(ech \o o) = Len(ech) + n
      /\ \A k \in 1 .. Len(ech) + n :
            (ech \o o)[k] = IF k <= Len(ech) THEN ech[k] ELSE o[k - Len(ech)]
  BY ConcatProperties
<1>3. Remains(new) = Remains(ch) - n
  BY <1>1 DEF Remains
<1>4. /\ Len(sto) = Len(ech) + Remains(ch)
      /\ \A k \in 1 .. Remains(ch) : ch.outbuf[ch.n + k] = rot13_char(sto[Len(ech) + k])
  BY DEF Carries
<1>5. ASSUME NEW k \in 1 .. Len(ech \o o)
      PROVE  (ech \o o)[k] = rot13_char(sto[k])
  <2>1. CASE k <= Len(ech)
    BY <2>1, <1>1, <1>2 DEF Begins
  <2>2. CASE k > Len(ech)
    <3>1. k - Len(ech) \in 1 .. n /\ ~ (k <= Len(ech)) /\ k \in 1 .. Len(ech) + n
      BY <2>2, <1>1, <1>2
    <3>2. (ech \o o)[k] = ch.outbuf[ch.n + (k - Len(ech))]
      BY <3>1, <1>2
    <3>3. k - Len(ech) \in 1 .. Remains(ch) /\ Len(ech) + (k - Len(ech)) = k
      BY <3>1, <1>1
    <3> QED BY <1>4, <3>2, <3>3
  <2> QED BY <2>1, <2>2, <1>1, <1>2
<1>6. Begins(ech \o o, sto)
  BY <1>1, <1>2, <1>4, <1>5 DEF Begins
<1>7. ASSUME NEW k \in 1 .. Remains(new)
      PROVE  new.outbuf[new.n + k] = rot13_char(sto[Len(ech \o o) + k])
  <2>1. /\ n + k \in 1 .. Remains(ch)
        /\ new.n + k = ch.n + (n + k)
        /\ Len(ech \o o) + k = Len(ech) + (n + k)
    BY <1>1, <1>2, <1>3
  <2> QED BY <1>4, <2>1
<1>8. Carries(new, ech \o o, sto)
  BY <1>1, <1>2, <1>3, <1>4, <1>7 DEF Carries
<1>9. Cursor(new)
  BY <1>1 DEF Cursor, Remains
<1> QED BY <1>2, <1>3, <1>6, <1>8, <1>9

LEMMA StreamsStep == Inv /\ [Next]_vars => Streams'
<1> SUFFICES ASSUME Inv, [Next]_vars, NEW d \in Clients PROVE Stream(d)'
  BY DEF Streams
<1>0. TypeOK /\ Parent /\ Stream(d)
  BY DEF Inv, Streams
<1>1. ASSUME NEW c \in Clients, ClientStep(c) PROVE Stream(d)'
  <2>1. UNCHANGED <<child, stored, echoed, rpos>>
    BY <1>1 DEF ClientStep, Connect, ClientSend, ClientShutdown, ClientReset, ClientRead
  <2>2. Gone(d) => Gone(d)'
    BY <1>0, <1>1 DEF ClientStep, Connect, ClientSend, ClientShutdown, ClientReset,
                      ClientRead, Gone, TypeOK
  <2> QED BY <1>0, <2>1, <2>2, StreamKept
<1>2. CASE ForkFails \/ (\E f \in Fds : Accept(f)) \/ UNCHANGED vars
  BY <1>0, <1>2, StreamKept DEF ForkFails, Accept, vars, streams, Gone
<1>3. CASE Fork
  <2>1. CASE d = conn[fd]
    <3>1. /\ child[d] = NULL /\ child'[d] = Receiving
          /\ UNCHANGED <<stored, echoed, rpos>>
      BY <1>0, <1>3, <2>1, ForkStep DEF TypeOK, streams
    <3>2. Len(stored[d]) = 0 /\ Len(echoed[d]) = 0
      BY <1>0, <3>1, EmptySeq DEF Stream
    <3>3. Carries(Receiving, echoed[d], stored[d])
      BY <3>2, NewChildren DEF Carries
    <3> QED BY <1>0, <3>1, <3>3, NewChildren DEF Stream
  <2>2. CASE d # conn[fd]
    BY <1>0, <1>3, <2>2, ForkStep, StreamKept DEF TypeOK, streams, Gone
  <2> QED BY <2>1, <2>2
<1>4. ASSUME NEW c \in Clients, ChildStep(c) PROVE Stream(d)'
  <2>1. CASE c # d
    <3>1. child'[d] = child[d] /\ stored'[d] = stored[d]
          /\ echoed'[d] = echoed[d] /\ rpos'[d] = rpos[d] /\ peer'[d] = peer[d]
      BY <1>0, <1>4, <2>1 DEF ChildStep, Recv, Send, RecvEnd, SendDone, SendError,
         SendSignal, SendReturns, End, TypeOK, streams
    <3> QED BY <1>0, <3>1, StreamKept DEF Gone
  <2>2. CASE c = d /\ Recv(c)
    <3> DEFINE new == Grown(child[d], Byte(d))
               acc == IF Fits(child[d].outbuf) THEN Append(stored[d], Byte(d)) ELSE stored[d]
    <3>1. /\ Running(d) /\ child[d].pc = "recv" /\ Byte(d) \in Letters /\ Byte(d) \in Char
          /\ child'[d] = new
          /\ stored'[d] = IF ~ Gone(d) THEN acc ELSE stored[d]
          /\ UNCHANGED <<peer, echoed>>
      BY <1>0, <2>2, RecvStep DEF TypeOK
    <3>2. /\ child[d] \in Child /\ Cursor(child[d])
          /\ new # NULL /\ new.pc \in {"send", "recv"}
      BY <1>0, <3>1, ChildFacts, GrownProperties DEF Stream
    <3>3. ~ Gone(d) => /\ Begins(echoed[d], acc)
                       /\ Carries(new, echoed[d], acc)
      <4> SUFFICES ASSUME ~ Gone(d)
                   PROVE  Begins(echoed[d], acc) /\ Carries(new, echoed[d], acc)
        OBVIOUS
      <4>1. /\ Letters \in SUBSET Char /\ echoed[d] \in Seq(Char) /\ stored[d] \in Seq(Letters)
            /\ Begins(echoed[d], stored[d]) /\ Carries(child[d], echoed[d], stored[d])
        BY <1>0, <3>1, Lengths DEF Stream
      <4> QED BY <3>1, <3>2, <4>1, CarriesGrown
    <3>4. Cursor(new)
      <4>1. /\ Len(child[d].outbuf) \in Nat
            /\ new.n = 0 /\ (Len(new.outbuf) = Len(child[d].outbuf) + 1
                              \/ new.outbuf = child[d].outbuf)
        BY <3>1, <3>2, GrownProperties, <1>0, ChildFacts DEF Cursor
      <4> HIDE DEF new
      <4> QED BY <4>1 DEF Cursor
    <3> HIDE DEF new, acc
    <3>5. Gone(d)' <=> Gone(d)
      BY <3>1 DEF Gone
    <3>6. Begins(echoed'[d], stored'[d])
      BY <1>0, <3>1, <3>3 DEF Stream
    <3> QED BY <3>1, <3>2, <3>3, <3>4, <3>5, <3>6 DEF Stream, Running
  <2>3. CASE c = d /\ Send(c)
    <3>1. PICK n \in 1 .. Remains(child[d]) :
             LET o == SubSeq(child[d].outbuf, child[d].n + 1, child[d].n + n)
                 new == [child[d] EXCEPT !.n = @ + n] IN
             /\ Running(d) /\ child[d].pc = "send" /\ ~ Gone(d)
             /\ o \in Seq(Char) /\ Len(o) = n
             /\ \A k \in 1 .. n : o[k] = child[d].outbuf[child[d].n + k]
             /\ new \in Child /\ new # NULL /\ new.pc = "send"
             /\ new.n = child[d].n + n /\ new.outbuf = child[d].outbuf
             /\ child' = [child EXCEPT ![d] = new]
             /\ echoed' = [echoed EXCEPT ![d] = echoed[d] \o o]
             /\ UNCHANGED <<pc, fd, stored, conn, backlog, peer, sent, rpos, drained>>
      BY <1>0, <2>3, SendStep
    <3> DEFINE o == SubSeq(child[d].outbuf, child[d].n + 1, child[d].n + n)
               new == [child[d] EXCEPT !.n = @ + n]
    <3>2. /\ Running(d) /\ child[d].pc = "send" /\ ~ Gone(d)
          /\ o \in Seq(Char) /\ Len(o) = n
          /\ \A k \in 1 .. n : o[k] = child[d].outbuf[child[d].n + k]
          /\ new \in Child /\ new # NULL /\ new.pc = "send"
          /\ new.n = child[d].n + n /\ new.outbuf = child[d].outbuf
          /\ child'[d] = new /\ echoed'[d] = echoed[d] \o o
          /\ stored' = stored /\ peer' = peer
      BY <1>0, <3>1 DEF TypeOK
    <3> HIDE DEF o, new
    <3>3. /\ child[d] \in Child /\ Cursor(child[d])
          /\ echoed[d] \in Seq(Char) /\ stored[d] \in Seq(Letters)
          /\ Begins(echoed[d], stored[d]) /\ Carries(child[d], echoed[d], stored[d])
      BY <1>0, <3>2, ChildFacts, Lengths DEF Stream
    <3>4. Begins(echoed[d] \o o, stored[d]) /\ Carries(new, echoed[d] \o o, stored[d])
          /\ Cursor(new)
      <4> DEFINE ch == child[d]
                 ech == echoed[d]
                 sto == stored[d]
      <4>1. /\ ch \in Child /\ ch.pc = "send" /\ Cursor(ch)
            /\ ech \in Seq(Char) /\ sto \in Seq(Letters)
            /\ n \in 1 .. Remains(ch) /\ o \in Seq(Char) /\ Len(o) = n
            /\ \A k \in 1 .. n : o[k] = ch.outbuf[ch.n + k]
            /\ new \in Child /\ new.pc = "send"
            /\ new.n = ch.n + n /\ new.outbuf = ch.outbuf
            /\ Begins(ech, sto) /\ Carries(ch, ech, sto)
        BY <3>2, <3>3
      <4> HIDE DEF ch, ech, sto
      <4>2. Begins(ech \o o, sto) /\ Carries(new, ech \o o, sto) /\ Cursor(new)
        BY <4>1, CarriesSent
      <4> QED BY <4>2 DEF ch, ech, sto
    <3> QED BY <3>2, <3>4 DEF Stream
  <2>4. CASE c = d /\ (SendDone(c) \/ SendError(c))
    <3>1. /\ Running(d)
          /\ child'[d] = Receiving /\ stored' = stored /\ echoed' = echoed
          /\ SendDone(c) => Remains(child[d]) = 0 /\ peer' = peer
          /\ SendError(c) => Gone(d)
          /\ Gone(d) => Gone(d)'
      BY <1>0, <2>4, ReturnSteps DEF TypeOK, streams, Gone
    <3>2. ASSUME ~ Gone(d)' PROVE Carries(Receiving, echoed[d], stored[d])
      <4>1. Remains(child[d]) = 0 /\ Carries(child[d], echoed[d], stored[d])
        BY <1>0, <2>4, <3>1, <3>2 DEF Stream
      <4>2. Len(stored[d]) = Len(echoed[d])
        BY <4>1, <1>0, Lengths DEF Carries
      <4> QED BY <4>2, <1>0, Lengths, NewChildren DEF Carries
    <3> QED BY <1>0, <3>1, <3>2, NewChildren DEF Stream
  <2>5. CASE c = d /\ (RecvEnd(c) \/ SendSignal(c))
    <3>1. child'[d] = Ended /\ stored' = stored /\ echoed' = echoed
      BY <1>0, <2>5, EndSteps DEF TypeOK, streams
    <3> QED BY <1>0, <3>1, NewChildren DEF Stream, Running
  <2> QED BY <1>4, <2>1, <2>2, <2>3, <2>4, <2>5 DEF ChildStep
<1> QED BY <1>1, <1>2, <1>3, <1>4 DEF Next, ParentStep, AcceptFails

(* A child's buffer, what was stored for it and what it echoed agree in    *)
(* every state.                                                            *)
THEOREM ChildrenInOrder == Spec => []Inv
<1>1. Init => Inv
  BY TypeInit, ParentInit, StreamsInit DEF Inv
<1>2. Inv /\ [Next]_vars => Inv'
  BY TypeStep, ParentStepKept, StreamsStep DEF Inv
<1> QED BY <1>1, <1>2, PTL DEF Spec

-----------------------------------------------------------------------------
(* What is lost: nothing, while all lines fit.                             *)

LEMMA IntactInit == Init => Intact
<1> SUFFICES ASSUME Init, NEW c \in Clients
             PROVE  rpos[c] <= Len(sent[c]) /\ stored[c] = SubSeq(sent[c], 1, rpos[c])
  BY DEF Intact
<1>1. /\ rpos[c] = 0 /\ sent[c] = <<>> /\ stored[c] = <<>> /\ Len(<<>>) = 0
      /\ <<>> \in Seq(Char)
  BY EmptySeq DEF Init, InitConnections
<1>2. SubSeq(<<>>, 1, 0) \in Seq(Char) /\ Len(SubSeq(<<>>, 1, 0)) = 0
  BY <1>1, SubSeqProperties
<1>3. SubSeq(<<>>, 1, 0) = <<>>
  BY <1>2, EmptySeq
<1> QED BY <1>1, <1>3

(* A byte more does not make the lines of a stream fit.                    *)
LEMMA LinesFitShorter ==
    ASSUME NEW s \in Seq(Letters), NEW b \in Letters, LinesFit(Append(s, b))
    PROVE  LinesFit(s)
<1>1. /\ Len(s) \in Nat /\ Len(Append(s, b)) = Len(s) + 1 /\ MaxLine \in Nat
      /\ \A k \in 1 .. Len(s) : Append(s, b)[k] = s[k]
  BY AppendProperties, LenProperties, ForkAssumption
<1> SUFFICES ASSUME NEW k \in 1 .. Len(s) - MaxLine
             PROVE  \E m \in k .. k + MaxLine : s[m] = NL
  BY DEF LinesFit
<1>2. k \in 1 .. Len(Append(s, b)) - MaxLine
  BY <1>1
<1>3. PICK m \in k .. k + MaxLine : Append(s, b)[m] = NL
  BY <1>2 DEF LinesFit
<1>4. m \in 1 .. Len(s)
  BY <1>1
<1> QED BY <1>1, <1>3, <1>4

LEMMA Prefixes ==
    ASSUME NEW s \in Seq(Letters), NEW b \in Letters, NEW n \in 0 .. Len(s)
    PROVE  SubSeq(Append(s, b), 1, n) = SubSeq(s, 1, n)
<1>1. /\ Len(s) \in Nat /\ Append(s, b) \in Seq(Letters)
      /\ \A k \in 1 .. Len(s) : Append(s, b)[k] = s[k]
  BY AppendProperties, LenProperties
<1>2. \A k \in 1 .. n : s[k] \in Letters /\ Append(s, b)[k] = s[k]
  BY <1>1, ElementOfSeq
<1>3. /\ SubSeq(s, 1, n) \in Seq(Letters) /\ Len(SubSeq(s, 1, n)) = n
      /\ \A k \in 1 .. n : SubSeq(s, 1, n)[k] = s[k]
  BY <1>1, <1>2, SubSeqProperties
<1>4. /\ SubSeq(Append(s, b), 1, n) \in Seq(Letters)
      /\ Len(SubSeq(Append(s, b), 1, n)) = n
      /\ \A k \in 1 .. n : SubSeq(Append(s, b), 1, n)[k] = Append(s, b)[k]
  BY <1>1, <1>2, SubSeqProperties
<1> QED BY <1>2, <1>3, <1>4, SeqEqual

LEMMA NextPrefix ==
    ASSUME NEW s \in Seq(Letters), NEW n \in 0 .. Len(s) - 1
    PROVE  Append(SubSeq(s, 1, n), s[n + 1]) = SubSeq(s, 1, n + 1)
<1>1. Len(s) \in Nat /\ n \in Nat /\ n + 1 <= Len(s)
  BY LenProperties
<1>2. \A k \in 1 .. n + 1 : s[k] \in Letters
  BY <1>1, ElementOfSeq
<1>3. /\ SubSeq(s, 1, n) \in Seq(Letters) /\ Len(SubSeq(s, 1, n)) = n
      /\ \A k \in 1 .. n : SubSeq(s, 1, n)[k] = s[k]
  BY <1>1, <1>2, SubSeqProperties
<1>4. /\ SubSeq(s, 1, n + 1) \in Seq(Letters) /\ Len(SubSeq(s, 1, n + 1)) = n + 1
      /\ \A k \in 1 .. n + 1 : SubSeq(s, 1, n + 1)[k] = s[k]
  BY <1>1, <1>2, SubSeqProperties
<1> DEFINE a == Append(SubSeq(s, 1, n), s[n + 1])
<1>5. /\ a \in Seq(Letters) /\ Len(a) = n + 1 /\ a[n + 1] = s[n + 1]
      /\ \A k \in 1 .. n : a[k] = s[k]
  BY <1>1, <1>2, <1>3, AppendProperties
<1> HIDE DEF a
<1>6. \A k \in 1 .. n + 1 : a[k] = s[k]
  BY <1>1, <1>5
<1>7. a = SubSeq(s, 1, n + 1)
  BY <1>4, <1>5, <1>6, SeqEqual
<1> QED BY <1>7 DEF a

(* outbuf is full only when MAX_LINE + 1 bytes in a row held no newline.   *)
LEMMA FitsIfLinesFit ==
    ASSUME TypeOK, NEW c \in Clients, Stream(c), Running(c), child[c].pc = "recv",
           ~ Gone(c), rpos[c] <= Len(sent[c]), LinesFit(sent[c]),
           stored[c] = SubSeq(sent[c], 1, rpos[c])
    PROVE  Fits(child[c].outbuf)
<1> DEFINE out == child[c].outbuf
           e == Len(echoed[c])
<1>1. /\ e \in Nat /\ rpos[c] \in Nat /\ Len(sent[c]) \in Nat /\ Len(out) \in Nat
      /\ sent[c] \in Seq(Letters) /\ MaxLine \in Nat
  BY Lengths, ChildFacts, ForkAssumption
<1>2. \A k \in 1 .. rpos[c] : sent[c][k] \in Letters
  BY <1>1, ElementOfSeq
<1>3. Len(stored[c]) = rpos[c] /\ \A k \in 1 .. rpos[c] : stored[c][k] = sent[c][k]
  BY <1>1, <1>2, SubSeqProperties
<1>4. /\ rpos[c] = e + Len(out)
      /\ \A k \in e + 1 .. rpos[c] : stored[c][k] # NL
  <2>1. Carries(child[c], echoed[c], stored[c]) /\ child[c].n = 0
    BY DEF Stream, Cursor
  <2>2. Remains(child[c]) = Len(out)
    BY <1>1, <2>1 DEF Remains
  <2> QED BY <1>3, <2>1, <2>2 DEF Carries
<1> HIDE DEF e, out
<1>5. ASSUME Len(out) > MaxLine PROVE FALSE
  <2>1. e + 1 \in 1 .. Len(sent[c]) - MaxLine
    BY <1>1, <1>4, <1>5
  <2>2. PICK m \in e + 1 .. (e + 1) + MaxLine : sent[c][m] = NL
    BY <2>1 DEF LinesFit
  <2>3. m \in e + 1 .. rpos[c] /\ m \in 1 .. rpos[c]
    BY <1>1, <1>4, <1>5
  <2> QED BY <1>3, <1>4, <2>2, <2>3
<1>6. Len(out) < MaxLine + 1
  BY <1>1, <1>5
<1> QED BY <1>6 DEF Fits, out

LEMMA IntactStep == Inv /\ Intact /\ [Next]_vars => Intact'
<1> SUFFICES ASSUME Inv, Intact, [Next]_vars, NEW d \in Clients
             PROVE  /\ rpos'[d] <= Len(sent'[d])
                    /\ LinesFit(sent'[d]) /\ ~ Gone(d)'
                          => stored'[d] = SubSeq(sent'[d], 1, rpos'[d])
  BY DEF Intact
<1>0. /\ TypeOK /\ Stream(d) /\ rpos[d] <= Len(sent[d])
      /\ LinesFit(sent[d]) /\ ~ Gone(d) => stored[d] = SubSeq(sent[d], 1, rpos[d])
      /\ rpos[d] \in Nat /\ Len(sent[d]) \in Nat /\ sent[d] \in Seq(Letters)
  BY Lengths DEF Inv, Streams, Intact
<1>1. CASE UNCHANGED <<sent, rpos, stored>> /\ (Gone(d) => Gone(d)')
  BY <1>0, <1>1
<1>2. ASSUME NEW c \in Clients, ClientStep(c), ClientSend(c)
      PROVE  /\ rpos'[d] <= Len(sent'[d])
             /\ LinesFit(sent'[d]) /\ ~ Gone(d)'
                   => stored'[d] = SubSeq(sent'[d], 1, rpos'[d])
  <2>1. /\ UNCHANGED <<rpos, stored, peer>>
        /\ \E b \in Letters : sent' = [sent EXCEPT ![c] = Append(@, b)]
    BY <1>2 DEF ClientStep, ClientSend
  <2>2. CASE c # d
    <3>1. sent'[d] = sent[d]
      BY <1>0, <2>1, <2>2 DEF TypeOK
    <3> QED BY <1>0, <2>1, <3>1 DEF Gone
  <2>3. CASE c = d
    <3>1. PICK b \in Letters : sent'[d] = Append(sent[d], b)
      BY <1>0, <2>1, <2>3 DEF TypeOK
    <3>2. rpos[d] \in 0 .. Len(sent[d]) /\ Len(sent'[d]) = Len(sent[d]) + 1
      BY <1>0, <3>1, AppendProperties
    <3>3. SubSeq(sent'[d], 1, rpos[d]) = SubSeq(sent[d], 1, rpos[d])
      BY <1>0, <3>1, <3>2, Prefixes
    <3>4. LinesFit(sent'[d]) => LinesFit(sent[d])
      BY <1>0, <3>1, LinesFitShorter
    <3> QED BY <1>0, <2>1, <3>2, <3>3, <3>4 DEF Gone
  <2> QED BY <2>2, <2>3
<1>3. ASSUME NEW c \in Clients, ClientStep(c), ~ ClientSend(c)
      PROVE  UNCHANGED <<sent, rpos, stored>> /\ (Gone(d) => Gone(d)')
  BY <1>0, <1>3 DEF ClientStep, Connect, ClientShutdown, ClientReset, ClientRead, Gone, TypeOK
<1>4. CASE AcceptFails \/ Fork \/ ForkFails \/ (\E f \in Fds : Accept(f)) \/ UNCHANGED vars
  <2>1. UNCHANGED <<sent, rpos, stored, peer>>
    BY <1>4 DEF AcceptFails, Fork, ForkFails, Accept, vars, streams
  <2> QED BY <1>1, <2>1 DEF Gone
<1>5. ASSUME NEW c \in Clients, ChildStep(c), ~ Recv(c)
      PROVE  UNCHANGED <<sent, rpos, stored>> /\ (Gone(d) => Gone(d)')
  BY <1>0, <1>5 DEF ChildStep, Send, RecvEnd, SendDone, SendError, SendSignal,
     SendReturns, End, streams, Gone, TypeOK
<1>6. ASSUME NEW c \in Clients, Recv(c)
      PROVE  /\ rpos'[d] <= Len(sent'[d])
             /\ LinesFit(sent'[d]) /\ ~ Gone(d)'
                   => stored'[d] = SubSeq(sent'[d], 1, rpos'[d])
  <2>1. CASE c # d
    <3>1. /\ rpos'[d] = rpos[d] /\ sent' = sent /\ stored'[d] = stored[d] /\ peer' = peer
      BY <1>0, <1>6, <2>1 DEF Recv, TypeOK
    <3> QED BY <1>0, <3>1 DEF Gone
  <2>2. CASE c = d
    <3>1. /\ Running(d) /\ child[d].pc = "recv" /\ peer' = peer /\ sent' = sent
          /\ rpos[d] + 1 \in 1 .. Len(sent[d])
          /\ stored'[d] = IF Fits(child[d].outbuf) /\ ~ Gone(d)
                          THEN Append(stored[d], Byte(d)) ELSE stored[d]
          /\ rpos'[d] = rpos[d] + 1
      BY <1>0, <1>6, <2>2, RecvStep DEF TypeOK
    <3> SUFFICES ASSUME LinesFit(sent[d]), ~ Gone(d)
                 PROVE  stored'[d] = SubSeq(sent[d], 1, rpos[d] + 1)
      BY <1>0, <3>1 DEF Gone
    <3>2. Fits(child[d].outbuf)
      BY <1>0, <3>1, FitsIfLinesFit
    <3>3. rpos[d] \in 0 .. Len(sent[d]) - 1
      BY <1>0, <3>1
    <3> QED BY <1>0, <3>1, <3>2, <3>3, NextPrefix DEF Byte
  <2> QED BY <2>1, <2>2
<1> QED BY <1>1, <1>2, <1>3, <1>4, <1>5, <1>6 DEF Next, ParentStep, ChildStep

(* A child loses nothing of a stream whose lines have at most MAX_LINE     *)
(* bytes and a newline, however its sends are cut.                         *)
THEOREM NothingIsLostIfLinesFit == Spec => []NothingLostIfLinesFit
<1>1. Intact => NothingLostIfLinesFit
  BY DEF Intact, NothingLostIfLinesFit
<1> QED BY <1>1, IntactInit, IntactStep, ChildrenInOrder, PTL DEF Spec

-----------------------------------------------------------------------------
(* The refinement.                                                         *)

LEMMA SameTransformation ==
    LE!NL = NL /\ \A s : LE!Rot13(s) = Rot13(s)
BY DEF LE!NL, NL, LE!Rot13, Rot13, LE!rot13_char, rot13_char,
       LE!FirstHalf, FirstHalf, LE!SecondHalf, SecondHalf

LEMMA EchoPrefix ==
    ASSUME NEW S \in SUBSET Char, NEW ech \in Seq(Char), NEW sto \in Seq(S),
           Begins(ech, sto)
    PROVE  ech = Rot13(SubSeq(sto, 1, Len(ech)))
<1> DEFINE pre == SubSeq(sto, 1, Len(ech))
<1>1. Len(ech) \in Nat /\ Len(sto) \in Nat
  BY LenProperties
<1>2. Len(ech) <= Len(sto) /\ \A k \in 1 .. Len(ech) : ech[k] = rot13_char(sto[k])
  BY DEF Begins
<1>3. \A k \in 1 .. Len(ech) : sto[k] \in Char
  <2>1. \A k \in 1 .. Len(ech) : k \in 1 .. Len(sto) BY <1>1, <1>2
  <2> QED BY <2>1, ElementOfSeq
<1>4. /\ pre \in Seq(Char) /\ Len(pre) = Len(ech)
      /\ \A k \in 1 .. Len(ech) : pre[k] = sto[k]
  BY <1>1, <1>3, SubSeqProperties
<1>5. Rot13(pre) = [k \in 1 .. Len(ech) |-> ech[k]]
  BY <1>2, <1>4 DEF Rot13
<1>6. ech = [k \in 1 .. Len(ech) |-> ech[k]]
  BY <1>1, LenProperties
<1> QED BY <1>5, <1>6

(* Who was hung up, and what is committed.                                 *)
NotYet(c) == peer[c] = "idle" \/ Forking(c) \/ Waits(c)

LEMMA HungUpMeans ==
    ASSUME NEW c \in Clients
    PROVE  /\ c \in HungUp <=> Gone(c) \/ (~ NotYet(c) /\ ~ Running(c))
           /\ c \in HungUp' <=> Gone(c)' \/ (~ NotYet(c)' /\ ~ Running(c)')
BY DEF HungUp, NotYet, Forking, Waits

LEMMA CommittedMeans ==
    ASSUME NEW c
    PROVE  /\ Running(c) /\ child[c].pc = "send" /\ ~ Gone(c)
                 => Committed(c) = Len(echoed[c]) + Remains(child[c])
           /\ ~ (Running(c) /\ child[c].pc = "send" /\ ~ Gone(c)) /\ Len(echoed[c]) \in Nat
                 => Committed(c) = Len(echoed[c])
BY DEF Committed, Outgoing, Remains

LEMMA CommittedMeansAfter ==
    ASSUME NEW c
    PROVE  /\ Running(c)' /\ child'[c].pc = "send" /\ ~ Gone(c)'
                 => Committed(c)' = Len(echoed'[c]) + Remains(child'[c])
           /\ ~ (Running(c)' /\ child'[c].pc = "send" /\ ~ Gone(c)') /\ Len(echoed'[c]) \in Nat
                 => Committed(c)' = Len(echoed'[c])
BY DEF Committed, Outgoing, Remains, Running, Gone

RefinesStep ==
    \/ LE!HangUp
    \/ \E c \in Clients : LE!Receive(c) \/ LE!Echo(c)
    \/ UNCHANGED LE!evars

(* A step that accepts and echoes nothing hangs up, or does nothing: who   *)
(* newly is hung up has only what was echoed committed, all others what    *)
(* they had.                                                               *)
LEMMA RefineQuiet ==
    ASSUME TypeOK, UNCHANGED <<stored, echoed>>,
           \A c \in Clients : c \in HungUp => c \in HungUp',
           \A c \in Clients :
              Committed(c)' = IF c \in HungUp' /\ c \notin HungUp
                              THEN Len(echoed[c]) ELSE Committed(c)
    PROVE  LE!HangUp
<1> DEFINE C == HungUp' \ HungUp
<1>1. HungUp \subseteq Clients /\ HungUp' \subseteq Clients
  BY DEF HungUp
<1>2. C \in SUBSET (Clients \ HungUp) /\ HungUp' = HungUp \cup C
  BY <1>1
<1>3. [c \in Clients |-> Committed(c)']
         = [c \in Clients |-> IF c \in C THEN Len(echoed[c])
                              ELSE [d \in Clients |-> Committed(d)][c]]
  BY <1>2
<1> HIDE DEF C
<1> QED BY <1>2, <1>3 DEF LE!HangUp

(* The condition above, for one client.                                    *)
Quiet(d) ==
    /\ d \in HungUp => d \in HungUp'
    /\ Committed(d)' = IF d \in HungUp' /\ d \notin HungUp
                       THEN Len(echoed[d]) ELSE Committed(d)

LEMMA QuietClient ==
    ASSUME TypeOK, NEW d \in Clients, echoed'[d] = echoed[d], child'[d] = child[d],
           Gone(d) => Gone(d)', NotYet(d)' <=> NotYet(d)
    PROVE  Quiet(d)
<1>1. Len(echoed[d]) \in Nat
  BY Lengths
<1>2. Running(d)' <=> Running(d)
  BY DEF Running
<1>3. d \in HungUp => d \in HungUp'
  BY <1>2, HungUpMeans
<1>4. d \in HungUp' /\ d \notin HungUp => Gone(d)'
  BY <1>2, HungUpMeans
<1>5. d \in HungUp' /\ d \notin HungUp => Committed(d)' = Len(echoed[d])
  BY <1>1, <1>4, CommittedMeansAfter
<1>6. (Gone(d)' <=> Gone(d)) => Committed(d)' = Committed(d)
  BY <1>1, <1>2 DEF Committed, Outgoing
<1>7. ASSUME ~ (d \in HungUp' /\ d \notin HungUp), ~ (Gone(d)' <=> Gone(d))
      PROVE  Committed(d)' = Committed(d)
  <2>1. Gone(d)' /\ ~ Gone(d) /\ ~ Running(d)
    BY <1>7, HungUpMeans
  <2> QED BY <1>1, <2>1, CommittedMeans, CommittedMeansAfter
<1> QED BY <1>3, <1>5, <1>6, <1>7 DEF Quiet

(* A client that has done with its child, or never gets one, and one whose *)
(* outbuf is emptied.                                                      *)
LEMMA QuietNew ==
    ASSUME TypeOK, NEW d \in Clients, echoed'[d] = echoed[d],
           ~ (Running(d)' /\ child'[d].pc = "send"),
           \/ Gone(d)
           \/ /\ ~ (Running(d) /\ child[d].pc = "send" /\ Remains(child[d]) # 0)
              /\ d \notin HungUp
           \/ d \notin HungUp /\ d \in HungUp',
           d \in HungUp => d \in HungUp'
    PROVE  Quiet(d)
<1>1. Len(echoed[d]) \in Nat
  BY Lengths
<1>2. Committed(d)' = Len(echoed[d])
  BY <1>1, CommittedMeansAfter
<1>3. CASE Gone(d)
  BY <1>1, <1>2, <1>3, CommittedMeans DEF Quiet
<1>4. CASE ~ (Running(d) /\ child[d].pc = "send" /\ Remains(child[d]) # 0)
  <2>1. Committed(d) = Len(echoed[d])
    BY <1>1, <1>4, CommittedMeans
  <2> QED BY <1>2, <2>1 DEF Quiet
<1> QED BY <1>2, <1>3, <1>4 DEF Quiet

LEMMA RefineParent ==
    ASSUME Inv, ParentStep, NEW d \in Clients
    PROVE  Quiet(d)
<1>0. TypeOK /\ Parent
  BY DEF Inv
<1>1. CASE Fork
  <2>1. /\ pc = "fork" /\ pc' = "accept"
        /\ child' = [child EXCEPT ![conn[fd]] = Receiving]
        /\ UNCHANGED <<fd, stored, conn, backlog, peer, streams>>
    BY <1>0, <1>1, ForkStep DEF Fork
  <2>2. Waits(d)' <=> Waits(d)
    BY <2>1 DEF Waits
  <2>3. ~ Forking(d)' /\ (Forking(d) <=> d = conn[fd])
    BY <2>1 DEF Forking
  <2>4. CASE d = conn[fd]
    <3>1. /\ child[d] = NULL /\ child'[d] = Receiving
          /\ echoed' = echoed /\ peer' = peer /\ NotYet(d)
      BY <1>0, <1>1, <2>1, <2>3, <2>4, ForkStep DEF TypeOK, streams, NotYet
    <3>2. Running(d)' /\ child'[d].pc = "recv" /\ ~ Running(d)
      BY <3>1, NewChildren DEF Running
    <3>3. d \in HungUp => Gone(d)
      BY <3>1, HungUpMeans
    <3>4. Gone(d) => d \in HungUp'
      BY <3>1, HungUpMeans DEF Gone
    <3> QED BY <1>0, <3>1, <3>2, <3>3, <3>4, QuietNew
  <2>5. CASE d # conn[fd]
    <3>1. NotYet(d)' <=> NotYet(d)
      BY <2>1, <2>2, <2>3, <2>5 DEF NotYet
    <3> QED BY <1>0, <2>1, <2>5, <3>1, QuietClient DEF TypeOK, streams, Gone
  <2> QED BY <2>4, <2>5
<1>2. CASE ForkFails
  <2>1. /\ pc = "fork" /\ pc' = "accept"
        /\ UNCHANGED <<fd, child, stored, conn, backlog, peer, streams>>
    BY <1>2 DEF ForkFails
  <2>2. (Waits(d)' <=> Waits(d)) /\ ~ Forking(d)'
    BY <2>1 DEF Waits, Forking
  <2>3. CASE Forking(d)
    <3>1. child[d] = NULL /\ NotYet(d) /\ ~ Waits(d) /\ peer[d] # "idle"
      BY <1>0, <2>3 DEF Parent, NotYet
    <3>2. ~ Running(d) /\ ~ Running(d)' /\ d \in HungUp'
      BY <2>1, <2>2, <3>1, HungUpMeans DEF Running, NotYet
    <3>3. d \in HungUp => Gone(d)
      BY <3>1, HungUpMeans
    <3> QED BY <1>0, <2>1, <3>2, <3>3, QuietNew DEF streams
  <2>4. CASE ~ Forking(d)
    <3>1. NotYet(d)' <=> NotYet(d)
      BY <2>1, <2>2, <2>4 DEF NotYet
    <3> QED BY <1>0, <2>1, <3>1, QuietClient DEF streams, Gone
  <2> QED BY <2>3, <2>4
<1>3. ASSUME NEW f \in Fds, Accept(f) PROVE Quiet(d)
  <2> DEFINE h == Head(backlog)
  <2>1. /\ backlog # <<>> /\ backlog' = Tail(backlog) /\ pc = "accept"
        /\ conn' = [conn EXCEPT ![f] = h] /\ fd' = f /\ pc' = "fork"
        /\ UNCHANGED <<child, stored, peer, streams>>
    BY <1>3 DEF Accept
  <2>2. /\ h \in Clients /\ h = backlog[1]
        /\ Len(backlog) \in Nat /\ Len(backlog) >= 1
        /\ Len(backlog') = Len(backlog) - 1
        /\ \A k \in 1 .. Len(backlog') : /\ k + 1 \in 2 .. Len(backlog)
                                         /\ backlog'[k] = backlog[k + 1]
    BY <1>0, <2>1, FirstWaiting
  <2>3. conn'[fd'] = h
    BY <1>0, <2>1 DEF TypeOK
  <2> HIDE DEF h
  <2>4. Forking(d)' <=> d = h
    BY <2>1, <2>3 DEF Forking
  <2>5. ~ Forking(d)
    BY <2>1 DEF Forking
  <2>6. Waits(d)' \/ d = h <=> Waits(d)
    <3>1. ASSUME NEW k \in 1 .. Len(backlog), backlog[k] = d, d # h
          PROVE  \E l \in 1 .. Len(backlog') : backlog'[l] = d
      <4>1. k # 1
        BY <2>2, <3>1
      <4>2. k - 1 \in 1 .. Len(backlog') /\ (k - 1) + 1 = k
        BY <2>2, <4>1
      <4> QED BY <2>2, <3>1, <4>2
    <3>2. ASSUME NEW k \in 1 .. Len(backlog'), backlog'[k] = d
          PROVE  \E l \in 1 .. Len(backlog) : backlog[l] = d
      <4>1. k + 1 \in 1 .. Len(backlog)
        BY <2>2
      <4> QED BY <2>2, <3>2, <4>1
    <3>3. 1 \in 1 .. Len(backlog)
      BY <2>2
    <3> QED BY <2>2, <3>1, <3>2, <3>3 DEF Waits
  <2>7. NotYet(d)' <=> NotYet(d)
    BY <2>1, <2>4, <2>5, <2>6 DEF NotYet
  <2> QED BY <1>0, <2>1, <2>7, QuietClient DEF streams, Gone
<1> QED BY <1>1, <1>2, <1>3 DEF ParentStep

LEMMA RefineClient ==
    ASSUME Inv, NEW c \in Clients, ClientStep(c), NEW d \in Clients
    PROVE  Quiet(d)
<1>0. TypeOK /\ Parent
  BY DEF Inv
<1>1. /\ UNCHANGED <<pc, fd, child, stored, conn, echoed>>
      /\ Gone(d) => Gone(d)'
  BY <1>0 DEF ClientStep, Connect, ClientSend, ClientShutdown, ClientReset, ClientRead,
              Gone, TypeOK
<1>2. Forking(d)' <=> Forking(d)
  BY <1>1 DEF Forking
<1>3. NotYet(d)' <=> NotYet(d)
  <2>1. CASE Connect(c)
    <3>1. /\ Len(backlog) \in Nat
          /\ Len(backlog') = Len(backlog) + 1
          /\ \A k \in 1 .. Len(backlog) : backlog'[k] = backlog[k]
          /\ backlog'[Len(backlog) + 1] = c
      BY <1>0, <2>1, AppendProperties, LenProperties DEF Connect, TypeOK
    <3>2. Len(backlog) + 1 \in 1 .. Len(backlog')
      BY <3>1
    <3>3. Waits(d)' <=> Waits(d) \/ d = c
      BY <3>1, <3>2 DEF Waits
    <3>4. /\ peer[c] = "idle" /\ peer'[c] = "open"
          /\ d # c => peer'[d] = peer[d]
      BY <1>0, <2>1 DEF Connect, TypeOK
    <3> QED BY <1>2, <3>3, <3>4 DEF NotYet
  <2>2. CASE ~ Connect(c)
    <3>1. backlog' = backlog /\ (peer'[d] = "idle" <=> peer[d] = "idle")
      BY <1>0, <2>2 DEF ClientStep, ClientSend, ClientShutdown, ClientReset, ClientRead, TypeOK
    <3>2. Waits(d)' <=> Waits(d)
      BY <3>1 DEF Waits
    <3> QED BY <1>2, <3>1, <3>2 DEF NotYet
  <2> QED BY <2>1, <2>2
<1> QED BY <1>0, <1>1, <1>3, QuietClient

(* The steps of a child leave who waits as it is.                          *)
LEMMA ChildKeeps ==
    ASSUME Inv, NEW c \in Clients, ChildStep(c)
    PROVE  /\ UNCHANGED <<pc, fd, conn, backlog>>
           /\ Running(c) /\ ~ NotYet(c)
           /\ \A d \in Clients : /\ Gone(d)' <=> Gone(d)
                                 /\ NotYet(d)' <=> NotYet(d)
           /\ \A d \in Clients : d # c => /\ child'[d] = child[d] /\ echoed'[d] = echoed[d]
                                          /\ stored'[d] = stored[d]
<1>0. TypeOK /\ Parent
  BY DEF Inv
<1>1. /\ UNCHANGED <<pc, fd, conn, backlog>>
      /\ peer' = peer \/ (Gone(c) /\ peer' = [peer EXCEPT ![c] = "broken"])
      /\ Running(c)
  <2>1. CASE Recv(c) \/ Send(c)
    BY <2>1 DEF Recv, Send
  <2>2. CASE SendDone(c) \/ SendError(c)
    BY <1>0, <2>2, ReturnSteps
  <2>3. CASE RecvEnd(c) \/ SendSignal(c)
    BY <2>3, EndSteps
  <2> QED BY <2>1, <2>2, <2>3 DEF ChildStep
<1>2. ~ NotYet(c)
  BY <1>0, <1>1 DEF NotYet, Parent, Running
<1>3. \A d \in Clients : /\ Gone(d)' <=> Gone(d)
                         /\ peer'[d] = "idle" <=> peer[d] = "idle"
  BY <1>0, <1>1 DEF Gone, TypeOK
<1>4. \A d : (Waits(d)' <=> Waits(d)) /\ (Forking(d)' <=> Forking(d))
  BY <1>1 DEF Waits, Forking
<1>5. \A d \in Clients : NotYet(d)' <=> NotYet(d)
  BY <1>3, <1>4 DEF NotYet
<1>6. \A d \in Clients : d # c => /\ child'[d] = child[d] /\ echoed'[d] = echoed[d]
                                  /\ stored'[d] = stored[d]
  BY <1>0 DEF ChildStep, Recv, Send, RecvEnd, SendDone, SendError,
              SendSignal, SendReturns, End, TypeOK, streams
<1> QED BY <1>1, <1>2, <1>3, <1>5, <1>6

LEMMA QuietGone ==
    ASSUME TypeOK, NEW d \in Clients, echoed'[d] = echoed[d], Gone(d), Gone(d)'
    PROVE  Quiet(d)
<1>1. Len(echoed[d]) \in Nat
  BY Lengths
<1>2. Committed(d) = Len(echoed[d]) /\ Committed(d)' = Len(echoed[d])
  BY <1>1, CommittedMeans, CommittedMeansAfter
<1>3. d \in HungUp /\ d \in HungUp'
  BY HungUpMeans
<1> QED BY <1>2, <1>3 DEF Quiet

(* A child that commits nothing: it receives from a client that is gone,   *)
(* or its send returns, or it ends.                                        *)
LEMMA RefineQuietChild ==
    ASSUME Inv, NEW c \in Clients, ChildStep(c), ~ Send(c), ~ Recv(c) \/ Gone(c),
           NEW d \in Clients
    PROVE  Quiet(d)
<1>0. /\ TypeOK /\ Stream(d)
      /\ Running(c) /\ ~ NotYet(c)
      /\ Gone(d)' <=> Gone(d)
      /\ NotYet(d)' <=> NotYet(d)
      /\ d # c => child'[d] = child[d] /\ echoed'[d] = echoed[d]
  BY ChildKeeps DEF Inv, Streams
<1>1. CASE d # c
  BY <1>0, <1>1, QuietClient
<1>2. CASE d = c /\ Gone(c)
  <2>1. echoed' = echoed
    BY DEF ChildStep, Recv, RecvEnd, SendDone, SendError, SendSignal, SendReturns, End, streams
  <2> QED BY <1>0, <1>2, <2>1, QuietGone
<1>3. CASE d = c /\ ~ Gone(c) /\ (SendDone(c) \/ SendError(c))
  <2>1. /\ child'[d] = Receiving /\ echoed' = echoed /\ Remains(child[d]) = 0
    BY <1>0, <1>3, ReturnSteps DEF TypeOK, streams
  <2>2. d \notin HungUp
    BY <1>0, <1>3, HungUpMeans
  <2> QED BY <1>0, <2>1, <2>2, NewChildren, QuietNew
<1>4. CASE d = c /\ ~ Gone(c) /\ (RecvEnd(c) \/ SendSignal(c))
  <2>1. child'[d] = Ended /\ echoed' = echoed
    BY <1>0, <1>4, EndSteps DEF TypeOK, streams
  <2>2. ~ Running(d)'
    BY <2>1, NewChildren DEF Running
  <2>3. d \notin HungUp /\ d \in HungUp'
    BY <1>0, <1>4, <2>2, HungUpMeans
  <2> QED BY <1>0, <2>1, <2>2, <2>3, QuietNew
<1> QED BY <1>1, <1>2, <1>3, <1>4 DEF ChildStep

(* A byte received while the client is there is accepted if it fits, and a *)
(* newline commits all that was accepted.                                  *)
LEMMA RefineRecv ==
    ASSUME Inv, Inv', NEW c \in Clients, Recv(c), ~ Gone(c)
    PROVE  LE!Receive(c)
<1> DEFINE b == Byte(c)
           s == IF Fits(child[c].outbuf) THEN <<b>> ELSE <<>>
           acc == stored'[c]
           k == Committed(c)'
<1>0. TypeOK /\ Stream(c) /\ Stream(c)' /\ TypeOK'
  BY DEF Inv, Streams
<1>1. /\ Running(c) /\ child[c].pc = "recv" /\ b \in Letters /\ b \in Char
      /\ child'[c] = Grown(child[c], b)
      /\ stored' = [stored EXCEPT ![c] = IF Fits(child[c].outbuf)
                                         THEN Append(stored[c], b) ELSE stored[c]]
      /\ UNCHANGED <<pc, fd, conn, backlog, peer, sent, echoed, drained>>
  BY <1>0, RecvStep DEF TypeOK
<1>2. /\ stored[c] \in Seq(Letters) /\ Len(stored[c]) \in Nat
      /\ acc \in Seq(Letters) /\ Len(acc) \in Nat
      /\ Len(echoed[c]) \in Nat
  BY <1>0, <1>1, Lengths, LenProperties DEF TypeOK
<1>3. /\ ~ Gone(c)' /\ Running(c)'
      /\ child'[c].pc = IF b = NL THEN "send" ELSE "recv"
      /\ child'[c].n = 0
  <2>1. child[c] \in Child /\ child[c].n = 0
    BY <1>0, <1>1, ChildFacts DEF Stream, Cursor
  <2>2. /\ Grown(child[c], b) # NULL
        /\ Grown(child[c], b).pc = IF b = NL THEN "send" ELSE "recv"
        /\ Grown(child[c], b).n = 0
    BY <1>1, <2>1, GrownProperties
  <2> QED BY <1>1, <2>2 DEF Running, Gone
<1>4. /\ s \in {<<>>} \cup {<<x>> : x \in Letters}
      /\ stored' = [stored EXCEPT ![c] = @ \o s]
  <2>1. stored[c] \o <<>> = stored[c] /\ Append(stored[c], b) = stored[c] \o <<b>>
    BY <1>1, <1>2, ConcatEmptySeq, AppendIsConcat
  <2> QED BY <1>1, <2>1
<1>5. Committed(c) = Len(echoed[c])
  BY <1>1, <1>2, CommittedMeans
<1>6. Carries(child'[c], echoed[c], acc)
  BY <1>0, <1>1, <1>3 DEF Stream
<1>7. k = IF b = NL THEN Len(acc) ELSE Len(echoed[c])
  <2>1. CASE b = NL
    <3>1. k = Len(echoed[c]) + Remains(child'[c])
      BY <1>1, <1>3, <2>1, CommittedMeansAfter
    <3> QED BY <1>6, <2>1, <3>1 DEF Carries
  <2>2. CASE b # NL
    <3>1. Committed(c)' = Len(echoed'[c])
      BY <1>1, <1>2, <1>3, <2>2, CommittedMeansAfter
    <3> QED BY <1>1, <2>2, <3>1
  <2> QED BY <2>1, <2>2
<1>8. Begins(echoed[c], acc)
  BY <1>0, <1>1 DEF Stream
<1>9. /\ k >= Committed(c)
      /\ k \in LE!CommitPoints(acc) \cup {Committed(c)}
  <2>1. Len(acc) \in LE!CommitPoints(acc) /\ Len(echoed[c]) <= Len(acc)
    BY <1>8 DEF LE!CommitPoints, Begins
  <2> QED BY <1>2, <1>5, <1>7, <2>1
<1>10. LE!NoNewlineAfter(acc, k)
  <2>1. b # NL => \A m \in Len(echoed[c]) + 1 .. Len(acc) : acc[m] # NL
    BY <1>3, <1>6 DEF Carries
  <2>2. b = NL => \A m \in k + 1 .. Len(acc) : acc[m] # NL
    <3>1. b = NL => \A m \in k + 1 .. Len(acc) : FALSE
      BY <1>2, <1>7
    <3> QED BY <3>1
  <2> QED BY <1>7, <2>1, <2>2, SameTransformation DEF LE!NoNewlineAfter
<1>11. \A d \in Clients : Committed(d)' = IF d = c THEN k ELSE Committed(d)
  <2> SUFFICES ASSUME NEW d \in Clients, d # c PROVE Committed(d)' = Committed(d)
    OBVIOUS
  <2>1. child'[d] = child[d] /\ echoed' = echoed /\ peer' = peer
    BY <1>0, <1>1, ChildKeeps DEF ChildStep
  <2> QED BY <2>1 DEF Committed, Outgoing, Running, Gone
<1>12. HungUp' = HungUp /\ c \notin HungUp
  <2>1. \A d \in Clients : d \in HungUp' <=> d \in HungUp
    <3> SUFFICES ASSUME NEW d \in Clients PROVE d \in HungUp' <=> d \in HungUp
      OBVIOUS
    <3>1. (Gone(d)' <=> Gone(d)) /\ (NotYet(d)' <=> NotYet(d))
      BY ChildKeeps DEF ChildStep
    <3>2. Running(d)' <=> Running(d)
      BY <1>1, <1>3, ChildKeeps DEF ChildStep, Running
    <3> QED BY <3>1, <3>2, HungUpMeans
  <2>2. c \notin HungUp
    BY <1>1, HungUpMeans
  <2> QED BY <2>1, <2>2 DEF HungUp
<1>13. [d \in Clients |-> Committed(d)'] = [[d \in Clients |-> Committed(d)] EXCEPT ![c] = k]
  BY <1>11
<1> HIDE DEF s, k, acc
<1>14. \E q \in LE!CommitPoints(acc) \cup {Committed(c)} :
          /\ q >= Committed(c)
          /\ LE!NoNewlineAfter(acc, q)
          /\ [d \in Clients |-> Committed(d)'] = [[d \in Clients |-> Committed(d)] EXCEPT ![c] = q]
  BY <1>9, <1>10, <1>13
<1> QED BY <1>1, <1>4, <1>12, <1>14 DEF LE!Receive, acc

(* A send echoes committed bytes.                                          *)
LEMMA RefineSend ==
    ASSUME Inv, Inv', NEW c \in Clients, Send(c)
    PROVE  LE!Echo(c)
<1>0. TypeOK /\ Stream(c) /\ Stream(c)' /\ TypeOK'
  BY DEF Inv, Streams
<1>1. PICK n \in 1 .. Remains(child[c]) :
         LET o == SubSeq(child[c].outbuf, child[c].n + 1, child[c].n + n)
             new == [child[c] EXCEPT !.n = @ + n] IN
         /\ Running(c) /\ child[c].pc = "send" /\ ~ Gone(c)
         /\ o \in Seq(Char) /\ Len(o) = n
         /\ \A k \in 1 .. n : o[k] = child[c].outbuf[child[c].n + k]
         /\ new \in Child /\ new # NULL /\ new.pc = "send"
         /\ new.n = child[c].n + n /\ new.outbuf = child[c].outbuf
         /\ child' = [child EXCEPT ![c] = new]
         /\ echoed' = [echoed EXCEPT ![c] = echoed[c] \o o]
         /\ UNCHANGED <<pc, fd, stored, conn, backlog, peer, sent, rpos, drained>>
  BY <1>0, SendStep
<1> DEFINE out == echoed'[c]
<1>2. /\ Running(c) /\ child[c].pc = "send" /\ ~ Gone(c)
      /\ child'[c] # NULL /\ child'[c].pc = "send"
      /\ Remains(child'[c]) = Remains(child[c]) - n
      /\ out \in Seq(Char) /\ Len(out) = Len(echoed[c]) + n
      /\ echoed' = [echoed EXCEPT ![c] = out]
      /\ UNCHANGED <<pc, fd, stored, conn, backlog, peer, sent, rpos, drained>>
  <2> DEFINE o == SubSeq(child[c].outbuf, child[c].n + 1, child[c].n + n)
             new == [child[c] EXCEPT !.n = @ + n]
  <2>1. /\ o \in Seq(Char) /\ Len(o) = n /\ new # NULL /\ new.pc = "send"
        /\ new.n = child[c].n + n /\ new.outbuf = child[c].outbuf
        /\ child'[c] = new /\ echoed'[c] = echoed[c] \o o
        /\ echoed' = [echoed EXCEPT ![c] = echoed[c] \o o]
    BY <1>0, <1>1 DEF TypeOK
  <2> HIDE DEF o, new
  <2>2. /\ child[c].n \in Nat /\ Len(child[c].outbuf) \in Nat
        /\ echoed[c] \in Seq(Char)
    BY <1>0, <1>1, ChildFacts, Lengths
  <2>3. Remains(new) = Remains(child[c]) - n
    BY <2>1, <2>2 DEF Remains
  <2>4. echoed[c] \o o \in Seq(Char) /\ Len(echoed[c] \o o) = Len(echoed[c]) + n
    BY <2>1, <2>2, ConcatProperties
  <2> QED BY <1>1, <2>1, <2>3, <2>4
<1>3. Len(echoed[c]) \in Nat /\ Remains(child[c]) \in Int /\ n \in Nat
  <2>1. Len(echoed[c]) \in Nat /\ Len(child[c].outbuf) \in Nat /\ child[c].n \in Nat
    BY <1>0, <1>2, Lengths, ChildFacts
  <2>2. Remains(child[c]) \in Int
    BY <2>1 DEF Remains
  <2> QED BY <2>1, <2>2
<1>4. /\ Committed(c) = Len(echoed[c]) + Remains(child[c])
      /\ Committed(c)' = Len(out) + Remains(child'[c])
  BY <1>2, CommittedMeans, CommittedMeansAfter DEF Running, Gone
<1> HIDE DEF out
<1>5. /\ Committed(c)' = Committed(c)
      /\ Len(out) \in Len(echoed[c]) + 1 .. Committed(c)
  BY <1>2, <1>3, <1>4
<1>6. \A d \in Clients : Committed(d)' = Committed(d)
  <2> SUFFICES ASSUME NEW d \in Clients, d # c PROVE Committed(d)' = Committed(d)
    BY <1>5
  <2>1. child'[d] = child[d] /\ echoed'[d] = echoed[d] /\ peer' = peer
    BY <1>2, ChildKeeps DEF ChildStep
  <2> QED BY <2>1 DEF Committed, Outgoing, Running, Gone
<1>7. HungUp' = HungUp /\ c \notin HungUp
  <2>1. \A d \in Clients : d \in HungUp' <=> d \in HungUp
    <3> SUFFICES ASSUME NEW d \in Clients PROVE d \in HungUp' <=> d \in HungUp
      OBVIOUS
    <3>1. (Gone(d)' <=> Gone(d)) /\ (NotYet(d)' <=> NotYet(d))
      BY ChildKeeps DEF ChildStep
    <3>2. Running(d)' <=> Running(d)
      BY <1>2, ChildKeeps DEF ChildStep, Running
    <3> QED BY <3>1, <3>2, HungUpMeans
  <2>2. c \notin HungUp
    BY <1>2, HungUpMeans
  <2> QED BY <2>1, <2>2 DEF HungUp
<1>8. out = Rot13(SubSeq(stored[c], 1, Len(out)))
  <2>1. /\ Letters \in SUBSET Char /\ out \in Seq(Char) /\ stored[c] \in Seq(Letters)
        /\ Begins(out, stored[c])
    BY <1>0, <1>2, Lengths DEF Stream, out
  <2> QED BY <2>1, EchoPrefix
<1>9. [d \in Clients |-> Committed(d)'] = [d \in Clients |-> Committed(d)]
  BY <1>6
<1> QED BY <1>2, <1>5, <1>7, <1>8, <1>9, SameTransformation DEF LE!Echo

LEMMA RefineStep == Inv /\ Inv' /\ [Next]_vars => RefinesStep
<1> SUFFICES ASSUME Inv, Inv', [Next]_vars PROVE RefinesStep
  OBVIOUS
<1>1. ASSUME UNCHANGED <<stored, echoed>>, \A d \in Clients : Quiet(d) PROVE RefinesStep
  BY <1>1, RefineQuiet DEF Inv, Quiet, RefinesStep
<1>2. ASSUME NEW c \in Clients, ClientStep(c) PROVE RefinesStep
  <2>1. UNCHANGED <<stored, echoed>>
    BY <1>2 DEF ClientStep, Connect, ClientSend, ClientShutdown, ClientReset, ClientRead
  <2> QED BY <1>1, <1>2, <2>1, RefineClient
<1>3. CASE ParentStep
  <2>1. UNCHANGED <<stored, echoed>>
    BY <1>3 DEF ParentStep, Fork, ForkFails, Accept, streams
  <2> QED BY <1>1, <1>3, <2>1, RefineParent
<1>4. ASSUME NEW c \in Clients, ChildStep(c) PROVE RefinesStep
  <2>1. CASE Send(c)
    BY <2>1, RefineSend DEF RefinesStep
  <2>2. CASE Recv(c) /\ ~ Gone(c)
    BY <2>2, RefineRecv DEF RefinesStep
  <2>3. CASE ~ Send(c) /\ (~ Recv(c) \/ Gone(c))
    <3>1. echoed' = echoed
      BY <1>4, <2>3 DEF ChildStep, Recv, RecvEnd, SendDone, SendError, SendSignal,
                        SendReturns, End, streams
    <3>2. stored' = stored
      <4>1. CASE Recv(c)
        <5>1. TypeOK
          BY DEF Inv
        <5>2. stored' = [stored EXCEPT ![c] = stored[c]]
          BY <2>3, <4>1, <5>1, RecvStep
        <5> QED BY <5>1, <5>2 DEF TypeOK
      <4>2. CASE ~ Recv(c)
        BY <1>4, <2>3, <4>2 DEF ChildStep, RecvEnd, SendDone, SendError, SendSignal,
                                SendReturns, End, streams
      <4> QED BY <4>1, <4>2
    <3> QED BY <1>1, <1>4, <2>3, <3>1, <3>2, RefineQuietChild
  <2> QED BY <2>1, <2>2, <2>3
<1>5. CASE UNCHANGED vars
  BY <1>5 DEF vars, streams, RefinesStep, LE!evars, Committed, Outgoing, Running, Gone, HungUp
<1>6. CASE AcceptFails
  BY <1>5, <1>6 DEF AcceptFails
<1> QED BY <1>2, <1>3, <1>4, <1>5, <1>6 DEF Next

LEMMA RefineInit == Init => LE!Init
<1> SUFFICES ASSUME Init PROVE LE!Init
  OBVIOUS
<1>1. HungUp = {}
  BY DEF HungUp, Init, InitConnections, Gone
<1>2. \A c \in Clients : Committed(c) = 0
  BY EmptySeq DEF Committed, Running, Init, InitConnections
<1> QED BY <1>1, <1>2 DEF LE!Init, Init, InitConnections

(* A child and its parent are a line echo for every client: for every      *)
(* MAX_LINE and every size of the kernel's buffers, each step accepts a    *)
(* byte of one client, echoes committed ones, hangs up, or does nothing.   *)
THEOREM RefinesLineEcho == Spec => ImplementsLineEcho
<1>1. Inv /\ Inv' /\ [Next]_vars => [LE!Next]_(LE!evars)
  BY RefineStep DEF RefinesStep, LE!Next
<1> QED BY <1>1, RefineInit, ChildrenInOrder, PTL DEF Spec, ImplementsLineEcho, LE!Spec
=============================================================================
