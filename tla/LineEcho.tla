------------------------------ MODULE LineEcho ------------------------------
(***************************************************************************)
(* What the rot13 line servers promise a connection, whatever calls they   *)
(* are built from. Bytes are accepted in order; an accepted newline        *)
(* commits everything up to it; only committed bytes are echoed, in order  *)
(* and once. The server may hang up at any time, and a connection that is  *)
(* not hung up has all that is committed echoed to it.                     *)
(***************************************************************************)
EXTENDS Rot13

CONSTANTS Clients, Chunks                 \* Chunks: what is accepted at once

VARIABLES
    accepted,    \* the bytes accepted from a client
    committed,   \* how many of them belong to complete lines
    echo,        \* what was echoed to the client
    hungup       \* the clients that the server dropped or refused

evars == <<accepted, committed, echo, hungup>>

Init ==
    /\ accepted = [c \in Clients |-> <<>>]
    /\ committed = [c \in Clients |-> 0]
    /\ echo = [c \in Clients |-> <<>>]
    /\ hungup = {}

(* A newline commits through its own position, or, when there was no room  *)
(* left to accept it, all that was accepted.                               *)
CommitPoints(a) == {k \in 1 .. Len(a) : a[k] = NL} \cup {Len(a)}

NoNewlineAfter(a, k) == \A m \in k + 1 .. Len(a) : a[m] # NL

Receive(c) ==
    /\ c \notin hungup
    /\ \E s \in Chunks : accepted' = [accepted EXCEPT ![c] = @ \o s]
    /\ \E k \in CommitPoints(accepted'[c]) \cup {committed[c]} :
         /\ k >= committed[c]
         /\ NoNewlineAfter(accepted'[c], k)
         /\ committed' = [committed EXCEPT ![c] = k]
    /\ UNCHANGED <<echo, hungup>>

Echo(c) ==
    /\ c \notin hungup
    /\ \E n \in Len(echo[c]) + 1 .. committed[c] :
         echo' = [echo EXCEPT ![c] = Rot13(SubSeq(accepted[c], 1, n))]
    /\ UNCHANGED <<accepted, committed, hungup>>

(* Hanging up abandons what is committed and not yet echoed.               *)
HangUp ==
    \E C \in SUBSET (Clients \ hungup) :
        /\ hungup' = hungup \cup C
        /\ committed' = [c \in Clients |-> IF c \in C THEN Len(echo[c])
                                                    ELSE committed[c]]
        /\ UNCHANGED <<accepted, echo>>

Next == HangUp \/ \E c \in Clients : Receive(c) \/ Echo(c)

Spec == Init /\ [][Next]_evars

(* WF_evars(Echo(c)) with its ENABLED spelled out: what ENABLED says does   *)
(* not carry through a substitution of expressions for the variables.      *)
EchoDue(c) == c \notin hungup /\ Len(echo[c]) < committed[c]

EchoFairness(c) == []<>(~ EchoDue(c)) \/ []<><<Echo(c)>>_evars

FairSpec == Spec /\ \A c \in Clients : EchoFairness(c)
=============================================================================
