----------------------------- MODULE LineServer -----------------------------
(***************************************************************************)
(* What the two rot13 servers that keep a struct fd_state for every        *)
(* connection have in common: the line buffers, and what must be true of   *)
(* them and of the bytes echoed, whatever loop drives the handlers.        *)
(***************************************************************************)
EXTENDS LineBuffer, Connections, FiniteSets

VARIABLES
    state,     \* the line buffer of a descriptor, or NULL
    stored     \* history: the bytes of a client that entered its buffer

Live == {f \in DOMAIN state : state[f] # NULL}

Served(c) == \E f \in Live : conn[f] = c

-----------------------------------------------------------------------------
(* The cursors of a line buffer stay in order, so that do_write never      *)
(* sends past what was stored and do_read never stores past the array.     *)
CursorOrder == \A f \in Live : CursorsInOrder(state[f])

(* What a client is sent is the rot13 of what was stored for it, from the  *)
(* first byte on, without a gap, a repetition or a stale byte of the       *)
(* rewound buffer.                                                         *)
EchoFaithful ==
    \A c \in Clients :
        /\ Len(echoed[c]) <= Len(stored[c])
        /\ echoed[c] = Rot13(SubSeq(stored[c], 1, Len(echoed[c])))

Lost(c) == rpos[c] - Len(stored[c])

(* A connection loses nothing in its first MAX_LINE bytes; it may later,   *)
(* even with short lines, since an incomplete line keeps the buffer from   *)
(* being rewound.                                                          *)
NothingLostBelowMaxLine ==
    \A c \in Clients :
        rpos[c] <= MaxLine => stored[c] = SubSeq(sent[c], 1, rpos[c])

-----------------------------------------------------------------------------
(* The abstract specification that these servers implement.                *)

BufferOf(c) == state[CHOOSE f \in Live : conn[f] = c]

Committed(c) == Len(echoed[c]) + (IF Served(c) THEN Unsent(BufferOf(c)) ELSE 0)

(* Accepted once, and without a line buffer: the server has done with it.  *)
HungUp == {c \in Clients :
              /\ peer[c] # "idle"
              /\ ~ Served(c)
              /\ \A k \in 1 .. Len(backlog) : backlog[k] # c}

LE == INSTANCE LineEcho WITH
          Chunks <- UNION {[1 .. n -> Letters] : n \in 0 .. RecvMax},
          accepted <- stored,
          committed <- [c \in Clients |-> Committed(c)],
          echo <- echoed,
          hungup <- HungUp

(* The server is a line echo: every step is a step of LineEcho or none.    *)
ImplementsLineEcho == LE!Spec

(* And under its fairness all that is committed is echoed, unless the      *)
(* server hangs up.                                                        *)
EchoesCommitted == LE!FairSpec
=============================================================================
