----------------------------- MODULE JsonForest -----------------------------
(***************************************************************************)
(* What the list of a cJSON container promises: the children of an item    *)
(* are a sequence, and a call appends to it, takes one item out of it or   *)
(* puts another in its place.  Items the caller holds and nothing contains *)
(* are roots.  A call changes the children of at most one of the items     *)
(* that stay.                                                              *)
(***************************************************************************)
EXTENDS Naturals, Sequences, SequencesExt

VARIABLES
    kids,    \* the children of every item that exists
    roots    \* the items the caller holds

vars == <<kids, roots>>

Init == kids = << >> /\ roots = {}

\* The items that stay and whose children are not those they had.
Changed ==
    LET old == kids
        new == kids'
    IN {c \in DOMAIN old \cap DOMAIN new : new[c] # old[c]}

-----------------------------------------------------------------------------
(* Trees come and go.                                                      *)

Build ==
    /\ DOMAIN kids \subseteq DOMAIN kids'
    /\ \E r \in DOMAIN kids' \ DOMAIN kids : roots' = roots \cup {r}

Destroy ==
    /\ DOMAIN kids' \subseteq DOMAIN kids
    /\ \E r \in roots : r \notin DOMAIN kids' /\ roots' = roots \ {r}

-----------------------------------------------------------------------------
(* The children of c change.                                               *)

Attach(c) ==
    /\ DOMAIN kids' = DOMAIN kids
    /\ \E i \in roots : kids'[c] = Append(kids[c], i) /\ roots' = roots \ {i}

\* A reference to item of is a new item that shares its children.
AttachReference(c) ==
    /\ UNCHANGED roots
    /\ \E new \in DOMAIN kids' \ DOMAIN kids, of \in DOMAIN kids :
         /\ DOMAIN kids' = DOMAIN kids \cup {new}
         /\ kids'[c] = Append(kids[c], new)
         /\ kids'[new] = kids[of]

Detach(c, j) ==
    /\ DOMAIN kids' = DOMAIN kids
    /\ kids'[c] = RemoveAt(kids[c], j)
    /\ roots' = roots \cup {kids[c][j]}

Discard(c, j) ==
    /\ DOMAIN kids' \subseteq DOMAIN kids \ {kids[c][j]}
    /\ kids'[c] = RemoveAt(kids[c], j)
    /\ UNCHANGED roots

Exchange(c, j) ==
    /\ DOMAIN kids' \subseteq DOMAIN kids \ {kids[c][j]}
    /\ \E i \in roots : kids'[c] = [kids[c] EXCEPT ![j] = i] /\ roots' = roots \ {i}

Next ==
    LET changed == Changed IN
    \/ changed = {} /\ (Build \/ Destroy)
    \/ \E c \in changed :
         /\ changed = {c}
         /\ \/ Attach(c) \/ AttachReference(c)
            \/ \E j \in DOMAIN kids[c] : Detach(c, j) \/ Discard(c, j) \/ Exchange(c, j)

Spec == Init /\ [][Next]_vars
=============================================================================
