------------------------------ MODULE CJsonText ------------------------------
(***************************************************************************)
(* What an item of cJSON.c prints as, and what copying and parsing come to *)
(* when memory suffices.                                                   *)
(***************************************************************************)
EXTENDS CJson

\* Mutation of Joined: nothing between two entries.
Joined_NoComma(seqs) == FlattenSeq(seqs)

Joined(seqs) ==
    IF seqs = << >> THEN << >>
    ELSE FoldLeft(LAMBDA t, s : t \o <<",">> \o s, Head(seqs), Tail(seqs))

RECURSIVE print_value(_, _)

print_array(h, c) ==
    LET s == ChildrenOf(h, c)
    IN <<"[">> \o Joined([j \in DOMAIN s |-> print_value(h, s[j])]) \o <<"]">>

print_object(h, c) ==
    LET s == ChildrenOf(h, c)
        member(m) == Text(h, h.items[m].string) \o <<":">> \o print_value(h, m)
    IN <<"{">> \o Joined([j \in DOMAIN s |-> member(s[j])]) \o <<"}">>

print_value(h, c) ==
    LET n == h.items[c] IN
    CASE n.type = "cJSON_NULL" -> <<"null">>
      [] n.type = "cJSON_Number" -> <<Number>>
      [] n.type = "cJSON_String" -> Text(h, n.valuestring)
      [] n.type = "cJSON_Array" -> print_array(h, c)
      [] n.type = "cJSON_Object" -> print_object(h, c)

-----------------------------------------------------------------------------
(* Properties.                                                             *)

IsTree(parsed, tree) == parsed.p # NULL /\ ~parsed.h.ep /\ Tree(parsed.h, parsed.p) = tree

\* A copy was made, and if no string is missing its text parses back to the tree.
CopyReparses(h, copy, complete, tree) ==
    /\ copy.p # NULL
    /\ complete => IsTree(cJSON_ParseWithOpts(h, print_value(copy.h, copy.p), TRUE), tree)

\* No string value below p, and no name of a member, is missing.
Complete(p) ==
    \A q \in Reach(p) :
        /\ items[q].type = "cJSON_String" => items[q].valuestring # NULL
        /\ items[q].type = "cJSON_Object" => \A c \in ToSet(ChildrenOf(H, q)) : items[c].string # NULL

\* If memory suffices a duplicate is made of any item, whatever names and values
\* it lacks, and what the duplicate prints as parses back to the original's tree,
\* if none is missing.
PrintParses ==
    \A p \in Used(items) :
        CopyReparses(Heap(Cardinality(Spare)), cJSON_Duplicate(Heap(Cardinality(Spare)), p, TRUE),
                     Complete(p), Tree(H, p))
=============================================================================
