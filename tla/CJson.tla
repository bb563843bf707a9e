-------------------------------- MODULE CJson --------------------------------
(***************************************************************************)
(* The trees of thirdparty/cjson/cJSON.c: items linked through next, prev  *)
(* and child, which own the strings they point at, and the calls that      *)
(* create, add, detach, replace, duplicate, parse and delete them.  Memory *)
(* is finite: how full it is decides which malloc of a call fails.         *)
(*                                                                         *)
(* A string is the token it spells; numbers are one token.  The caller     *)
(* keeps to the header: it hands over only items it holds, never puts an   *)
(* item below itself, and neither frees nor changes a container while a    *)
(* reference to its children is in use.                                    *)
(***************************************************************************)
EXTENDS Naturals, FiniteSets, Sequences, SequencesExt

CONSTANTS
    Documents,    \* the texts the caller parses: sequences of tokens
    Keys,         \* the names the caller gives to members of an object
    Types,        \* the types of item the caller creates
    Items,        \* the places memory has for items
    Texts,        \* and for strings,
    Spare,        \* those of them that only a call with more memory gets,
    MaxCells,     \* and how many of both are in use at a time
    NULL,         \* the null pointer, and what is in a free place
    MaxRoots,     \* how many trees the caller holds at a time, a bound,
    MaxRefs       \* and how many references it has in use, another

VARIABLES
    items,          \* the items, by place
    texts,          \* the strings, by place
    roots,          \* the items the caller holds, and has to delete
    overwritten,    \* strings whose only pointer ReplaceItemInObject overwrote
    crashed         \* whether a call followed a null pointer

vars == <<items, texts, roots, overwritten, crashed>>

Value == "value"    \* the text of a string value
Number == "number"  \* the text of a number
Names == Keys \cup {Value}
Tokens == Names \cup {Number, "null", "[", "]", "{", "}", ":", ","}

ItemTypes == {"cJSON_False", "cJSON_True", "cJSON_NULL", "cJSON_Number", "cJSON_String",
              "cJSON_Array", "cJSON_Object"}
Pointers == Items \cup {NULL}
Item == [next : Pointers, prev : Pointers, child : Pointers, type : ItemTypes, ref : BOOLEAN,
         valuestring : Texts \cup {NULL}, string : Texts \cup {NULL}]
Blank == [next |-> NULL, prev |-> NULL, child |-> NULL, type |-> "cJSON_False",
          ref |-> FALSE, valuestring |-> NULL, string |-> NULL]

ASSUME CJsonAssumption ==
    /\ IsFiniteSet(Items) /\ IsFiniteSet(Spare)
    /\ NULL \notin Items \cup Texts \cup Names \cup Item
    /\ Types \subseteq ItemTypes /\ Documents \subseteq Seq(Tokens)

-----------------------------------------------------------------------------
(* Memory during a call, with room for as many more items and strings.     *)

Heaps == [items : [Items -> Item \cup {NULL}], texts : [Texts -> Names \cup {NULL}],
          room : Nat, ep : BOOLEAN]
Heap(room) == [items |-> items, texts |-> texts, room |-> room, ep |-> FALSE]
Used(f) == {a \in DOMAIN f : f[a] # NULL}
Full(h) == Cardinality(Used(h.items)) + Cardinality(Used(h.texts)) >= MaxCells + h.room
Unused(h, f) ==
    LET free == {a \in DOMAIN f \ Used(f) : h.room > 0 \/ a \notin Spare}
    IN IF free = {} \/ Full(h) THEN NULL ELSE CHOOSE a \in free : TRUE
Put(h, p, field, x) == IF p = NULL THEN h ELSE [h EXCEPT !.items[p][field] = x]
Drop(f, S) == [a \in DOMAIN f |-> IF a \in S THEN NULL ELSE f[a]]

\* What the edges lead to from a.
Reachable(edges, a) ==
    {b \in DOMAIN edges : \A S \in SUBSET DOMAIN edges :
                            a \in S /\ (\A x \in S : edges[x] \subseteq S) => b \in S}

cJSON_New_Item(h) ==
    LET a == Unused(h, h.items)
    IN [h |-> IF a = NULL THEN h ELSE [h EXCEPT !.items[a] = Blank], p |-> a]

cJSON_strdup(h, t) ==
    LET a == Unused(h, h.texts)
    IN [h |-> IF a = NULL THEN h ELSE [h EXCEPT !.texts[a] = t], p |-> a]

\* The item, those behind it, and those below them but for what references share.
cJSON_Delete(h, c) ==
    LET below(n) == {n.next} \cup IF n.ref THEN {} ELSE {n.child}
        gone == Reachable([a \in Used(h.items) |-> below(h.items[a]) \ {NULL}], c)
        strings == {h.items[a].string : a \in gone}
                   \cup {h.items[a].valuestring : a \in {b \in gone : ~ h.items[b].ref}}
    IN IF c = NULL THEN h
       ELSE [h EXCEPT !.items = Drop(@, gone), !.texts = Drop(@, strings)]

-----------------------------------------------------------------------------
(* Lists.                                                                  *)

Chain(h, c) ==
    LET from[n \in Nat] ==
          [a \in Pointers |-> IF n = 0 \/ a = NULL THEN << >>
                              ELSE <<a>> \o from[n - 1][h.items[a].next]]
    IN from[Cardinality(Items)][c]
ChildrenOf(h, p) == Chain(h, h.items[p].child)
KeyOf(h, c) == IF h.items[c].string = NULL THEN "" ELSE h.texts[h.items[c].string]

\* The first child with the name.
cJSON_GetObjectItem(h, p, key) ==
    LET s == ChildrenOf(h, p)
        named == {j \in DOMAIN s : KeyOf(h, s[j]) = key}
    IN IF named = {} THEN NULL ELSE s[Min(named)]

suffix_object(h, prev, item) == Put(Put(h, prev, "next", item), item, "prev", prev)

create_reference(h, item) ==
    LET n == cJSON_New_Item(h) IN
    IF n.p = NULL THEN n
    ELSE [n EXCEPT !.h.items[n.p] = [h.items[item] EXCEPT !.string = NULL, !.ref = TRUE,
                                                          !.next = NULL, !.prev = NULL]]

\* Mutation of cJSON_AddItemToArray: the item goes in front of the others.
cJSON_AddItemToArray_InFront(h, array, item) ==
    IF item = NULL THEN h
    ELSE Put(Put(Put(h, h.items[array].child, "prev", item), item, "next", h.items[array].child),
             array, "child", item)

cJSON_AddItemToArray(h, array, item) ==
    IF item = NULL THEN h
    ELSE IF h.items[array].child = NULL THEN Put(h, array, "child", item)
    ELSE suffix_object(h, Last(ChildrenOf(h, array)), item)

\* The item's old name is freed; a name that cannot be copied leaves it nameless.
Named(h, item, key) ==
    LET s == cJSON_strdup(h, key) IN Put(s.h, item, "string", s.p)

cJSON_AddItemToObject(h, object, key, item) ==
    IF item = NULL THEN h
    ELSE cJSON_AddItemToArray(
           Named([h EXCEPT !.texts = Drop(@, {h.items[item].string})], item, key), object, item)

cJSON_DetachItemFromArray(h, array, c) ==
    LET n == h.items[c]
        h1 == Put(h, n.prev, "next", n.next)
        h2 == Put(h1, n.next, "prev", n.prev)
        h3 == IF h.items[array].child = c THEN Put(h2, array, "child", n.next) ELSE h2
    IN Put(Put(h3, c, "prev", NULL), c, "next", NULL)

\* Mutation of cJSON_ReplaceItemInArray: the next item still points back at c.
cJSON_ReplaceItemInArray_OneWay(h, array, c, new) ==
    LET n == h.items[c]
        h1 == Put(Put(h, new, "next", n.next), new, "prev", n.prev)
        h2 == IF h.items[array].child = c THEN Put(h1, array, "child", new)
                                          ELSE Put(h1, n.prev, "next", new)
    IN cJSON_Delete(Put(Put(h2, c, "next", NULL), c, "prev", NULL), c)

cJSON_ReplaceItemInArray(h, array, c, new) ==
    LET n == h.items[c]
        h1 == Put(Put(h, new, "next", n.next), new, "prev", n.prev)
        h2 == Put(h1, n.next, "prev", new)
        h3 == IF h.items[array].child = c THEN Put(h2, array, "child", new)
                                          ELSE Put(h2, n.prev, "next", new)
    IN cJSON_Delete(Put(Put(h3, c, "next", NULL), c, "prev", NULL), c)

-----------------------------------------------------------------------------
(* Creation, duplication, parsing and printing.                            *)

CreateItem(h, type) ==
    LET n == cJSON_New_Item(h)
        s == cJSON_strdup(n.h, Value)
    IN IF n.p = NULL THEN n
       ELSE IF type # "cJSON_String" THEN [n EXCEPT !.h.items[n.p].type = type]
       ELSE [h |-> [s.h EXCEPT !.items[n.p].type = type, !.items[n.p].valuestring = s.p],
             p |-> n.p]

\* There was a string, and memory for a copy was not.
NotCopied(old, new) == old # NULL /\ new = NULL

\* A copy of the string s, which spells text, if there is a string.
CopyString(h, s, text) == IF s = NULL THEN [h |-> h, p |-> NULL] ELSE cJSON_strdup(h, text)
Store(r, p, field) == Put(r.h, p, field, r.p)

\* A copy of the item; copies is the recursion, which copies its children.
CopyItem(copies, h, item, recurse) ==
    LET old == h.items[item]
        n == cJSON_New_Item(h)
        v == CopyString(Put(n.h, n.p, "type", old.type), old.valuestring, h.texts[old.valuestring])
        k == CopyString(Store(v, n.p, "valuestring"), old.string, h.texts[old.string])
        h2 == Store(k, n.p, "string")
    IN IF n.p = NULL THEN n
       ELSE IF NotCopied(old.valuestring, v.p)
            THEN [h |-> cJSON_Delete(Store(v, n.p, "valuestring"), n.p), p |-> NULL]
       ELSE IF NotCopied(old.string, k.p) THEN [h |-> cJSON_Delete(h2, n.p), p |-> NULL]
       ELSE IF ~recurse THEN [h |-> h2, p |-> n.p]
       ELSE copies[[h |-> h2, newitem |-> n.p, nptr |-> NULL, cptr |-> old.child]]

\* Mutation of DuplicateChain: the children are shared, not copied.
DuplicateChain_Shares(copies, h, newitem, nptr, cptr) ==
    [h |-> Put(h, newitem, "child", cptr), p |-> newitem]

\* Copies the chain from cptr behind nptr, the last copy made so far.
DuplicateChain(copies, h, newitem, nptr, cptr) ==
    IF cptr = NULL THEN [h |-> h, p |-> newitem] ELSE
    LET d == CopyItem(copies, h, cptr, TRUE)
        h1 == IF nptr = NULL THEN Put(d.h, newitem, "child", d.p)
                             ELSE suffix_object(d.h, nptr, d.p)
    IN IF d.p = NULL THEN [h |-> cJSON_Delete(d.h, newitem), p |-> NULL]
       ELSE copies[[h |-> h1, newitem |-> newitem, nptr |-> d.p, cptr |-> h.items[cptr].next]]

\* The recursion, n deep; a tree is at most as deep as there are items.
Copies[n \in Nat] ==
    [a \in [h : Heaps, newitem : Items, nptr : Pointers, cptr : Pointers] |->
       IF n = 0 THEN [h |-> cJSON_Delete(a.h, a.newitem), p |-> NULL]
       ELSE DuplicateChain(Copies[n - 1], a.h, a.newitem, a.nptr, a.cptr)]

cJSON_Duplicate(h, item, recurse) ==
    CopyItem(Copies[2 * Cardinality(Items)], h, item, recurse)

\* The outcome of a parse function: where it stopped, and whether it succeeded.
Parsed(h, rest) == [h |-> h, ok |-> TRUE, rest |-> rest]
NoMemory(h, v) == [h |-> h, ok |-> FALSE, rest |-> v]
Malformed(h, v) == [h |-> [h EXCEPT !.ep = TRUE], ok |-> FALSE, rest |-> v]
Starts(v, S) == v # << >> /\ Head(v) \in S

parse_string(h, item, v) ==
    LET s == cJSON_strdup(h, Head(v)) IN
    IF ~Starts(v, Names) THEN Malformed(h, v)
    ELSE IF s.p = NULL THEN NoMemory(s.h, v)
    ELSE Parsed([s.h EXCEPT !.items[item].valuestring = s.p, !.items[item].type = "cJSON_String"],
                Tail(v))

\* members is the recursion.
parse_value(members, h, item, v) ==
    CASE Starts(v, {"null"}) -> Parsed(Put(h, item, "type", "cJSON_NULL"), Tail(v))
      [] Starts(v, Names) -> parse_string(h, item, v)
      [] Starts(v, {Number}) -> Parsed(Put(h, item, "type", "cJSON_Number"), Tail(v))
      [] Starts(v, {"["}) ->
           LET a == Put(h, item, "type", "cJSON_Array") IN
           IF Starts(Tail(v), {"]"}) THEN Parsed(a, Tail(Tail(v)))
           ELSE members[[h |-> a, item |-> item, child |-> NULL, v |-> Tail(v), close |-> "]"]]
      [] Starts(v, {"{"}) ->
           LET o == Put(h, item, "type", "cJSON_Object") IN
           IF Starts(Tail(v), {"}"}) THEN Parsed(o, Tail(Tail(v)))
           ELSE members[[h |-> o, item |-> item, child |-> NULL, v |-> Tail(v), close |-> "}"]]
      [] OTHER -> Malformed(h, v)

parse_more(members, r, item, new, close) ==
    IF ~r.ok THEN r
    ELSE IF Starts(r.rest, {","}) THEN
         members[[h |-> r.h, item |-> item, child |-> new, v |-> Tail(r.rest), close |-> close]]
    ELSE IF Starts(r.rest, {close}) THEN Parsed(r.h, Tail(r.rest))
    ELSE Malformed(r.h, r.rest)

\* The name was parsed as a string value of the member new.
parse_named(members, key, item, new) ==
    LET h == Put(Put(key.h, new, "string", key.h.items[new].valuestring),
                 new, "valuestring", NULL)
    IN IF ~key.ok THEN key
       ELSE IF ~Starts(key.rest, {":"}) THEN Malformed(h, key.rest)
       ELSE parse_more(members, parse_value(members, h, new, Tail(key.rest)), item, new, "}")

\* The rest of parse_array and parse_object: one more item, behind child, with
\* its name if it is the member of an object, its value, and what follows it.
parse_members(members, h, item, child, v, close) ==
    LET n == cJSON_New_Item(h)
        linked == IF child = NULL THEN Put(n.h, item, "child", n.p)
                                  ELSE suffix_object(n.h, child, n.p)
    IN IF n.p = NULL THEN NoMemory(n.h, v)
       ELSE IF close = "]" THEN parse_more(members, parse_value(members, linked, n.p, v), item, n.p, close)
       ELSE parse_named(members, parse_string(linked, n.p, v), item, n.p)

\* The recursion, n deep; every member takes a token of the text.
Members[n \in Nat] ==
    [a \in [h : Heaps, item : Items, child : Pointers, v : Seq(Tokens), close : {"]", "}"}] |->
       IF n = 0 THEN NoMemory(a.h, a.v)
       ELSE parse_members(Members[n - 1], a.h, a.item, a.child, a.v, a.close)]

\* The item that was parsed, and all of the text if it has to end there.
parse_end(r, c, require_null_terminated) ==
    IF ~r.ok THEN [h |-> cJSON_Delete(r.h, c), p |-> NULL]
    ELSE IF require_null_terminated /\ r.rest # << >>
         THEN [h |-> [cJSON_Delete(r.h, c) EXCEPT !.ep = TRUE], p |-> NULL]
    ELSE [h |-> r.h, p |-> c]

cJSON_ParseWithOpts(h, value, require_null_terminated) ==
    LET c == cJSON_New_Item([h EXCEPT !.ep = FALSE])
    IN IF c.p = NULL THEN c
       ELSE parse_end(parse_value(Members[Len(value)], c.h, c.p, value), c.p, require_null_terminated)

-----------------------------------------------------------------------------
(* The caller's calls.                                                     *)

H == Heap(0)

\* The items below p, by way of references too, and those p alone owns.
Reach(p) == Reachable([a \in Used(items) |-> ToSet(ChildrenOf(H, a))], p)
Owned(p) == Reachable([a \in Used(items) |-> IF items[a].ref THEN {} ELSE ToSet(ChildrenOf(H, a))], p)
Strings(S) == (UNION {{items[p].string} \cup (IF items[p].ref THEN {} ELSE {items[p].valuestring})
                      : p \in S}) \ {NULL}

References == {r \in Used(items) : items[r].ref}
Containers(type) ==
    {p \in Used(items) \ References :
        items[p].type = type /\ \A r \in References : items[p].child # NULL => items[r].child # items[p].child}
\* No reference that stays uses what is freed with the items S.
MayFree(S) ==
    \A r \in References \ S : items[r].child \notin S /\ items[r].valuestring \notin Strings(S)
Arrays == Containers("cJSON_Array")
Objects == Containers("cJSON_Object")

Init ==
    /\ items = [a \in Items |-> NULL] /\ texts = [a \in Texts |-> NULL]
    /\ roots = {} /\ overwritten = {}
    /\ crashed = FALSE

Commit(h) == items' = h.items /\ texts' = h.texts
Returns(r) == Commit(r.h) /\ roots' = roots \cup ({r.p} \ {NULL})
MayHold == ~crashed /\ Cardinality(roots) < MaxRoots

Create ==
    \E type \in Types :
        /\ MayHold
        /\ Returns(CreateItem(H, type))
        /\ UNCHANGED <<overwritten, crashed>>

\* An array of two strings, as of two numbers: the second is linked behind the
\* first whether or not memory was left for each, and a null pointer followed
\* ends the program.
CreateStringArray ==
    LET a == CreateItem(H, "cJSON_Array")
        n1 == CreateItem(a.h, "cJSON_String")
        n2 == CreateItem(n1.h, "cJSON_String")
    IN /\ MayHold
       /\ IF a.p # NULL /\ NULL \in {n1.p, n2.p}
          THEN /\ items' = [b \in Items |-> NULL] /\ texts' = [b \in Texts |-> NULL]
               /\ roots' = {} /\ overwritten' = {}
               /\ crashed' = TRUE
          ELSE /\ Returns([h |-> IF a.p = NULL THEN a.h
                                 ELSE suffix_object(Put(n2.h, a.p, "child", n1.p), n1.p, n2.p),
                           p |-> a.p])
               /\ UNCHANGED <<overwritten, crashed>>

AddItem ==
    \E item \in roots, p \in Arrays \cup Objects, key \in Keys :
        /\ ~crashed
        /\ p \notin Reach(item)
        /\ Commit(IF p \in Arrays THEN cJSON_AddItemToArray(H, p, item)
                  ELSE cJSON_AddItemToObject(H, p, key, item))
        /\ roots' = roots \ {item}
        /\ UNCHANGED <<overwritten, crashed>>

AddItemReference ==
    \E item \in Used(items), p \in Arrays \cup Objects, key \in Keys :
        LET r == create_reference(H, item) IN
        /\ ~crashed
        /\ Cardinality(References) < MaxRefs
        /\ p \notin Reach(item)
        /\ Commit(IF p \in Arrays THEN cJSON_AddItemToArray(r.h, p, r.p)
                  ELSE cJSON_AddItemToObject(r.h, p, key, r.p))
        /\ UNCHANGED <<roots, overwritten, crashed>>

\* What a position of an array, or a name in an object, leads to.
Selectable(p, key) ==
    IF p \in Arrays THEN ToSet(ChildrenOf(H, p)) ELSE {cJSON_GetObjectItem(H, p, key)} \ {NULL}

DetachItem ==
    \E p \in Arrays \cup Objects, key \in Keys : \E c \in Selectable(p, key) :
        /\ MayHold
        /\ Returns([h |-> cJSON_DetachItemFromArray(H, p, c), p |-> c])
        /\ UNCHANGED <<overwritten, crashed>>

DeleteItem ==
    \E p \in Arrays \cup Objects, key \in Keys : \E c \in Selectable(p, key) :
        /\ ~crashed
        /\ MayFree(Owned(c))
        /\ Commit(cJSON_Delete(cJSON_DetachItemFromArray(H, p, c), c))
        /\ UNCHANGED <<roots, overwritten, crashed>>

\* A member takes the name it is put in place of; the name it had before is
\* neither freed nor kept.
ReplaceItem ==
    \E p \in Arrays \cup Objects, new \in roots, key \in Keys :
    \E c \in Selectable(p, key) :
        LET old == items[new].string
            h == IF p \in Arrays THEN H ELSE Named(H, new, key)
        IN /\ ~crashed
           /\ p \notin Reach(new)
           /\ MayFree(Owned(c))
           /\ Commit(cJSON_ReplaceItemInArray(h, p, c, new))
           /\ roots' = roots \ {new}
           /\ overwritten' = IF p \in Arrays THEN overwritten ELSE overwritten \cup ({old} \ {NULL})
           /\ UNCHANGED crashed

Duplicate ==
    \E item \in Used(items), recurse \in BOOLEAN :
        /\ MayHold
        /\ Returns(cJSON_Duplicate(H, item, recurse))
        /\ UNCHANGED <<overwritten, crashed>>

Parse ==
    \E text \in Documents, strict \in BOOLEAN :
        /\ MayHold
        /\ Returns(cJSON_ParseWithOpts(H, text, strict))
        /\ UNCHANGED <<overwritten, crashed>>

Delete ==
    \E r \in roots :
        /\ ~crashed
        /\ MayFree(Owned(r))
        /\ Commit(cJSON_Delete(H, r))
        /\ roots' = roots \ {r}
        /\ UNCHANGED <<overwritten, crashed>>

Next ==
    \/ Create \/ CreateStringArray \/ Duplicate \/ Parse
    \/ AddItem \/ AddItemReference
    \/ DetachItem \/ DeleteItem \/ ReplaceItem \/ Delete

Spec == Init /\ [][Next]_vars

-----------------------------------------------------------------------------
(* Properties.                                                             *)

\* Every list can be walked both ways, and what the caller holds is in none:
\* cJSON_DetachItemFromArray relinks through prev, and cJSON_Delete follows next.
WellLinked ==
    /\ \A r \in roots : items[r].next = NULL /\ items[r].prev = NULL
    /\ \A p \in Used(items) :
         LET s == ChildrenOf(H, p) IN
         \A j \in DOMAIN s : items[s[j]].prev = IF j = 1 THEN NULL ELSE s[j - 1]

\* Every item is owned by exactly one root or container, and every string by
\* one item, whatever call failed for want of memory: nothing leaks but the
\* names that ReplaceItemInObject overwrites, and nothing is freed twice.
OwnedOnce ==
    LET kids == [p \in Used(items) \ References |-> ChildrenOf(H, p)]
        owners(c) == UNION {{p} \X {j \in DOMAIN kids[p] : kids[p][j] = c} : p \in DOMAIN kids}
        slots == (Used(items) \X {"string"}) \cup ((Used(items) \ References) \X {"valuestring"})
        holders(t) == {s \in slots : items[s[1]][s[2]] = t}
    IN /\ UNION {Owned(r) : r \in roots} = Used(items)
       /\ \A c \in Used(items) : Cardinality(owners(c)) = IF c \in roots THEN 0 ELSE 1
       /\ Strings(Used(items)) \cup overwritten = Used(texts)
       /\ \A t \in Used(texts) : Cardinality(holders(t)) = IF t \in overwritten THEN 0 ELSE 1

\* The structure every later call relies on.
WellFormed == WellLinked /\ OwnedOnce

\* A string that is not there stands for nothing.
Text(h, t) == IF t = NULL THEN << >> ELSE <<h.texts[t]>>

\* The value an item stands for, its references resolved; only the members of an
\* object go by their names.
Node(h, a, below) ==
    LET s == ChildrenOf(h, a)
        name(c) == IF h.items[a].type = "cJSON_Object" THEN Text(h, h.items[c].string) ELSE << >>
    IN [type |-> h.items[a].type, value |-> Text(h, h.items[a].valuestring),
        children |-> [j \in DOMAIN s |-> <<name(s[j]), below[s[j]]>>]]
Tree(h, p) ==
    LET tree[n \in Nat] ==
          [a \in Items |-> IF n = 0 THEN << >> ELSE Node(h, a, tree[n - 1])]
    IN tree[Cardinality(Items)][p]

Duplicated(h, d, p) ==
    d.p # NULL =>
      /\ Tree(d.h, d.p) = Tree(h, p)
      /\ Text(d.h, d.h.items[d.p].string) = Text(h, items[p].string)
      /\ \A c \in Used(d.h.items) \ Used(items) :
           /\ ~d.h.items[c].ref
           /\ d.h.items[c].child \notin Used(items)
           /\ d.h.items[c].valuestring \notin Used(texts)

\* A duplicate is the item it was made from, in memory of its own: it holds no
\* reference to the original, whatever references the original holds.
DuplicateIsIdentical ==
    \A p \in Used(items), room \in {0, Cardinality(Spare)} :
        Duplicated(Heap(room), cJSON_Duplicate(Heap(room), p, TRUE), p)

\* The linked items implement sequences of children, until the program ends.
Forest == INSTANCE JsonForest WITH kids <- [p \in Used(items) |-> ChildrenOf(H, p)]
ImplementsForest == Forest!Init /\ [][Forest!Next \/ crashed']_<<items, roots>>
=============================================================================
