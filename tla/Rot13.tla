------------------------------- MODULE Rot13 -------------------------------
(***************************************************************************)
(* The character transformation that the rot13 servers apply to every      *)
(* byte they echo, and the newline that ends a line for all of them.       *)
(* A character is a C char: a signed byte.                                 *)
(***************************************************************************)
EXTENDS Integers, Sequences

Char == -128 .. 127
NL == 10                                 \* '\n'

FirstHalf  == (97 .. 109) \cup (65 .. 77)    \* a-m, A-M
SecondHalf == (110 .. 122) \cup (78 .. 90)   \* n-z, N-Z

rot13_char(c) ==
    IF c \in FirstHalf THEN c + 13
    ELSE IF c \in SecondHalf THEN c - 13
    ELSE c

Rot13(s) == [k \in 1 .. Len(s) |-> rot13_char(s[k])]

(* The smaller of two lengths, for those who count bytes.                  *)
Least(m, n) == IF m <= n THEN m ELSE n
=============================================================================
