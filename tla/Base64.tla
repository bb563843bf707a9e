------------------------------- MODULE Base64 -------------------------------
(***************************************************************************)
(* gcc-basic/base64-impl.h: groups of three bytes become groups of four    *)
(* letters and back. Bytes and letters are numbers, sequences of them      *)
(* strings. The forms that fill a caller's buffer write the same.          *)
(***************************************************************************)
EXTENDS Integers, Sequences

Pad == 61                                   \* '='
Invalid == 255

(* kBase64Alphabet, and b64_lookup, its inverse.                           *)
Letter(v) ==
    CASE v < 26 -> v + 65
      [] v \in 26 .. 51 -> v + 71
      [] v \in 52 .. 61 -> v - 4
      [] v = 62 -> 43
      [] v = 63 -> 47

b64_lookup(c) ==
    IF \E v \in 0 .. 63 : Letter(v) = c THEN CHOOSE v \in 0 .. 63 : Letter(v) = c
    ELSE Invalid

a3_to_a4(a) == << a[1] \div 4, (a[1] % 4) * 16 + a[2] \div 16,
                  (a[2] % 16) * 4 + a[3] \div 64, a[3] % 64 >>

(* The sums are of unsigned chars.                                         *)
a4_to_a3(a) == << (a[1] * 4 + (a[2] % 64) \div 16) % 256,
                  ((a[2] % 16) * 16 + (a[3] % 64) \div 4) % 256,
                  ((a[3] % 4) * 64 + a[4]) % 256 >>

EncodedLength(length) == ((length + 2 - ((length + 2) % 3)) \div 3) * 4

(* The bytes of a string from i on, in groups of n, the last one filled up.*)
Groups(in, n) ==
    [g \in 1 .. (Len(in) + n - 1) \div n |->
        [k \in 1 .. n |-> IF (g - 1) * n + k <= Len(in) THEN in[(g - 1) * n + k] ELSE 0]]

Paddings(s) == {k \in 0 .. Len(s) : \A j \in Len(s) - k + 1 .. Len(s) : s[j] = Pad}

(* Mutation of NumEq: one '=' at most is looked for.                       *)
NumEq_One(s) == IF s # <<>> /\ s[Len(s)] = Pad THEN 1 ELSE 0

NumEq(s) == CHOOSE k \in Paddings(s) : \A j \in Paddings(s) : j <= k

EncodedGroup(a) == [k \in 1 .. 4 |-> Letter(a3_to_a4(a)[k])]
DecodedGroup(a) == a4_to_a3([k \in 1 .. 4 |-> b64_lookup(a[k])])

(* A last group of i bytes gives i + 1 letters, and '=' for the rest.      *)
Encode(in) ==
    LET groups == Groups(in, 3)
        missing == (3 - (Len(in) % 3)) % 3
        enc_len == 4 * Len(groups)
        out == [k \in 1 .. enc_len |->
                  IF k > enc_len - missing THEN Pad
                  ELSE EncodedGroup(groups[((k - 1) \div 4) + 1])[((k - 1) % 4) + 1]]
    IN [ok |-> enc_len = EncodedLength(Len(in)), out |-> out]

(* The string must not be empty: its last character is looked at first.    *)
DecodedLength(in) == ((6 * Len(in)) \div 8) - NumEq(in)

(* The letters up to the first '='.                                        *)
Letters(in) ==
    SubSeq(in, 1, CHOOSE k \in 0 .. Len(in) :
                    /\ \A j \in 1 .. k : in[j] # Pad
                    /\ k < Len(in) => in[k + 1] = Pad)

(* They are taken in fours; the zeros that fill up the last group are      *)
(* looked up as well, and give bytes that are not kept.                    *)
Decode(in) ==
    LET groups == Groups(Letters(in), 4)
        rest == Len(Letters(in)) % 4
        dec_len == (Len(Letters(in)) \div 4) * 3 + (IF rest = 0 THEN 0 ELSE rest - 1)
        out == [k \in 1 .. dec_len |->
                  DecodedGroup(groups[((k - 1) \div 3) + 1])[((k - 1) % 3) + 1]]
    IN [ok |-> dec_len = DecodedLength(in), out |-> out]

StripPadding(in) == SubSeq(in, 1, Len(in) - NumEq(in))

-----------------------------------------------------------------------------
(* What is encoded decodes to what it was, with its padding or without,    *)
(* and both calls find the length that they announced.                     *)
RoundTrips(in) ==
    LET e == Encode(in) IN
    /\ e.ok
    /\ \A s \in {e.out, StripPadding(e.out)} : Decode(s).ok /\ Decode(s).out = in
=============================================================================
