------------------------------- MODULE Base64 ------------------------------
(***************************************************************************)
(* base64_encode and base64_decode, which server/main.cpp and              *)
(* control/core/TaskManager.cpp each hold a copy of.  A text is a sequence *)
(* of bytes, an encoded one a sequence of positions in base64_chars and    *)
(* Pad.  (The loops of the code take three or four characters at a time;   *)
(* here each character of the result is given by its place.  Characters    *)
(* outside base64_chars, which base64_decode skips, never come up.)        *)
(***************************************************************************)
EXTENDS Integers, Sequences

Byte == 0..255
Pad == -1

\* Character j of the encoding of t: missing bytes of the last group are 0, and
\* characters that would hold nothing but them are Pad.
EncodedChar(t, j) ==
    LET g == 3 * ((j - 1) \div 4)
        p == (j - 1) % 4
        b(i) == IF g + i <= Len(t) THEN t[g + i] ELSE 0
    IN IF p = 0 THEN b(1) \div 4
       ELSE IF p = 1 THEN (b(1) % 4) * 16 + (b(2) \div 16)
       ELSE IF g + p > Len(t) THEN Pad
       ELSE IF p = 2 THEN (b(2) % 16) * 4 + (b(3) \div 64)
       ELSE b(3) % 64

Encode(t) == [j \in 1..(4 * ((Len(t) + 2) \div 3)) |-> EncodedChar(t, j)]

\* How many characters come before the first Pad.
Chars(s) == CHOOSE m \in 0..Len(s) : /\ \A i \in 1..m : s[i] # Pad
                                     /\ m < Len(s) => s[m + 1] = Pad

\* Byte j of the decoding.  A missing character of the last group is looked up
\* as '\0', which find() does not find: the npos it returns is 255 in a char.
DecodedByte(s, j) ==
    LET g == 4 * ((j - 1) \div 3)
        p == (j - 1) % 3
        c(i) == IF g + i <= Chars(s) THEN s[g + i] ELSE 255
    IN IF p = 0 THEN (c(1) * 4 + ((c(2) \div 16) % 4)) % 256
       ELSE IF p = 1 THEN ((c(2) % 16) * 16 + ((c(3) \div 4) % 16)) % 256
       ELSE ((c(3) % 4) * 64 + c(4)) % 256

\* The last group gives three bytes like the others (a mutant).
DecodedLenWhole(s) == 3 * ((Chars(s) + 3) \div 4)

\* The last group gives one byte less than it has characters.
DecodedLen(s) == 3 * (Chars(s) \div 4)
                 + (IF Chars(s) % 4 = 0 THEN 0 ELSE (Chars(s) % 4) - 1)

Decode(s) == [j \in 1..DecodedLen(s) |-> DecodedByte(s, j)]

=============================================================================
