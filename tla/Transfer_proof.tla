--------------------------- MODULE Transfer_proof --------------------------
(***************************************************************************)
(* Proofs about the transfer of a file: base64 brings back every text of   *)
(* every length, and whatever the network cuts or breaks, a file arrives   *)
(* whole or not at all.                                                    *)
(***************************************************************************)
EXTENDS Transfer, SequenceTheorems, TLAPS

-----------------------------------------------------------------------------
(* base64 *)

Char == 0..63

\* A number of two digits, taken apart.
LEMMA Digits ==
    ASSUME NEW h \in Nat
    PROVE  /\ \A m \in 0..3 : (4 * h + m) \div 4 = h /\ (4 * h + m) % 4 = m
           /\ \A m \in 0..15 : (16 * h + m) \div 16 = h /\ (16 * h + m) % 16 = m
           /\ \A m \in 0..63 : (64 * h + m) \div 64 = h /\ (64 * h + m) % 64 = m
  OBVIOUS

LEMMA TwoDigits ==
    ASSUME NEW x \in Byte
    PROVE  /\ x \div 4 \in 0..63 /\ x % 4 \in 0..3 /\ x = 4 * (x \div 4) + (x % 4)
           /\ x \div 16 \in 0..15 /\ x % 16 \in 0..15 /\ x = 16 * (x \div 16) + (x % 16)
           /\ x \div 64 \in 0..3 /\ x % 64 \in 0..63 /\ x = 64 * (x \div 64) + (x % 64)
           /\ x % 256 = x
  BY DEF Byte

\* The six bits of four characters and the eight of three bytes.
LEMMA ThreeBytes ==
    ASSUME NEW a \in Byte, NEW b \in Byte, NEW c \in Byte
    PROVE  /\ a \div 4 \in Char
           /\ (a % 4) * 16 + (b \div 16) \in Char
           /\ (b % 16) * 4 + (c \div 64) \in Char
           /\ c % 64 \in Char
           /\ ((a \div 4) * 4 + ((((a % 4) * 16 + (b \div 16)) \div 16) % 4)) % 256 = a
           /\ ((((a % 4) * 16 + (b \div 16)) % 16) * 16
                + ((((b % 16) * 4 + (c \div 64)) \div 4) % 16)) % 256 = b
           /\ ((((b % 16) * 4 + (c \div 64)) % 4) * 64 + (c % 64)) % 256 = c
<1> DEFINE a1 == a \div 4
           a2 == a % 4
           b1 == b \div 16
           b2 == b % 16
           c1 == c \div 64
           c2 == c % 64
           p == a2 * 16 + b1
           q == b2 * 4 + c1
<1>1. /\ a1 \in 0..63 /\ a2 \in 0..3 /\ a = 4 * a1 + a2
      /\ b1 \in 0..15 /\ b2 \in 0..15 /\ b = 16 * b1 + b2
      /\ c1 \in 0..3 /\ c2 \in 0..63 /\ c = 64 * c1 + c2
      /\ a % 256 = a /\ b % 256 = b /\ c % 256 = c
  BY TwoDigits
<1> HIDE DEF a1, a2, b1, b2, c1, c2
<1>2. /\ p \in 0..63 /\ p \div 16 = a2 /\ p % 16 = b1
      /\ q \in 0..63 /\ q \div 4 = b2 /\ q % 4 = c1
  <2>1. a2 \in Nat /\ b2 \in Nat /\ p = 16 * a2 + b1 /\ q = 4 * b2 + c1
    BY <1>1
  <2>2. (16 * a2 + b1) \div 16 = a2 /\ (16 * a2 + b1) % 16 = b1
    BY <1>1, <2>1, Digits
  <2>3. (4 * b2 + c1) \div 4 = b2 /\ (4 * b2 + c1) % 4 = c1
    BY <1>1, <2>1, Digits
  <2> HIDE DEF p, q
  <2>4. p \in 0..63 /\ q \in 0..63
    BY <1>1, <2>1
  <2> QED BY <2>1, <2>2, <2>3, <2>4
<1>3. a2 % 4 = a2 /\ b2 % 16 = b2
  BY <1>1
<1> HIDE DEF p, q
<1>4. /\ a1 \in Char /\ p \in Char /\ q \in Char /\ c2 \in Char
      /\ (a1 * 4 + ((p \div 16) % 4)) % 256 = a
      /\ ((p % 16) * 16 + ((q \div 4) % 16)) % 256 = b
      /\ ((q % 4) * 64 + c2) % 256 = c
  BY <1>1, <1>2, <1>3 DEF Char
<1> QED BY <1>4 DEF a1, a2, b1, b2, c1, c2, p, q

\* A length is so many whole groups of three and a rest.
LEMMA Groups ==
    ASSUME NEW n \in Nat
    PROVE  \E q \in Nat, r \in 0..2 :
              /\ n = 3 * q + r
              /\ (n + 2) \div 3 = IF r = 0 THEN q ELSE q + 1
  <1>1. /\ n = 3 * (n \div 3) + (n % 3) /\ n \div 3 \in Nat /\ n % 3 \in 0..2
    OBVIOUS
  <1>2. (n + 2) \div 3 = IF n % 3 = 0 THEN n \div 3 ELSE (n \div 3) + 1
    BY <1>1
  <1> QED BY <1>1, <1>2

\* Byte i of group g, 0 where the text has ended.
ByteAt(t, g, i) == IF 3 * g + i <= Len(t) THEN t[3 * g + i] ELSE 0

LEMMA CharOfGroup ==
    ASSUME NEW t \in Seq(Byte), NEW g \in Nat
    PROVE  /\ EncodedChar(t, 4 * g + 1) = ByteAt(t, g, 1) \div 4
           /\ EncodedChar(t, 4 * g + 2)
                = (ByteAt(t, g, 1) % 4) * 16 + (ByteAt(t, g, 2) \div 16)
           /\ EncodedChar(t, 4 * g + 3)
                = IF 3 * g + 2 <= Len(t)
                  THEN (ByteAt(t, g, 2) % 16) * 4 + (ByteAt(t, g, 3) \div 64) ELSE Pad
           /\ EncodedChar(t, 4 * g + 4)
                = IF 3 * g + 3 <= Len(t) THEN ByteAt(t, g, 3) % 64 ELSE Pad
<1>1. /\ (4 * g + 1 - 1) \div 4 = g /\ (4 * g + 1 - 1) % 4 = 0
      /\ (4 * g + 2 - 1) \div 4 = g /\ (4 * g + 2 - 1) % 4 = 1
      /\ (4 * g + 3 - 1) \div 4 = g /\ (4 * g + 3 - 1) % 4 = 2
      /\ (4 * g + 4 - 1) \div 4 = g /\ (4 * g + 4 - 1) % 4 = 3
  OBVIOUS
<1>2. EncodedChar(t, 4 * g + 1) = ByteAt(t, g, 1) \div 4
  BY <1>1 DEF EncodedChar, ByteAt
<1>3. EncodedChar(t, 4 * g + 2) = (ByteAt(t, g, 1) % 4) * 16 + (ByteAt(t, g, 2) \div 16)
  BY <1>1 DEF EncodedChar, ByteAt
<1>4. EncodedChar(t, 4 * g + 3)
        = IF 3 * g + 2 <= Len(t)
          THEN (ByteAt(t, g, 2) % 16) * 4 + (ByteAt(t, g, 3) \div 64) ELSE Pad
  BY <1>1 DEF EncodedChar, ByteAt
<1>5. EncodedChar(t, 4 * g + 4)
        = IF 3 * g + 3 <= Len(t) THEN ByteAt(t, g, 3) % 64 ELSE Pad
  BY <1>1 DEF EncodedChar, ByteAt
<1> QED BY <1>2, <1>3, <1>4, <1>5

\* How long the encoding is, and what is at each place of group g.
LEMMA EncodedGroup ==
    ASSUME NEW t \in Seq(Byte)
    PROVE  /\ DOMAIN Encode(t) = 1..(4 * ((Len(t) + 2) \div 3))
           /\ Len(Encode(t)) = 4 * ((Len(t) + 2) \div 3)
           /\ \A g \in Nat : 3 * g < Len(t) =>
                /\ 4 * g + 4 <= Len(Encode(t))
                /\ \A i \in 1..4 : Encode(t)[4 * g + i] = EncodedChar(t, 4 * g + i)
<1> DEFINE n == Len(t)
           m == 4 * ((n + 2) \div 3)
<1>1. n \in Nat /\ m \in Nat
  OBVIOUS
<1>2. DOMAIN Encode(t) = 1..m
  BY DEF Encode
<1>3. Len(Encode(t)) = m
  BY <1>1, <1>2 DEF Encode
<1>4. ASSUME NEW g \in Nat, 3 * g < n
      PROVE  /\ 4 * g + 4 <= m
             /\ \A i \in 1..4 : Encode(t)[4 * g + i] = EncodedChar(t, 4 * g + i)
  <2>1. 4 * g + 4 <= m
    BY <1>1, <1>4
  <2>2. \A i \in 1..4 : 4 * g + i \in 1..m
    BY <1>1, <1>4, <2>1
  <2> QED BY <2>1, <2>2 DEF Encode
<1> QED BY <1>2, <1>3, <1>4

LEMMA BytesAt ==
    ASSUME NEW t \in Seq(Byte), NEW g \in Nat, NEW i \in 1..3
    PROVE  ByteAt(t, g, i) \in Byte
<1>1. CASE 3 * g + i <= Len(t)
  <2>1. 3 * g + i \in 1..Len(t)
    BY <1>1
  <2>2. t[3 * g + i] \in Byte
    BY <2>1
  <2> QED BY <1>1, <2>2 DEF ByteAt
<1>2. CASE ~(3 * g + i <= Len(t))
  BY <1>2 DEF ByteAt, Byte
<1> QED BY <1>1, <1>2

\* A place is so many whole groups of four and a place in the next.
LEMMA Places ==
    ASSUME NEW m \in Nat, NEW j \in 1..(4 * m)
    PROVE  \E g \in Nat : g < m /\ j \in {4 * g + 1, 4 * g + 2, 4 * g + 3, 4 * g + 4}
<1>1. (j - 1) \div 4 \in Nat /\ j - 1 = 4 * ((j - 1) \div 4) + ((j - 1) % 4)
      /\ (j - 1) % 4 \in 0..3
  OBVIOUS
<1> QED BY <1>1

\* An encoding is characters and, at its end, no more than two Pads.
LEMMA EncodedChars ==
    ASSUME NEW t \in Seq(Byte)
    PROVE  /\ Encode(t) \in Seq(Char \union {Pad})
           /\ Chars(Encode(t)) = IF Len(t) % 3 = 0 THEN 4 * (Len(t) \div 3)
                                 ELSE 4 * (Len(t) \div 3) + (Len(t) % 3) + 1
<1> DEFINE n == Len(t)
           e == Encode(t)
           c == IF n % 3 = 0 THEN 4 * (n \div 3) ELSE 4 * (n \div 3) + (n % 3) + 1
<1>1. PICK q \in Nat, r \in 0..2 :
           n = 3 * q + r /\ (n + 2) \div 3 = IF r = 0 THEN q ELSE q + 1
  <2>1. n \in Nat
    OBVIOUS
  <2> QED BY <2>1, Groups
<1>2. /\ c = IF r = 0 THEN 4 * q ELSE 4 * q + r + 1
      /\ c \in Nat
  BY <1>1
<1> DEFINE m == IF r = 0 THEN q ELSE q + 1
<1>3. m \in Nat /\ DOMAIN e = 1..(4 * m) /\ Len(e) = 4 * m /\ c <= 4 * m
  BY <1>1, <1>2, EncodedGroup
<1>4. ASSUME NEW g \in Nat, g < m
      PROVE  /\ e[4 * g + 1] \in Char /\ e[4 * g + 2] \in Char
             /\ e[4 * g + 3] \in Char \union {Pad} /\ e[4 * g + 4] \in Char \union {Pad}
             /\ e[4 * g + 3] = Pad <=> 4 * g + 3 > c
             /\ e[4 * g + 4] = Pad <=> 4 * g + 4 > c
  <2>1. 3 * g < n
    BY <1>1, <1>4
  <2>2. /\ e[4 * g + 1] = EncodedChar(t, 4 * g + 1)
        /\ e[4 * g + 2] = EncodedChar(t, 4 * g + 2)
        /\ e[4 * g + 3] = EncodedChar(t, 4 * g + 3)
        /\ e[4 * g + 4] = EncodedChar(t, 4 * g + 4)
    <3>1. \A i \in 1..4 : e[4 * g + i] = EncodedChar(t, 4 * g + i)
      BY <2>1, EncodedGroup
    <3> HIDE DEF e
    <3> QED BY <3>1
  <2>3. Pad \notin Char
    BY DEF Pad, Char
  <2>4. 3 * g + 2 > n <=> 4 * g + 3 > c
    BY <1>1, <1>2, <1>4
  <2>5. 3 * g + 3 > n <=> 4 * g + 4 > c
    BY <1>1, <1>2, <1>4
  <2> DEFINE x == ByteAt(t, g, 1)
             y == ByteAt(t, g, 2)
             z == ByteAt(t, g, 3)
  <2>6. x \in Byte /\ y \in Byte /\ z \in Byte
    BY BytesAt
  <2>7. /\ e[4 * g + 1] = x \div 4
        /\ e[4 * g + 2] = (x % 4) * 16 + (y \div 16)
        /\ e[4 * g + 3] = IF 3 * g + 2 <= n THEN (y % 16) * 4 + (z \div 64) ELSE Pad
        /\ e[4 * g + 4] = IF 3 * g + 3 <= n THEN z % 64 ELSE Pad
    <3> HIDE DEF e
    <3> QED BY <2>2, CharOfGroup
  <2> HIDE DEF x, y, z, e, c
  <2>8. /\ x \div 4 \in Char /\ (x % 4) * 16 + (y \div 16) \in Char
        /\ (y % 16) * 4 + (z \div 64) \in Char /\ z % 64 \in Char
    BY <2>6, ThreeBytes
  <2> QED BY <1>1, <1>2, <2>3, <2>4, <2>5, <2>7, <2>8
<1> HIDE DEF e, c, m
<1>5. \A j \in 1..(4 * m) : e[j] \in Char \union {Pad} /\ (e[j] = Pad <=> j > c)
  <2> TAKE j \in 1..(4 * m)
  <2>1. PICK g \in Nat : g < m /\ j \in {4 * g + 1, 4 * g + 2, 4 * g + 3, 4 * g + 4}
    BY <1>3, Places
  <2>2. 4 * g + 2 <= c
    BY <1>1, <1>2, <2>1 DEF m
  <2>3. Pad \notin Char
    BY DEF Pad, Char
  <2> QED BY <1>2, <1>4, <2>1, <2>2, <2>3
<1>6. e \in Seq(Char \union {Pad})
  <2>1. e = [j \in 1..(4 * m) |-> e[j]]
    BY <1>3 DEF e, Encode
  <2> QED BY <1>3, <1>5, <2>1
<1>7. Chars(e) = c
  <2>1. /\ c \in 0..Len(e)
        /\ \A i \in 1..c : e[i] # Pad
        /\ c < Len(e) => e[c + 1] = Pad
    BY <1>2, <1>3, <1>5
  <2>2. \A k \in 0..Len(e) : /\ \A i \in 1..k : e[i] # Pad
                             /\ k < Len(e) => e[k + 1] = Pad
                             => k = c
    BY <1>2, <1>3, <1>5
  <2> QED BY <2>1, <2>2 DEF Chars
<1> QED BY <1>6, <1>7 DEF e, c

\* Byte i of group g of a decoding, if the group has its characters.
LEMMA ByteOfGroup ==
    ASSUME NEW s, NEW g \in Nat,
           NEW m \in Nat, Chars(s) = m
    PROVE  /\ 4 * g + 2 <= m =>
                DecodedByte(s, 3 * g + 1)
                  = (s[4 * g + 1] * 4 + ((s[4 * g + 2] \div 16) % 4)) % 256
           /\ 4 * g + 3 <= m =>
                DecodedByte(s, 3 * g + 2)
                  = ((s[4 * g + 2] % 16) * 16 + ((s[4 * g + 3] \div 4) % 16)) % 256
           /\ 4 * g + 4 <= m =>
                DecodedByte(s, 3 * g + 3)
                  = ((s[4 * g + 3] % 4) * 64 + s[4 * g + 4]) % 256
<1>1. /\ (3 * g + 1 - 1) \div 3 = g /\ (3 * g + 1 - 1) % 3 = 0
      /\ (3 * g + 2 - 1) \div 3 = g /\ (3 * g + 2 - 1) % 3 = 1
      /\ (3 * g + 3 - 1) \div 3 = g /\ (3 * g + 3 - 1) % 3 = 2
  OBVIOUS
<1>2. ASSUME 4 * g + 2 <= m
      PROVE  DecodedByte(s, 3 * g + 1)
               = (s[4 * g + 1] * 4 + ((s[4 * g + 2] \div 16) % 4)) % 256
  BY <1>1, <1>2 DEF DecodedByte
<1>3. ASSUME 4 * g + 3 <= m
      PROVE  DecodedByte(s, 3 * g + 2)
               = ((s[4 * g + 2] % 16) * 16 + ((s[4 * g + 3] \div 4) % 16)) % 256
  BY <1>1, <1>3 DEF DecodedByte
<1>4. ASSUME 4 * g + 4 <= m
      PROVE  DecodedByte(s, 3 * g + 3) = ((s[4 * g + 3] % 4) * 64 + s[4 * g + 4]) % 256
  BY <1>1, <1>4 DEF DecodedByte
<1> QED BY <1>2, <1>3, <1>4

LEMMA GroupsOfBytes ==
    ASSUME NEW n \in Nat, NEW j \in 1..n
    PROVE  \E g \in Nat : 3 * g < n /\ j \in {3 * g + 1, 3 * g + 2, 3 * g + 3}
<1>1. /\ (j - 1) \div 3 \in Nat /\ j - 1 = 3 * ((j - 1) \div 3) + ((j - 1) % 3)
      /\ (j - 1) % 3 \in 0..2
  OBVIOUS
<1> QED BY <1>1

\* What base64_encode makes of a text, base64_decode turns back into it, byte by
\* byte, whatever its length.
THEOREM RoundTrip == \A t \in Seq(Byte) : Decode(Encode(t)) = t
<1> SUFFICES ASSUME NEW t \in Seq(Byte) PROVE Decode(Encode(t)) = t
  OBVIOUS
<1> DEFINE n == Len(t)
           e == Encode(t)
           m == Chars(e)
<1>1. n \in Nat
  OBVIOUS
<1>2. PICK q \in Nat, r \in 0..2 :
           n = 3 * q + r /\ (n + 2) \div 3 = IF r = 0 THEN q ELSE q + 1
  BY <1>1, Groups
<1>3. m = IF r = 0 THEN 4 * q ELSE 4 * q + r + 1
  <2>1. n % 3 = r /\ n \div 3 = q
    BY <1>1, <1>2
  <2> QED BY <2>1, EncodedChars
<1>4. DecodedLen(e) = n
  <2>1. m \div 4 = q /\ m % 4 = IF r = 0 THEN 0 ELSE r + 1
    BY <1>2, <1>3
  <2> QED BY <1>2, <2>1 DEF DecodedLen
<1>5. \A j \in 1..n : DecodedByte(e, j) = t[j]
  <2> TAKE j \in 1..n
  <2>1. PICK g \in Nat : 3 * g < n /\ j \in {3 * g + 1, 3 * g + 2, 3 * g + 3}
    BY <1>1, GroupsOfBytes
  <2> DEFINE x == ByteAt(t, g, 1)
             y == ByteAt(t, g, 2)
             z == ByteAt(t, g, 3)
  <2>2. x \in Byte /\ y \in Byte /\ z \in Byte
    BY BytesAt
  <2>3. /\ x = t[3 * g + 1]
        /\ 3 * g + 2 <= n => y = t[3 * g + 2]
        /\ 3 * g + 3 <= n => z = t[3 * g + 3]
    BY <1>1, <2>1 DEF ByteAt
  <2>4. /\ e[4 * g + 1] = EncodedChar(t, 4 * g + 1)
        /\ e[4 * g + 2] = EncodedChar(t, 4 * g + 2)
        /\ e[4 * g + 3] = EncodedChar(t, 4 * g + 3)
        /\ e[4 * g + 4] = EncodedChar(t, 4 * g + 4)
    <3>1. \A i \in 1..4 : e[4 * g + i] = EncodedChar(t, 4 * g + i)
      BY <2>1, EncodedGroup
    <3> HIDE DEF e
    <3> QED BY <3>1
  <2> HIDE DEF e, m
  <2>5. /\ e[4 * g + 1] = x \div 4
        /\ e[4 * g + 2] = (x % 4) * 16 + (y \div 16)
        /\ 3 * g + 2 <= n => e[4 * g + 3] = (y % 16) * 4 + (z \div 64)
        /\ 3 * g + 3 <= n => e[4 * g + 4] = z % 64
    BY <2>4, CharOfGroup
  <2>6. /\ 4 * g + 2 <= m
        /\ 3 * g + 2 <= n => 4 * g + 3 <= m
        /\ 3 * g + 3 <= n => 4 * g + 4 <= m
        /\ m \in Nat
    BY <1>2, <1>3, <2>1
  <2>7. /\ DecodedByte(e, 3 * g + 1)
              = (e[4 * g + 1] * 4 + ((e[4 * g + 2] \div 16) % 4)) % 256
        /\ 3 * g + 2 <= n => DecodedByte(e, 3 * g + 2)
              = ((e[4 * g + 2] % 16) * 16 + ((e[4 * g + 3] \div 4) % 16)) % 256
        /\ 3 * g + 3 <= n => DecodedByte(e, 3 * g + 3)
              = ((e[4 * g + 3] % 4) * 64 + e[4 * g + 4]) % 256
    BY <2>6, ByteOfGroup DEF m
  <2> HIDE DEF x, y, z
  <2>8. /\ DecodedByte(e, 3 * g + 1) = x
        /\ 3 * g + 2 <= n => DecodedByte(e, 3 * g + 2) = y
        /\ 3 * g + 3 <= n => DecodedByte(e, 3 * g + 3) = z
    <3>1. /\ ((x \div 4) * 4 + ((((x % 4) * 16 + (y \div 16)) \div 16) % 4)) % 256 = x
          /\ ((((x % 4) * 16 + (y \div 16)) % 16) * 16
               + ((((y % 16) * 4 + (z \div 64)) \div 4) % 16)) % 256 = y
          /\ ((((y % 16) * 4 + (z \div 64)) % 4) * 64 + (z % 64)) % 256 = z
      BY <2>2, ThreeBytes
    <3>2. DecodedByte(e, 3 * g + 1) = x
      BY <2>5, <2>7, <3>1
    <3>3. ASSUME 3 * g + 2 <= n PROVE DecodedByte(e, 3 * g + 2) = y
      BY <2>5, <2>7, <3>1, <3>3
    <3>4. ASSUME 3 * g + 3 <= n PROVE DecodedByte(e, 3 * g + 3) = z
      <4>1. 3 * g + 2 <= n
        BY <1>1, <3>4
      <4> QED BY <2>5, <2>7, <3>1, <3>4, <4>1
    <3> QED BY <3>2, <3>3, <3>4
  <2>9. CASE j = 3 * g + 1
    BY <2>3, <2>8, <2>9
  <2>10. CASE j = 3 * g + 2
    BY <1>1, <2>3, <2>8, <2>10
  <2>11. CASE j = 3 * g + 3
    BY <1>1, <2>3, <2>8, <2>11
  <2> QED BY <2>1, <2>9, <2>10, <2>11
<1>6. Decode(e) = [j \in 1..n |-> t[j]]
  BY <1>4, <1>5 DEF Decode
<1> QED BY <1>6

-----------------------------------------------------------------------------
(* Messages and their beginnings *)

\* What an object says of a file or of success.
Sayable == Char \union {Pad, Success, Content}

\* x is how y begins.
Begins(x, y) == /\ x \in Seq(Int) /\ Len(x) <= Len(y)
                /\ \A i \in 1..Len(x) : x[i] = y[i]

LEMMA SayableInt == /\ Sayable \subseteq Int /\ Open \in Int /\ Close \in Int
                    /\ Open \notin Sayable /\ Close \notin Sayable /\ Open # Close
                    /\ Success # Content
  BY DEF Sayable, Char, Pad, Success, Content, Open, Close

LEMMA ObjectHas ==
    ASSUME NEW s \in Seq(Sayable)
    PROVE  /\ Object(s) \in Seq(Int) /\ Len(Object(s)) = Len(s) + 2
           /\ Object(s)[1] = Open /\ Object(s)[Len(s) + 2] = Close
           /\ \A i \in 1..Len(s) : Object(s)[i + 1] = s[i]
           /\ Parses(Object(s)) /\ Said(Object(s)) = s
<1>1. s \in Seq(Int)
  BY SayableInt, SeqMonotonic
<1>2. /\ Object(s) \in Seq(Int) /\ Len(Object(s)) = Len(s) + 2
      /\ Object(s)[1] = Open /\ Object(s)[Len(s) + 2] = Close
      /\ \A i \in 1..Len(s) : Object(s)[i + 1] = s[i]
  <2> DEFINE u == <<Open>> \o s
  <2>1. /\ <<Open>> \in Seq(Int) /\ Len(<<Open>>) = 1 /\ <<Open>>[1] = Open
        /\ <<Close>> \in Seq(Int) /\ Len(<<Close>>) = 1 /\ <<Close>>[1] = Close
        /\ Len(s) \in Nat
    BY <1>1, SayableInt
  <2>2. /\ u \in Seq(Int) /\ Len(u) = 1 + Len(s)
        /\ \A i \in 1..(1 + Len(s)) : u[i] = IF i <= 1 THEN <<Open>>[i] ELSE s[i - 1]
    <3> HIDE DEF Open
    <3> QED BY <1>1, <2>1, ConcatProperties
  <2> HIDE DEF u
  <2>9. u[1] = Open /\ \A i \in 1..Len(s) : u[i + 1] = s[i]
    <3>1. \A i \in 1..Len(s) : i + 1 \in 1..(1 + Len(s)) /\ ~(i + 1 <= 1) /\ (i + 1) - 1 = i
      BY <2>1
    <3> QED BY <2>1, <2>2, <3>1
  <2>3. /\ u \o <<Close>> \in Seq(Int) /\ Len(u \o <<Close>>) = Len(u) + 1
        /\ \A i \in 1..(Len(u) + 1) :
              (u \o <<Close>>)[i] = IF i <= Len(u) THEN u[i] ELSE <<Close>>[i - Len(u)]
    BY <2>1, <2>2, ConcatProperties
  <2>4. Object(s) = u \o <<Close>>
    BY DEF Object, u
  <2> HIDE DEF Object
  <2>5. /\ Object(s) \in Seq(Int) /\ Len(Object(s)) = Len(s) + 2
        /\ \A i \in 1..(Len(s) + 2) :
              Object(s)[i] = IF i <= Len(s) + 1 THEN u[i] ELSE <<Close>>[i - (Len(s) + 1)]
    BY <2>1, <2>2, <2>3, <2>4
  <2>6. Object(s)[1] = Open
    BY <2>1, <2>5, <2>9
  <2>7. Object(s)[Len(s) + 2] = Close
    BY <2>1, <2>5
  <2>8. \A i \in 1..Len(s) : Object(s)[i + 1] = s[i]
    <3>1. \A i \in 1..Len(s) : i + 1 \in 1..(Len(s) + 2) /\ i + 1 <= Len(s) + 1
      BY <2>1
    <3> QED BY <2>5, <2>9, <3>1
  <2> QED BY <2>5, <2>6, <2>7, <2>8
<1>3. Parses(Object(s))
  BY <1>2 DEF Parses
<1>4. Said(Object(s)) = s
  <2>1. Said(Object(s)) = SubSeq(Object(s), 2, Len(s) + 1)
    BY <1>2 DEF Said
  <2>2. /\ SubSeq(Object(s), 2, Len(s) + 1) \in Seq(Int)
        /\ Len(SubSeq(Object(s), 2, Len(s) + 1)) = Len(s)
        /\ \A i \in 1..Len(s) : SubSeq(Object(s), 2, Len(s) + 1)[i] = Object(s)[i + 1]
    BY <1>2
  <2> QED BY <1>1, <1>2, <2>1, <2>2
<1> QED BY <1>2, <1>3, <1>4

\* A beginning of an object is an object only if it is the whole.
LEMMA WholeOrNothing ==
    ASSUME NEW s \in Seq(Sayable), NEW x, Begins(x, Object(s)), Parses(x)
    PROVE  Said(x) = s
<1> DEFINE k == Len(x)
           o == Object(s)
           n == Len(s)
<1>1. /\ o \in Seq(Int) /\ Len(o) = n + 2 /\ n \in Nat
      /\ o[1] = Open /\ \A i \in 1..n : o[i + 1] = s[i] /\ s[i] # Close
      /\ Said(o) = s
  BY ObjectHas, SayableInt
<1>2. x \in Seq(Int) /\ k \in Nat /\ k >= 2 /\ k <= n + 2 /\ o[k] = Close
  <2>1. /\ x \in Seq(Int) /\ k >= 2 /\ k <= Len(o) /\ x[k] = Close
        /\ \A i \in 1..k : x[i] = o[i]
    BY DEF Begins, Parses
  <2>2. k \in Nat
    BY <2>1
  <2> HIDE DEF k, o
  <2> QED BY <1>1, <2>1, <2>2
<1>3. k = n + 2
  <2>1. k - 1 \in 1..n => o[(k - 1) + 1] # Close
    BY <1>1
  <2> QED BY <1>1, <1>2, <2>1
<1>4. x = o
  <2>1. \A i \in 1..Len(x) : x[i] = o[i]
    BY DEF Begins
  <2> QED BY <1>1, <1>2, <1>3, <2>1
<1> QED BY <1>1, <1>4

LEMMA MessageHas ==
    ASSUME NEW s \in Seq(Sayable)
    PROVE  /\ Headers \o Object(s) \in Seq(Int)
           /\ Len(Headers \o Object(s)) = Len(Object(s)) + 2
           /\ \A i \in 1..Len(Object(s)) : (Headers \o Object(s))[i + 2] = Object(s)[i]
           /\ Received(Headers \o Object(s)) = Object(s)
<1> DEFINE o == Object(s)
           m == Headers \o o
<1>1. o \in Seq(Int) /\ Headers \in Seq(Int) /\ Len(Headers) = 2
  BY ObjectHas DEF Headers
<1> HIDE DEF o
<1>2. /\ m \in Seq(Int) /\ Len(m) = Len(o) + 2
      /\ \A i \in 1..Len(o) : m[i + 2] = o[i]
  <2>1. /\ m \in Seq(Int) /\ Len(m) = 2 + Len(o) /\ Len(o) \in Nat
        /\ \A i \in 1..(2 + Len(o)) : m[i] = IF i <= 2 THEN Headers[i] ELSE o[i - 2]
    <3>1. /\ m \in Seq(Int) /\ Len(m) = Len(Headers) + Len(o)
          /\ \A i \in 1..(Len(Headers) + Len(o)) :
                m[i] = IF i <= Len(Headers) THEN Headers[i] ELSE o[i - Len(Headers)]
      BY <1>1, ConcatProperties
    <3> HIDE DEF m
    <3> QED BY <1>1, <3>1, LenProperties
  <2> HIDE DEF m
  <2> QED BY <2>1
<1>3. Received(m) = o
  <2>1. Received(m) = SubSeq(m, 3, Len(o) + 2)
    BY <1>1, <1>2 DEF Received
  <2> HIDE DEF m
  <2>2. /\ SubSeq(m, 3, Len(o) + 2) \in Seq(Int)
        /\ Len(SubSeq(m, 3, Len(o) + 2)) = Len(o)
        /\ \A i \in 1..Len(o) : SubSeq(m, 3, Len(o) + 2)[i] = m[i + 2]
    BY <1>1, <1>2
  <2> QED BY <1>1, <1>2, <2>1, <2>2
<1> QED BY <1>2, <1>3 DEF o

\* The head and a part of the body are read; what was read and the rest begin the
\* body still.
LEMMA BeginsAfterHead ==
    ASSUME NEW s \in Seq(Sayable), NEW w, Begins(w, Headers \o Object(s)),
           NEW k \in 2..Len(w)
    PROVE  Begins(SubSeq(w, 3, k) \o SubSeq(w, k + 1, Len(w)), Object(s))
<1> DEFINE o == Object(s)
           m == Headers \o o
           a == SubSeq(w, 3, k)
           b == SubSeq(w, k + 1, Len(w))
<1>1. /\ o \in Seq(Int) /\ w \in Seq(Int) /\ Len(w) <= Len(o) + 2
      /\ \A i \in 1..Len(o) : m[i + 2] = o[i]
      /\ \A i \in 1..Len(w) : w[i] = m[i]
  BY ObjectHas, MessageHas DEF Begins
<1> HIDE DEF o, m
<1>2. /\ a \in Seq(Int) /\ Len(a) = k - 2
      /\ \A i \in 1..(k - 2) : a[i] = w[i + 2]
      /\ b \in Seq(Int) /\ Len(b) = Len(w) - k
      /\ \A i \in 1..(Len(w) - k) : b[i] = w[i + k]
  BY <1>1
<1> HIDE DEF a, b
<1>3. /\ a \o b \in Seq(Int) /\ Len(a \o b) = Len(a) + Len(b)
      /\ \A i \in 1..(Len(a) + Len(b)) :
            (a \o b)[i] = IF i <= Len(a) THEN a[i] ELSE b[i - Len(a)]
  BY <1>2, ConcatProperties
<1>4. Len(w) \in Nat /\ Len(o) \in Nat
  BY <1>1, LenProperties
<1>5. \A i \in 1..(Len(w) - 2) : w[i + 2] = o[i]
  BY <1>1, <1>4
<1>6. \A i \in 1..(Len(w) - 2) : (a \o b)[i] = w[i + 2]
  BY <1>2, <1>3, <1>4
<1>7. Len(a \o b) = Len(w) - 2 /\ Len(w) - 2 <= Len(o)
  BY <1>1, <1>2, <1>3, <1>4
<1>8. Begins(a \o b, o)
  BY <1>3, <1>5, <1>6, <1>7 DEF Begins
<1> QED BY <1>8 DEF o, a, b

LEMMA BeginsShorter ==
    ASSUME NEW y \in Seq(Int), NEW a \in Seq(Int), NEW w \in Seq(Int),
           Begins(a \o w, y)
    PROVE  /\ Begins(a, y)
           /\ \A k \in 0..Len(w) : Begins(a \o SubSeq(w, 1, k), y)
<1> DEFINE aw == a \o w
<1>1. /\ Len(a) \in Nat /\ Len(w) \in Nat /\ Len(y) \in Nat
      /\ Len(aw) = Len(a) + Len(w)
      /\ \A i \in 1..(Len(a) + Len(w)) : aw[i] = IF i <= Len(a) THEN a[i] ELSE w[i - Len(a)]
      /\ Len(aw) <= Len(y)
      /\ \A i \in 1..Len(aw) : aw[i] = y[i]
  BY ConcatProperties, LenProperties DEF Begins
<1> HIDE DEF aw
<1>2. Begins(a, y)
  <2>1. \A i \in 1..Len(a) : i \in 1..Len(aw) /\ aw[i] = a[i]
    BY <1>1
  <2>2. Len(a) <= Len(y)
    BY <1>1
  <2> QED BY <1>1, <2>1, <2>2 DEF Begins
<1>3. ASSUME NEW k \in 0..Len(w) PROVE Begins(a \o SubSeq(w, 1, k), y)
  <2> DEFINE v == SubSeq(w, 1, k)
             av == a \o v
  <2>1. v \in Seq(Int) /\ Len(v) = k /\ \A i \in 1..k : v[i] = w[i]
    OBVIOUS
  <2> HIDE DEF v
  <2>2. /\ av \in Seq(Int) /\ Len(av) = Len(a) + k
        /\ \A i \in 1..(Len(a) + k) : av[i] = IF i <= Len(a) THEN a[i] ELSE v[i - Len(a)]
    BY <2>1, ConcatProperties
  <2> HIDE DEF av
  <2>3. \A i \in 1..(Len(a) + k) : i \in 1..Len(aw) /\ av[i] = aw[i]
    <3> TAKE i \in 1..(Len(a) + k)
    <3>1. i \in 1..(Len(a) + Len(w)) /\ i \in 1..Len(aw)
      BY <1>1
    <3>2. CASE i <= Len(a)
      BY <1>1, <2>2, <3>1, <3>2
    <3>3. CASE ~(i <= Len(a))
      <4>1. i - Len(a) \in 1..k
        BY <1>1, <3>3
      <4>2. v[i - Len(a)] = w[i - Len(a)]
        BY <2>1, <4>1
      <4> QED BY <1>1, <2>2, <3>1, <3>3, <4>2
    <3> QED BY <3>1, <3>2, <3>3
  <2>4. Len(av) <= Len(y)
    BY <1>1, <2>2
  <2>5. Begins(av, y)
    BY <1>1, <2>2, <2>3, <2>4 DEF Begins
  <2> QED BY <2>5 DEF av, v
<1> QED BY <1>2, <1>3

-----------------------------------------------------------------------------
(* Type correctness, and what is under way *)

\* The upload of a file, and what the server answers.
Carrying(f) == Headers \o Object(Encode(f))
ReplyTo(c, file) == IF c = "upload" THEN <<Success>>
                    ELSE IF file = NoFile THEN <<>> ELSE <<Content>> \o Encode(file)

\* A connection is there from connect to the end of the call; what the server wrote
\* is a beginning of the one answer to the one request, in which it spoke of file f.
Exchange(f) ==
    /\ pc \in {"idle", "connect"} => wire = <<>> /\ body = <<>>
    /\ pc # "idle" => call # "none" /\ calls # 0
    /\ peer = "open" => wire = <<>> /\ pc = "head"
    /\ peer \in {"closed", "reset"} \/ pc = "idle" => request = <<>>
    /\ pc = "head" => body = <<>> /\ Begins(wire, Headers \o Object(ReplyTo(call, f)))
    /\ pc = "rest" => Begins(body \o wire, Object(ReplyTo(call, f)))
    /\ wire \in Seq(Int) /\ body \in Seq(Int)
    /\ call = "upload" /\ request # <<>> => local \in Seq(Byte) /\ request = Carrying(local)
    /\ Writing => remote # NoFile
    /\ \A u \in uploads : /\ u.of <= calls
                          /\ u.of = calls => pc # "connect"
                          /\ u.of = calls /\ peer = "open" => /\ call = "upload"
                                                             /\ u.text = local
    /\ ~spoilt => f = served

Typed == TypeOK /\ \E f \in File : Exchange(f)

LEMMA EncodedSayable ==
    ASSUME NEW f \in Seq(Byte)
    PROVE  Encode(f) \in Seq(Sayable)
<1>1. Encode(f) \in Seq(Char \union {Pad})
  BY EncodedChars
<1>2. Char \union {Pad} \subseteq Sayable
  BY DEF Sayable
<1> QED BY <1>1, <1>2, SeqMonotonic

\* An upload is stored as it was; a content is taken out of its object.
LEMMA CarryingDecodes ==
    ASSUME NEW f \in Seq(Byte)
    PROVE  Carrying(f) # <<>> /\ Decode(Said(Received(Carrying(f)))) = f
<1>1. Encode(f) \in Seq(Sayable)
  BY EncodedSayable
<1>2. /\ Received(Carrying(f)) = Object(Encode(f)) /\ Said(Object(Encode(f))) = Encode(f)
      /\ Carrying(f) \in Seq(Int)
      /\ Len(Carrying(f)) = Len(Object(Encode(f))) + 2
      /\ Object(Encode(f)) \in Seq(Int)
  BY <1>1, MessageHas, ObjectHas DEF Carrying
<1>3. Carrying(f) # <<>>
  BY <1>2, LenProperties, EmptySeq
<1> QED BY <1>2, <1>3, RoundTrip

LEMMA ContentHas ==
    ASSUME NEW f \in Seq(Byte)
    PROVE  LET s == <<Content>> \o Encode(f)
           IN s \in Seq(Sayable) /\ s # <<>> /\ s[1] = Content /\ Decode(Tail(s)) = f
<1> DEFINE e == Encode(f)
           s == <<Content>> \o e
<1>1. e \in Seq(Sayable) /\ <<Content>> \in Seq(Sayable) /\ Len(<<Content>>) = 1
  BY EncodedSayable DEF Sayable
<1>2. Decode(e) = f
  BY RoundTrip
<1> HIDE DEF e
<1>3. /\ s \in Seq(Sayable) /\ Len(s) = Len(<<Content>>) + Len(e)
      /\ \A i \in 1..(Len(<<Content>>) + Len(e)) :
            s[i] = IF i <= Len(<<Content>>) THEN <<Content>>[i]
                   ELSE e[i - Len(<<Content>>)]
  BY <1>1, ConcatProperties
<1>4. Len(e) \in Nat
  BY <1>1, LenProperties
<1> HIDE DEF s
<1>5. Len(s) = 1 + Len(e) /\ s[1] = Content /\ \A i \in 1..Len(e) : s[i + 1] = e[i]
  <2>1. \A i \in 1..Len(e) : i + 1 \in 1..(1 + Len(e)) /\ ~(i + 1 <= 1) /\ (i + 1) - 1 = i
    BY <1>4
  <2>2. <<Content>>[1] = Content /\ 1 \in 1..(1 + Len(e))
    BY <1>4
  <2> QED BY <1>1, <1>3, <2>1, <2>2
<1>6. s # <<>>
  BY <1>3, <1>4, <1>5, EmptySeq
<1>7. Tail(s) = e
  <2>1. /\ Tail(s) \in Seq(Sayable) /\ Len(Tail(s)) = Len(s) - 1
        /\ \A i \in 1..Len(Tail(s)) : Tail(s)[i] = s[i + 1]
    BY <1>3, <1>6, HeadTailProperties
  <2>2. Len(Tail(s)) = Len(e)
    BY <1>4, <1>5, <2>1
  <2> QED BY <1>1, <1>5, <2>1, <2>2, SeqEqual
<1> QED BY <1>2, <1>3, <1>5, <1>6, <1>7 DEF s, e

LEMMA RepliesSayable ==
    ASSUME NEW c, NEW file \in File
    PROVE  ReplyTo(c, file) \in Seq(Sayable)
<1>1. <<Success>> \in Seq(Sayable) /\ <<>> \in Seq(Sayable)
  BY DEF Sayable
<1>2. file # NoFile => <<Content>> \o Encode(file) \in Seq(Sayable)
  BY ContentHas DEF File
<1> QED BY <1>1, <1>2 DEF ReplyTo

LEMMA EmptyBegins ==
    ASSUME NEW s \in Seq(Sayable)
    PROVE  /\ Begins(<<>>, Headers \o Object(s)) /\ Begins(<<>>, Object(s))
           /\ <<>> \o <<>> = <<>>
<1>1. /\ Len(Object(s)) \in Nat /\ Len(Headers \o Object(s)) \in Nat
      /\ <<>> \in Seq(Int) /\ Len(<<>>) = 0
  BY ObjectHas, MessageHas, LenProperties
<1> QED BY <1>1, ConcatEmptySeq DEF Begins

\* What is left of a text in which a write stopped.
LEMMA PrefixesAreTexts ==
    ASSUME NEW f \in Seq(Byte), NEW p \in Prefixes(f)
    PROVE  p \in Seq(Byte)
<1>1. PICK k \in 0..(Len(f) - 1) : p = SubSeq(f, 1, k)
  BY DEF Prefixes
<1> QED BY <1>1

\* What a handler leaves in the file, and what it leaves in a file it truncated.
LEMMA Overlaid ==
    ASSUME NEW text \in Seq(Byte), NEW file \in Seq(Byte)
    PROVE  Overlay(text, file) \in Seq(Byte) /\ Overlay(text, <<>>) = text
<1> DEFINE beyond == SubSeq(file, Len(text) + 1, Len(file))
<1>1. Len(text) \in Nat /\ Len(file) \in Nat
  BY LenProperties
<1>2. beyond \in Seq(Byte)
  BY <1>1
<1>3. SubSeq(<<>>, Len(text) + 1, 0) = <<>>
  BY <1>1
<1>4. Overlay(text, <<>>) = text
  BY <1>3, ConcatEmptySeq DEF Overlay
<1> HIDE DEF beyond
<1>5. text \o beyond \in Seq(Byte)
  BY <1>2, ConcatProperties
<1> QED BY <1>4, <1>5 DEF Overlay, beyond

LEMMA TypedInit == Init => Typed
<1> SUFFICES ASSUME Init PROVE Typed
  OBVIOUS
<1>1. Texts \union {NoFile} \subseteq File /\ MaxCalls \in Nat /\ MaxFaults \in Nat
  BY TransferAssumption DEF File
<1>2. /\ local \in File /\ remote \in File /\ served \in File
      /\ original \in [local : File, remote : File]
      /\ calls \in 0..MaxCalls /\ faults \in 0..MaxFaults
  BY <1>1 DEF Init, File
<1>3. /\ spoilt \in BOOLEAN /\ failbit \in BOOLEAN /\ uploads = {}
      /\ pc = "idle" /\ peer = "none" /\ call = "none" /\ result = "none"
  BY DEF Init
<1>4. TypeOK
  BY <1>2, <1>3 DEF TypeOK
<1>5. Exchange(served)
  BY DEF Init, Exchange, Writing
<1> QED BY <1>2, <1>4, <1>5 DEF Typed

\* A call ends: what it makes of the text, which is all of the reply or not enough.
LEMMA Returns ==
    ASSUME TypeOK, NEW f \in File, Exchange(f), pc \in {"head", "rest"},
           NEW text, text = <<>> \/ Begins(text, Object(ReplyTo(call, f))), Return(text)
    PROVE  /\ Typed'
           /\ UNCHANGED <<original, remote, served, uploads, call>>
           /\ pc' = "idle"
           /\ \/ local' = local /\ (result' = "true" => call = "upload" /\ text # <<>>)
              \/ call = "download" /\ text # <<>> /\ (~spoilt' => local' = served)
           /\ ~spoilt' => ~spoilt
<1>1. /\ UNCHANGED <<original, remote, served, uploads, call, calls>>
      /\ pc' = "idle" /\ request' = <<>> /\ wire' = <<>> /\ peer' = "none"
      /\ body' = <<>> /\ failbit' = FALSE
  BY DEF Return
<1> DEFINE reply == ReplyTo(call, f)
<1>2. reply \in Seq(Sayable) /\ call \in {"upload", "download"} /\ MaxFaults \in Nat
  BY RepliesSayable, TransferAssumption DEF TypeOK, Exchange
<1> HIDE DEF reply
<1>3. Parses(text) => text # <<>> /\ Said(text) = reply
  BY <1>2, WholeOrNothing DEF Parses, reply
<1>4. ASSUME call = "download", Holds(text, Content)
      PROVE  f \in Seq(Byte) /\ Decode(Tail(Said(text))) = f /\ text # <<>>
  <2>1. text # <<>> /\ Said(text) = reply /\ reply # <<>>
    BY <1>3, <1>4 DEF Holds
  <2>2. f # NoFile /\ reply = <<Content>> \o Encode(f)
    BY <1>4, <2>1 DEF reply, ReplyTo
  <2>3. f \in Seq(Byte)
    BY <2>2 DEF File
  <2> QED BY <2>1, <2>2, <2>3, ContentHas
<1>5. /\ local' \in File /\ spoilt' \in BOOLEAN /\ faults' \in 0..MaxFaults
      /\ result' \in {"true", "false"}
      /\ \/ local' = local /\ (result' = "true" => call = "upload" /\ text # <<>>)
         \/ call = "download" /\ text # <<>> /\ (~spoilt' => local' = f)
      /\ ~spoilt' => ~spoilt
  <2>1. CASE /\ ~Holds(text, IF call = "upload" THEN Success ELSE Content)
             /\ result' = "false"
             /\ UNCHANGED <<local, spoilt, faults>>
    BY <2>1 DEF TypeOK
  <2>2. CASE /\ call = "upload" /\ Holds(text, Success)
             /\ result' = "true"
             /\ UNCHANGED <<local, spoilt, faults>>
    BY <1>3, <2>2 DEF TypeOK, Holds
  <2>3. CASE /\ call = "download" /\ Holds(text, Content)
             /\ local' = Decode(Tail(Said(text)))
             /\ result' = "true" /\ UNCHANGED <<spoilt, faults>>
    BY <1>4, <2>3 DEF TypeOK, File
  <2>4. CASE /\ call = "download" /\ Holds(text, Content)
             /\ faults < MaxFaults /\ faults' = faults + 1
             /\ result' = "false" /\ UNCHANGED <<local, spoilt>>
    BY <1>2, <2>4 DEF TypeOK
  <2>5. CASE /\ call = "download" /\ Holds(text, Content)
             /\ faults < MaxFaults /\ faults' = faults + 1
             /\ local' \in Prefixes(Decode(Tail(Said(text))))
             /\ spoilt' = TRUE
             /\ result' = "true"
    <3>1. local' \in Seq(Byte)
      BY <1>4, <2>5, PrefixesAreTexts
    <3> QED BY <1>2, <1>4, <2>5, <3>1 DEF TypeOK, File
  <2> QED BY <2>1, <2>2, <2>3, <2>4, <2>5 DEF Return
<1>6. TypeOK'
  BY <1>1, <1>5 DEF TypeOK, File
<1>7. Exchange(served)'
  BY <1>1 DEF Exchange, Writing
<1>8. Typed'
  BY <1>6, <1>7 DEF Typed, TypeOK
<1>9. ~spoilt => f = served
  BY DEF Exchange
<1> QED BY <1>1, <1>5, <1>8, <1>9

LEMMA TypedCall ==
    ASSUME Typed, NEW c \in {"upload", "download"}, Call(c)
    PROVE  Typed'
<1>1. PICK f \in File : Exchange(f)
  BY DEF Typed
<1>2. /\ pc = "idle" /\ peer = "none" /\ wire = <<>> /\ body = <<>> /\ request = <<>>
      /\ calls \in 0..MaxCalls /\ calls < MaxCalls /\ calls' = calls + 1
      /\ call' = c
      /\ UNCHANGED <<files, faults, wire, peer, reading>>
  BY <1>1 DEF Call, Typed, TypeOK, Exchange
<1>3. \/ pc' = "idle" /\ result' = "false" /\ request' = <<>>
      \/ /\ pc' = "connect" /\ result' = "none"
         /\ c = "upload" => local # NoFile /\ request' = Carrying(local)
  BY <1>2 DEF Call, Carrying
<1>4. calls' \in 1..MaxCalls
  BY <1>2, TransferAssumption
<1>5. TypeOK'
  BY <1>2, <1>3, <1>4 DEF files, reading, Typed, TypeOK, File
<1>6. c = "upload" /\ request' # <<>> => local \in Seq(Byte) /\ request' = Carrying(local)
  BY <1>3 DEF Typed, TypeOK, File
<1>7. \A u \in uploads : u.of <= calls' /\ u.of # calls'
  BY <1>1, <1>2 DEF Exchange, Typed, TypeOK
<1>8. Exchange(f)'
  BY <1>1, <1>2, <1>3, <1>4, <1>6, <1>7 DEF files, reading, Exchange, Writing
<1> QED BY <1>5, <1>8 DEF Typed

LEMMA TypedConnect ==
    ASSUME Typed, Connect \/ Refused
    PROVE  Typed'
<1>1. PICK f \in File : Exchange(f)
  BY DEF Typed
<1>2. Begins(<<>>, Headers \o Object(ReplyTo(call, f)))
  BY RepliesSayable, EmptyBegins
<1>3. CASE Connect
  <2>1. TypeOK'
    BY <1>3 DEF Connect, files, reading, Typed, TypeOK, File
  <2>2. Exchange(f)'
    BY <1>1, <1>2, <1>3 DEF Connect, files, reading, Exchange, Writing
  <2> QED BY <2>1, <2>2 DEF Typed
<1>4. CASE Refused
  <2>1. TypeOK'
    BY <1>4, TransferAssumption DEF Refused, files, reading, Typed, TypeOK, File
  <2>2. Exchange(f)'
    BY <1>1, <1>4 DEF Refused, files, reading, TypeOK, Exchange, Writing
  <2> QED BY <2>1, <2>2 DEF Typed
<1> QED BY <1>3, <1>4

LEMMA TypedReadHead ==
    ASSUME Typed, NEW k \in Len(Headers)..Len(wire), ReadHead(k)
    PROVE  Typed'
<1>1. PICK f \in File : Exchange(f)
  BY DEF Typed
<1>2. Len(Headers) = 2 /\ wire \in Seq(Int)
  BY <1>1 DEF Headers, Exchange
<1>3. /\ pc = "head" /\ pc' = "rest"
      /\ body' = SubSeq(wire, 3, k)
      /\ wire' = SubSeq(wire, k + 1, Len(wire))
      /\ failbit' \in BOOLEAN
      /\ UNCHANGED <<files, call, calls, faults, request, peer, result>>
  BY <1>2 DEF ReadHead
<1>4. /\ Begins(wire, Headers \o Object(ReplyTo(call, f)))
      /\ ReplyTo(call, f) \in Seq(Sayable)
  BY <1>1, <1>3, RepliesSayable DEF Exchange
<1>5. Begins(body' \o wire', Object(ReplyTo(call, f)))
  BY <1>2, <1>3, <1>4, BeginsAfterHead
<1>6. body' \in Seq(Int) /\ wire' \in Seq(Int)
  BY <1>2, <1>3
<1>7. peer # "open" /\ call # "none"
  <2>1. wire # <<>>
    BY <1>2
  <2> QED BY <1>1, <1>3, <2>1 DEF Exchange
<1>8. TypeOK'
  BY <1>3 DEF files, Typed, TypeOK, File
<1>9. Exchange(f)'
  BY <1>1, <1>3, <1>5, <1>6, <1>7 DEF files, Exchange, Writing
<1> QED BY <1>8, <1>9 DEF Typed

\* The text that a call gets is a beginning of the reply.
LEMMA TextsBegin ==
    ASSUME NEW f \in File, Exchange(f), ReadNoHead \/ ReadRest
    PROVE  /\ pc \in {"head", "rest"}
           /\ \E text : /\ text = <<>> \/ Begins(text, Object(ReplyTo(call, f)))
                        /\ text # <<>> => wire # <<>> \/ body # <<>>
                        /\ Return(text)
<1> DEFINE o == Object(ReplyTo(call, f))
<1>1. o \in Seq(Int) /\ wire \in Seq(Int) /\ body \in Seq(Int)
  BY RepliesSayable, ObjectHas DEF Exchange
<1> HIDE DEF o
<1>2. CASE ReadNoHead
  BY <1>2 DEF ReadNoHead
<1>3. CASE ReadRest
  <2>1. pc = "rest" /\ Begins(body \o wire, o)
    BY <1>3 DEF ReadRest, Exchange, o
  <2>2. Begins(body, o)
    BY <1>1, <2>1, BeginsShorter
  <2>3. body \o wire # <<>> => wire # <<>> \/ body # <<>>
    BY ConcatEmptySeq, <1>1
  <2> QED BY <1>3, <2>1, <2>2, <2>3 DEF ReadRest, o
<1> QED BY <1>2, <1>3

LEMMA TypedAnswer ==
    ASSUME Typed, NEW f \in File, Answer(ReplyTo(call, f)), peer = "open",
           UNCHANGED <<call, calls, pc, reading, result, original, local>>,
           TypeOK', Writing' => remote' # NoFile, ~spoilt' => f = served',
           uploads' \subseteq uploads \/ \A u \in uploads' : u.of <= calls
    PROVE  Typed'
<1> DEFINE said == ReplyTo(call, f)
<1>1. /\ peer' = "closed" /\ request' = <<>> /\ wire' = Headers \o Object(said)
      /\ pc = "head" /\ body = <<>> /\ call # "none" /\ calls # 0
  BY DEF Answer, Typed, TypeOK, Exchange
<1>2. said \in Seq(Sayable)
  BY RepliesSayable
<1>3. wire' \in Seq(Int) /\ Begins(wire', Headers \o Object(said))
  <2> HIDE DEF said
  <2>1. Headers \o Object(said) \in Seq(Int)
    BY <1>2, MessageHas
  <2> QED BY <1>1, <2>1, LenProperties DEF Begins
<1>4. \A u \in uploads' : u.of <= calls
  BY DEF Typed, Exchange
<1>5. Exchange(f)'
  BY <1>1, <1>3, <1>4 DEF reading, Exchange
<1> QED BY <1>5 DEF Typed

\* The server has the file that was sent.
LEMMA Receives ==
    ASSUME Typed, Receive
    PROVE  /\ Typed'
           /\ UNCHANGED <<original, local, remote, spoilt, served, call, pc, wire, peer,
                          body, result>>
           /\ pc = "head"
           /\ uploads' = uploads \union {[of |-> calls, at |-> "come", text |-> local]}
           /\ local \in Seq(Byte)
<1>1. PICK f \in File : Exchange(f)
  BY DEF Typed
<1>2. /\ request = Carrying(local) /\ local \in Seq(Byte) /\ pc = "head"
      /\ call = "upload" /\ calls \in 1..MaxCalls
  BY <1>1, TransferAssumption DEF Receive, Typed, TypeOK, Exchange
<1>3. uploads' = uploads \union {[of |-> calls, at |-> "come", text |-> local]}
  BY <1>2, CarryingDecodes DEF Receive
<1>4. TypeOK'
  <2>1. uploads' \subseteq [of : 1..MaxCalls, at : {"come", "open", "failed"},
                            text : Seq(Byte)]
    BY <1>2, <1>3 DEF Typed, TypeOK
  <2> QED BY <2>1 DEF Receive, reading, Typed, TypeOK, File
<1>5. Writing' => Writing
  BY <1>3 DEF Writing
<1>6. \A u \in uploads' : /\ u.of <= calls
                          /\ u.of = calls => u.text = local
  BY <1>1, <1>2, <1>3 DEF Exchange, Receive
<1>7. Exchange(f)'
  BY <1>1, <1>2, <1>5, <1>6 DEF Receive, reading, Exchange
<1> QED BY <1>2, <1>3, <1>4, <1>7 DEF Receive, reading, Typed

\* An upload goes on, and no other with it.
Moves(u, at) == uploads' = (uploads \ {u}) \union {[u EXCEPT !.at = at]}

LEMMA Opens ==
    ASSUME Typed, NEW u \in uploads, OpenToWrite(u)
    PROVE  /\ Typed'
           /\ UNCHANGED <<original, local, served, call, pc, wire, body, result>>
           /\ ~spoilt' => ~spoilt /\ ~Writing /\ Moves(u, "open") /\ remote' = <<>>
<1>1. PICK f \in File : Exchange(f)
  BY DEF Typed
<1>2. PICK at \in {"open", "failed"} :
         /\ Moves(u, at)
         /\ \/ /\ at = "open" /\ remote' = <<>>
               /\ spoilt' = (spoilt \/ Writing) /\ UNCHANGED faults
            \/ /\ at = "failed" /\ faults < MaxFaults /\ faults' = faults + 1
               /\ spoilt' = TRUE /\ UNCHANGED remote
  BY DEF OpenToWrite, Moves
<1>3. UNCHANGED <<original, local, served, call, calls, pc, conn, reading, result>>
  BY DEF OpenToWrite
<1> DEFINE moved == [u EXCEPT !.at = at]
<1>4. /\ u \in [of : 1..MaxCalls, at : {"come", "open", "failed"}, text : Seq(Byte)]
      /\ MaxFaults \in Nat
  BY TransferAssumption DEF Typed, TypeOK
<1>5. /\ moved \in [of : 1..MaxCalls, at : {"come", "open", "failed"}, text : Seq(Byte)]
      /\ moved.of = u.of /\ moved.text = u.text /\ moved.at = at
  BY <1>4
<1>6. /\ remote' \in File /\ spoilt' \in BOOLEAN /\ faults' \in 0..MaxFaults
      /\ ~spoilt' => ~spoilt /\ ~Writing /\ at = "open" /\ remote' = <<>>
  <2>1. <<>> \in File
    BY DEF File
  <2>2. CASE /\ at = "open" /\ remote' = <<>>
             /\ spoilt' = (spoilt \/ Writing) /\ UNCHANGED faults
    <3>1. faults' \in 0..MaxFaults /\ remote' \in File
      BY <2>1, <2>2 DEF Typed, TypeOK
    <3>2. spoilt' \in BOOLEAN /\ (~spoilt' => ~spoilt /\ ~Writing)
      BY <2>2, Zenon DEF Typed, TypeOK
    <3> QED BY <2>2, <3>1, <3>2
  <2>3. CASE /\ at = "failed" /\ faults < MaxFaults /\ faults' = faults + 1
             /\ spoilt' = TRUE /\ UNCHANGED remote
    BY <1>4, <2>3 DEF Typed, TypeOK
  <2> QED BY <1>2, <2>2, <2>3
<1> HIDE DEF moved
<1>7. uploads' = (uploads \ {u}) \union {moved}
  BY <1>2 DEF Moves, moved
<1>8. TypeOK'
  <2>1. uploads' \subseteq [of : 1..MaxCalls, at : {"come", "open", "failed"},
                            text : Seq(Byte)]
    BY <1>5, <1>7 DEF Typed, TypeOK
  <2> QED BY <1>3, <1>6, <2>1 DEF conn, reading, Typed, TypeOK, File
<1>9. Writing' => remote' # NoFile
  <2>1. <<>> # NoFile
    <3>1. <<>> \in Seq(Byte)
      OBVIOUS
    <3> QED BY <3>1, TransferAssumption
  <2> QED BY <1>1, <1>2, <1>5, <1>7, <2>1 DEF Writing, Exchange
<1>10. \A v \in uploads' : \E w \in uploads : v.of = w.of /\ v.text = w.text
  BY <1>5, <1>7
<1>11. Exchange(f)'
  BY <1>1, <1>3, <1>6, <1>9, <1>10 DEF conn, reading, Exchange
<1> QED BY <1>2, <1>3, <1>6, <1>8, <1>11 DEF conn, reading, Typed

\* A file is written as it was sent, and success answered to the caller that is
\* there still.
LEMMA Writes ==
    ASSUME Typed, NEW u \in uploads, Write(u)
    PROVE  /\ Typed'
           /\ UNCHANGED <<original, local, call, pc, body, result>>
           /\ uploads' = uploads \ {u}
           /\ ~spoilt' => /\ ~spoilt
                          /\ u.at = "open" => remote' = Overlay(u.text, remote)
                          /\ u.at # "open" => u.at = "failed" /\ remote' = remote
           /\ \/ call = "upload" /\ u.text = local /\ served' = remote' /\ pc = "head"
              \/ UNCHANGED <<served, wire>>
<1>1. PICK f \in File : Exchange(f)
  BY DEF Typed
<1>2. /\ u \in [of : 1..MaxCalls, at : {"come", "open", "failed"}, text : Seq(Byte)]
      /\ MaxFaults \in Nat
  BY TransferAssumption DEF Typed, TypeOK
<1>3. /\ uploads' = uploads \ {u} /\ u.at \in {"open", "failed"}
      /\ UNCHANGED <<original, local, call, calls, pc, reading, result>>
  BY DEF Write
<1>4. u.at = "open" => remote \in Seq(Byte)
  BY <1>1 DEF Exchange, Writing, Typed, TypeOK, File
<1>5. /\ remote' \in File /\ spoilt' \in BOOLEAN /\ faults' \in 0..MaxFaults
      /\ u.at = "open" => remote' \in Seq(Byte)
      /\ u.at = "failed" => remote' = remote
      /\ ~spoilt' => /\ ~spoilt
                     /\ u.at = "open" => remote' = Overlay(u.text, remote)
  <2>1. CASE /\ remote' = IF u.at = "open" THEN Overlay(u.text, remote) ELSE remote
             /\ UNCHANGED <<spoilt, faults>>
    <3>1. u.at = "open" => Overlay(u.text, remote) \in Seq(Byte)
      BY <1>2, <1>4, Overlaid
    <3> QED BY <1>3, <2>1, <3>1 DEF Typed, TypeOK, File
  <2>2. CASE /\ u.at = "open"
             /\ faults < MaxFaults /\ faults' = faults + 1
             /\ \E p \in Prefixes(u.text) : remote' = Overlay(p, remote)
             /\ spoilt' = TRUE
    <3>1. remote' \in Seq(Byte)
      BY <1>2, <1>4, <2>2, PrefixesAreTexts, Overlaid
    <3> QED BY <1>2, <2>2, <3>1 DEF Typed, TypeOK, File
  <2> QED BY <2>1, <2>2 DEF Write
<1>6. Writing' => remote' # NoFile
  <2>1. remote' \in Seq(Byte) => remote' # NoFile
    BY TransferAssumption
  <2>2. Writing' => Writing
    BY <1>3 DEF Writing
  <2> QED BY <1>1, <1>3, <1>5, <2>1, <2>2 DEF Exchange
<1>7. CASE u.of = calls /\ peer = "open"
  <2>1. Answer(<<Success>>) /\ served' = remote'
    BY <1>7 DEF Write
  <2>2. call = "upload" /\ u.text = local /\ pc = "head"
    BY <1>1, <1>7 DEF Exchange
  <2>3. ReplyTo(call, served') = <<Success>>
    BY <2>2 DEF ReplyTo
  <2>4. TypeOK'
    BY <1>3, <1>5, <2>1, <2>2 DEF Answer, reading, Typed, TypeOK, File
  <2>5. PICK g \in File : g = served'
    BY <1>5, <2>1
  <2>6. Typed'
    BY <1>3, <1>6, <1>7, <2>1, <2>3, <2>4, <2>5, TypedAnswer
  <2> QED BY <1>3, <1>5, <2>1, <2>2, <2>6 DEF reading
<1>8. CASE ~(u.of = calls /\ peer = "open")
  <2>1. UNCHANGED <<served, conn>>
    BY <1>8 DEF Write
  <2>2. TypeOK'
    BY <1>3, <1>5, <2>1 DEF conn, reading, Typed, TypeOK, File
  <2>3. Exchange(f)'
    BY <1>1, <1>3, <1>5, <1>6, <2>1 DEF conn, reading, Exchange
  <2> QED BY <1>3, <1>5, <2>1, <2>2, <2>3 DEF conn, reading, Typed
<1> QED BY <1>7, <1>8

\* The server sends the file that it has, or an empty one that it could not open.
LEMMA Sends ==
    ASSUME Typed, ServeDownload
    PROVE  /\ Typed'
           /\ UNCHANGED <<original, local, remote, uploads, call, pc, body, result>>
           /\ pc = "head" /\ call = "download" /\ served' = remote
           /\ ~spoilt' => ~spoilt /\ ~Writing
<1>1. PICK g \in File : Exchange(g)
  BY DEF Typed
<1>2. /\ UNCHANGED <<original, local, remote, uploads, call, calls, pc, reading, result>>
      /\ call = "download" /\ peer = "open" /\ pc = "head" /\ served' = remote
      /\ remote \in File /\ MaxFaults \in Nat
  BY <1>1, TransferAssumption DEF ServeDownload, Typed, TypeOK, Exchange
<1>3. PICK f \in File : /\ Answer(ReplyTo(call, f))
                        /\ ~spoilt' => f = remote
                        /\ spoilt' \in BOOLEAN /\ faults' \in 0..MaxFaults
                        /\ ~spoilt' => ~spoilt /\ ~Writing
  <2>1. CASE /\ Answer(IF remote = NoFile THEN <<>> ELSE <<Content>> \o Encode(remote))
             /\ spoilt' = (spoilt \/ Writing)
             /\ UNCHANGED faults
    <3>1. Answer(ReplyTo(call, remote))
      BY <1>2, <2>1 DEF ReplyTo
    <3>2. spoilt' \in BOOLEAN /\ (~spoilt' => ~spoilt /\ ~Writing)
      BY <2>1, Zenon DEF Typed, TypeOK
    <3>3. faults' \in 0..MaxFaults
      BY <2>1 DEF Typed, TypeOK
    <3> QED BY <1>2, <3>1, <3>2, <3>3
  <2>2. CASE /\ remote # NoFile
             /\ Answer(<<Content>>)
             /\ faults < MaxFaults /\ faults' = faults + 1
             /\ spoilt' = TRUE
    <3>1. <<>> \in Seq(Byte) /\ <<>> # NoFile
      <4>1. <<>> \in Seq(Byte)
        OBVIOUS
      <4> QED BY <4>1, TransferAssumption
    <3>2. <<Content>> \o Encode(<<>>) = <<Content>>
      <4>1. Len(Encode(<<>>)) = 0 /\ Encode(<<>>) \in Seq(Sayable)
        <5>1. Len(Encode(<<>>)) = 4 * ((Len(<<>>) + 2) \div 3)
          BY <3>1, EncodedGroup
        <5>2. Len(<<>>) = 0 /\ 4 * ((0 + 2) \div 3) = 0
          OBVIOUS
        <5> QED BY <3>1, <5>1, <5>2, EncodedSayable
      <4>2. Encode(<<>>) = <<>>
        BY <4>1, EmptySeq
      <4>3. <<Content>> \in Seq(Int)
        BY DEF Content
      <4> QED BY <4>2, <4>3, ConcatEmptySeq
    <3>3. Answer(ReplyTo(call, <<>>))
      BY <1>2, <2>2, <3>1, <3>2 DEF ReplyTo
    <3>4. <<>> \in File
      BY <3>1 DEF File
    <3>5. faults' \in 0..MaxFaults
      BY <1>2, <2>2 DEF Typed, TypeOK
    <3> QED BY <2>2, <3>3, <3>4, <3>5
  <2> QED BY <2>1, <2>2 DEF ServeDownload
<1>4. TypeOK'
  BY <1>2, <1>3 DEF Answer, reading, Typed, TypeOK, File
<1>5. Writing' => remote' # NoFile
  BY <1>1, <1>2 DEF Writing, Exchange
<1>6. Typed'
  BY <1>2, <1>3, <1>4, <1>5, TypedAnswer
<1> QED BY <1>2, <1>3, <1>6 DEF reading

\* The network takes a request or a part of the answer away.
LEMMA Breaks ==
    ASSUME Typed, BreakRequest \/ Orphan \/ BreakAnswer
    PROVE  /\ Typed'
           /\ UNCHANGED <<files, call, pc, body, result>>
           /\ wire' # <<>> => wire # <<>>
<1>1. PICK f \in File : Exchange(f)
  BY DEF Typed
<1> DEFINE o == Object(ReplyTo(call, f))
<1>2. /\ wire \in Seq(Int) /\ body \in Seq(Int) /\ MaxFaults \in Nat
      /\ o \in Seq(Int) /\ Headers \o o \in Seq(Int)
  BY <1>1, RepliesSayable, ObjectHas, MessageHas, TransferAssumption DEF Exchange
<1>3. CASE BreakRequest
  <2>1. TypeOK'
    BY <1>2, <1>3 DEF BreakRequest, files, reading, Typed, TypeOK, File
  <2>2. Exchange(f)'
    BY <1>1, <1>3 DEF BreakRequest, files, reading, Typed, TypeOK, Exchange, Writing
  <2> QED BY <1>3, <2>1, <2>2 DEF BreakRequest, files, reading, Typed
<1>4. CASE Orphan
  <2>1. TypeOK'
    BY <1>2, <1>4 DEF Orphan, files, reading, Typed, TypeOK, File
  <2>2. Exchange(f)'
    BY <1>1, <1>4 DEF Orphan, files, reading, Typed, TypeOK, Exchange, Writing
  <2> QED BY <1>4, <2>1, <2>2 DEF Orphan, files, reading, Typed
<1>5. CASE BreakAnswer
  <2>1. TypeOK'
    <3>1. /\ UNCHANGED <<original, local, remote, spoilt, served, uploads, call, calls,
                         pc, request, body, failbit, result>>
          /\ faults < MaxFaults /\ faults' = faults + 1
          /\ peer = "closed" /\ peer' \in {"closed", "reset"}
      BY <1>5 DEF BreakAnswer, files, reading
    <3>2. faults \in 0..MaxFaults /\ TypeOK
      BY DEF Typed, TypeOK
    <3>3. faults' \in 0..MaxFaults
      BY <3>1, <3>2, TransferAssumption
    <3> QED BY <3>1, <3>2, <3>3 DEF TypeOK
  <2>2. PICK k \in 0..(Len(wire) - 1) : wire' = SubSeq(wire, 1, k)
    BY <1>5 DEF BreakAnswer
  <2>3. wire' \in Seq(Int) /\ k \in 0..Len(wire)
    BY <1>2, <2>2
  <2> DEFINE m == Headers \o o
  <2> HIDE DEF o, m
  <2>4. pc = "rest" => Begins(body \o wire', o)
    <3>1. pc = "rest" => Begins(body \o wire, o)
      BY <1>1 DEF Exchange, o
    <3> QED BY <1>2, <2>2, <2>3, <3>1, BeginsShorter
  <2>5. pc = "head" => Begins(wire', m)
    <3>1. <<>> \in Seq(Int) /\ <<>> \o wire = wire /\ <<>> \o wire' = wire'
      BY <1>2, <2>3, ConcatEmptySeq
    <3>2. pc = "head" => Begins(<<>> \o wire, m)
      BY <1>1, <3>1 DEF Exchange, o, m
    <3>3. ASSUME Begins(<<>> \o wire, m) PROVE Begins(<<>> \o SubSeq(wire, 1, k), m)
      BY <1>2, <2>3, <3>1, <3>3, BeginsShorter DEF m
    <3> QED BY <2>2, <3>1, <3>2, <3>3
  <2>6. Exchange(f)'
    BY <1>1, <1>5, <2>3, <2>4, <2>5
       DEF BreakAnswer, files, reading, Typed, TypeOK, Exchange, Writing, o, m
  <2> QED BY <1>5, <2>1, <2>6 DEF BreakAnswer, files, reading, Typed
<1> QED BY <1>3, <1>4, <1>5

LEMMA TypedStep == Typed /\ [Next]_vars => Typed'
<1> SUFFICES ASSUME Typed, [Next]_vars PROVE Typed'
  OBVIOUS
<1>1. PICK f \in File : Exchange(f)
  BY DEF Typed
<1>2. CASE UNCHANGED vars
  <2>1. TypeOK'
    BY <1>2 DEF vars, files, conn, reading, Typed, TypeOK, File
  <2>2. Exchange(f)'
    BY <1>1, <1>2 DEF vars, files, conn, reading, Exchange, Writing
  <2> QED BY <2>1, <2>2 DEF Typed
<1>3. ASSUME NEW c \in {"upload", "download"}, Call(c) PROVE Typed'
  BY <1>3, TypedCall
<1>4. CASE ReadNoHead \/ ReadRest
  BY <1>1, <1>4, TextsBegin, Returns DEF Typed
<1>5. CASE Connect \/ Refused
  BY <1>5, TypedConnect
<1>6. ASSUME NEW k \in Len(Headers)..Len(wire), ReadHead(k) PROVE Typed'
  BY <1>6, TypedReadHead
<1>7. CASE Server
  BY <1>7, Receives, Opens, Writes, Sends DEF Server
<1>8. CASE BreakRequest \/ Orphan \/ BreakAnswer
  BY <1>8, Breaks
<1> QED BY <1>2, <1>3, <1>4, <1>5, <1>6, <1>7, <1>8 DEF Next, Controller, Finished

\* Whatever is cut or broken, the files hold bytes, and a connection is there exactly
\* while a call waits for its answer.
THEOREM TypeCorrect == Spec => []TypeOK
<1>1. Init => Typed
  BY TypedInit
<1>2. Typed /\ [Next]_vars => Typed'
  BY TypedStep
<1>3. Typed => TypeOK
  BY DEF Typed
<1> QED BY <1>1, <1>2, <1>3, PTL DEF Spec

-----------------------------------------------------------------------------
(* Files are whole *)

Known == {original.local, original.remote}

\* Unless a stream has failed or requests have overlapped: what is stored or on its
\* way is one of the first two files, one handler at most has the file open and has
\* emptied it, and an answer is about what the server last stored or sent.
Whole ==
    /\ local \in Known
    /\ remote \in Known \/ (Writing /\ remote = <<>>)
    /\ \A u \in uploads : /\ u.text \in Known /\ u.text \in Seq(Byte)
                          /\ u.at # "failed"
                          /\ u.at = "open" => remote = <<>>
    /\ \A u \in uploads, v \in uploads : u.at = "open" /\ v.at = "open" => u = v
    /\ wire # <<>> \/ body # <<>> => /\ call = "upload" => served = local
                                     /\ call = "download" => served \in Known
    /\ pc = "idle" /\ result = "true" => local = served

WholeInv == Typed /\ (~spoilt => Whole)

\* An upload goes on: another text is being written, or none.
LEMMA WholeOpens ==
    ASSUME Typed, Whole, NEW u \in uploads, OpenToWrite(u), ~spoilt'
    PROVE  Whole'
<1>1. /\ UNCHANGED <<original, local, served, call, pc, wire, body, result>>
      /\ ~Writing /\ Moves(u, "open") /\ remote' = <<>>
  BY Opens
<1> DEFINE moved == [u EXCEPT !.at = "open"]
<1>2. u \in [of : 1..MaxCalls, at : {"come", "open", "failed"}, text : Seq(Byte)]
  BY DEF Typed, TypeOK
<1>3. moved.text = u.text /\ moved.at = "open"
  BY <1>2
<1> HIDE DEF moved
<1>4. uploads' = (uploads \ {u}) \union {moved}
  BY <1>1 DEF Moves, moved
<1>5. \A v \in uploads' : v \in uploads \/ v = moved
  BY <1>4
<1>6. \A v \in uploads' : v.at = "open" => v = moved
  BY <1>1, <1>5 DEF Writing
<1>7. Writing'
  BY <1>3, <1>4 DEF Writing
<1>8. Known' = Known
  BY <1>1 DEF Known
<1>9. \A v \in uploads' : /\ v.text \in Known /\ v.text \in Seq(Byte)
                          /\ v.at # "failed"
  BY <1>3, <1>5 DEF Whole
<1>10. \A v \in uploads', w \in uploads' : v.at = "open" /\ w.at = "open" => v = w
  BY <1>6
<1> QED BY <1>1, <1>7, <1>8, <1>9, <1>10 DEF Whole

LEMMA WholeWrites ==
    ASSUME Typed, Whole, NEW u \in uploads, Write(u), ~spoilt'
    PROVE  Whole'
<1>1. /\ UNCHANGED <<original, local, call, pc, body, result>>
      /\ uploads' = uploads \ {u}
      /\ u.at = "open" => remote' = Overlay(u.text, remote)
      /\ u.at # "open" => u.at = "failed"
      /\ \/ call = "upload" /\ u.text = local /\ served' = remote' /\ pc = "head"
         \/ UNCHANGED <<served, wire>>
  BY Writes
<1>2. /\ u.at = "open" /\ remote = <<>> /\ u.text \in Known /\ u.text \in Seq(Byte)
      /\ \A v \in uploads : v.at = "open" => v = u
  BY <1>1 DEF Whole
<1>3. remote' = u.text
  BY <1>1, <1>2, Overlaid
<1>4. Known' = Known
  BY <1>1 DEF Known
<1>5. \A v \in uploads' : v \in uploads /\ v.at # "open"
  BY <1>1, <1>2
<1> QED BY <1>1, <1>2, <1>3, <1>4, <1>5 DEF Whole

LEMMA WholeStep == WholeInv /\ [Next]_vars => WholeInv'
<1> SUFFICES ASSUME WholeInv, [Next]_vars, ~spoilt' PROVE Whole'
  BY TypedStep DEF WholeInv
<1>1. Typed
  BY DEF WholeInv
<1>2. ASSUME ~spoilt PROVE Whole
  BY <1>2 DEF WholeInv
<1>3. PICK f \in File : Exchange(f)
  BY <1>1 DEF Typed
<1>4. CASE UNCHANGED vars
  BY <1>2, <1>4 DEF vars, files, conn, reading, Whole, Known, Writing
<1>5. ASSUME NEW c \in {"upload", "download"}, Call(c) PROVE Whole'
  <2>1. /\ UNCHANGED <<original, local, remote, spoilt, served, uploads, wire, body>>
        /\ wire = <<>> /\ body = <<>> /\ result' # "true"
    BY <1>3, <1>5 DEF Call, files, reading, Exchange
  <2> QED BY <1>2, <2>1 DEF Whole, Known, Writing
<1>6. CASE Connect \/ Refused
  <2>1. /\ UNCHANGED <<original, local, remote, spoilt, served, uploads, call, wire, body>>
        /\ pc' = "idle" => result' = "false"
    BY <1>6 DEF Connect, Refused, files, reading
  <2> QED BY <1>2, <2>1 DEF Whole, Known, Writing
<1>7. ASSUME NEW k \in Len(Headers)..Len(wire), ReadHead(k) PROVE Whole'
  <2>1. /\ UNCHANGED <<original, local, remote, spoilt, served, uploads, call>>
        /\ pc' = "rest" /\ wire # <<>>
    <3>1. Len(Headers) = 2 /\ wire \in Seq(Int)
      BY <1>3 DEF Headers, Exchange
    <3> QED BY <1>7, <3>1 DEF ReadHead, files
  <2> QED BY <1>2, <2>1 DEF Whole, Known, Writing
<1>8. CASE ReadNoHead \/ ReadRest
  <2>1. PICK text : /\ text = <<>> \/ Begins(text, Object(ReplyTo(call, f)))
                    /\ text # <<>> => wire # <<>> \/ body # <<>>
                    /\ Return(text)
    BY <1>3, <1>8, TextsBegin
  <2>2. pc \in {"head", "rest"}
    BY <1>3, <1>8, TextsBegin
  <2>3. /\ ~spoilt
        /\ UNCHANGED <<original, remote, served, uploads, call>>
        /\ pc' = "idle"
        /\ \/ local' = local /\ (result' = "true" => call = "upload" /\ text # <<>>)
           \/ call = "download" /\ text # <<>> /\ local' = served
    BY <1>1, <1>3, <2>1, <2>2, Returns DEF Typed
  <2>4. wire' = <<>> /\ body' = <<>>
    BY <2>1 DEF Return
  <2>5. Whole
    BY <1>2, <2>3
  <2> QED BY <2>1, <2>3, <2>4, <2>5 DEF Whole, Known, Writing
<1>9. CASE Receive
  <2>1. /\ UNCHANGED <<original, local, remote, spoilt, served, call, pc, wire, peer,
                       body, result>>
        /\ pc = "head"
        /\ uploads' = uploads \union {[of |-> calls, at |-> "come", text |-> local]}
        /\ local \in Seq(Byte)
    BY <1>1, <1>9, Receives
  <2> DEFINE new == [of |-> calls, at |-> "come", text |-> local]
  <2>2. new.at = "come" /\ new.text = local
    OBVIOUS
  <2> HIDE DEF new
  <2>3. Whole /\ uploads' = uploads \union {new}
    BY <1>2, <2>1 DEF new
  <2>4. Writing' = Writing
    BY <2>2, <2>3 DEF Writing
  <2> QED BY <2>1, <2>2, <2>3, <2>4 DEF Whole, Known
<1>10. ASSUME NEW u \in uploads, OpenToWrite(u) PROVE Whole'
  BY <1>1, <1>2, <1>10, Opens, WholeOpens
<1>11. ASSUME NEW u \in uploads, Write(u) PROVE Whole'
  BY <1>1, <1>2, <1>11, Writes, WholeWrites
<1>12. CASE ServeDownload
  <2>1. /\ UNCHANGED <<original, local, remote, uploads, call, pc, body, result>>
        /\ pc = "head" /\ call = "download" /\ served' = remote
        /\ ~spoilt /\ ~Writing
    BY <1>1, <1>12, Sends
  <2> QED BY <1>2, <2>1 DEF Whole, Known, Writing
<1>13. CASE BreakRequest \/ Orphan \/ BreakAnswer
  <2>1. /\ UNCHANGED <<files, call, pc, body, result>>
        /\ wire' # <<>> => wire # <<>>
    BY <1>1, <1>13, Breaks
  <2> QED BY <1>2, <2>1 DEF files, Whole, Known, Writing
<1> QED BY <1>4, <1>5, <1>6, <1>7, <1>8, <1>9, <1>10, <1>11, <1>12, <1>13
        DEF Next, Controller, Server, Finished

LEMMA AlwaysWhole == Spec => []WholeInv
<1>1. Init => WholeInv
  <2> SUFFICES ASSUME Init PROVE Whole
    BY TypedInit DEF WholeInv
  <2> QED BY DEF Init, Whole, Known
<1>2. WholeInv /\ [Next]_vars => WholeInv'
  BY WholeStep
<1> QED BY <1>1, <1>2, PTL DEF Spec

\* Neither side ever keeps a part of a file, wherever a message was cut and whichever
\* connection broke: only a stream that failed and requests that overlapped leave one.
THEOREM FilesAreWhole == Spec => []NeverHalf
<1>1. WholeInv => NeverHalf
  BY DEF WholeInv, Whole, Known, NeverHalf
<1> QED BY <1>1, AlwaysWhole, PTL

\* A call that returns true has moved the file that the server held, unless a stream
\* failed or requests overlapped.
THEOREM TrueIsTrue == Spec => []ReportedTrue
<1>1. WholeInv => ReportedTrue
  BY DEF WholeInv, Whole, ReportedTrue
<1> QED BY <1>1, AlwaysWhole, PTL
=============================================================================
