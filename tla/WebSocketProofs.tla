-------------------------- MODULE WebSocketProofs ---------------------------
(***************************************************************************)
(* Proofs about WebSocketFormat: what wsFrameExtractBuffer makes of a      *)
(* frame that wsFrameBuild built, for every payload, mask, opcode and      *)
(* base: whole, cut short, and longer than it takes.                       *)
(***************************************************************************)
EXTENDS WebSocketFormat, SequenceTheorems, WellFoundedInduction, TLAPS

\* A byte of the payload or of the mask.
Octet == 0..255

\* A number of eight bits, the lowest first.
Number(c0, c1, c2, c3, c4, c5, c6, c7) ==
    c0 + 2 * c1 + 4 * c2 + 8 * c3 + 16 * c4 + 32 * c5 + 64 * c6 + 128 * c7

\* The bits of a number are the ones it is made of.
LEMMA BitsOfNumber ==
    ASSUME NEW c0 \in 0..1, NEW c1 \in 0..1, NEW c2 \in 0..1, NEW c3 \in 0..1,
           NEW c4 \in 0..1, NEW c5 \in 0..1, NEW c6 \in 0..1, NEW c7 \in 0..1,
           NEW x, x = Number(c0, c1, c2, c3, c4, c5, c6, c7)
    PROVE  /\ x \in Octet
           /\ Bit(x, 1) = c0 /\ Bit(x, 2) = c1 /\ Bit(x, 4) = c2 /\ Bit(x, 8) = c3
           /\ Bit(x, 16) = c4 /\ Bit(x, 32) = c5 /\ Bit(x, 64) = c6 /\ Bit(x, 128) = c7
<1>0. x \in Octet
    BY DEF Number, Octet
<1>1. Bit(x, 1) = c0
    BY DEF Number, Bit
<1>2. Bit(x, 2) = c1
    BY DEF Number, Bit
<1>3. Bit(x, 4) = c2
    BY DEF Number, Bit
<1>4. Bit(x, 8) = c3
    BY DEF Number, Bit
<1>5. Bit(x, 16) = c4
    BY DEF Number, Bit
<1>6. Bit(x, 32) = c5
    BY DEF Number, Bit
<1>7. Bit(x, 64) = c6
    BY DEF Number, Bit
<1>8. Bit(x, 128) = c7
    BY DEF Number, Bit
<1> QED
    BY <1>0, <1>1, <1>2, <1>3, <1>4, <1>5, <1>6, <1>7, <1>8

\* A bit is 0 or 1.
LEMMA BitType ==
    ASSUME NEW x \in Octet, NEW w \in {1, 2, 4, 8, 16, 32, 64, 128}
    PROVE  Bit(x, w) \in 0..1
BY DEF Octet, Bit

\* A byte is the number of its bits.
LEMMA NumberOfBits ==
    ASSUME NEW x \in Octet
    PROVE  x = Number(Bit(x, 1), Bit(x, 2), Bit(x, 4), Bit(x, 8),
                      Bit(x, 16), Bit(x, 32), Bit(x, 64), Bit(x, 128))
BY DEF Octet, Bit, Number

\* Masking twice with the same byte gives the byte back.
LEMMA XorInverse ==
    ASSUME NEW a \in Octet, NEW b \in Octet
    PROVE  /\ Xor(a, b) \in Octet
           /\ Xor(Xor(a, b), b) = a
<1> DEFINE s(w) == (Bit(a, w) + Bit(b, w)) % 2
           W == {1, 2, 4, 8, 16, 32, 64, 128}
<1>1. ASSUME NEW w \in W
      PROVE  /\ s(w) \in 0..1
             /\ (s(w) + Bit(b, w)) % 2 = Bit(a, w)
  <2>1. Bit(a, w) \in 0..1 /\ Bit(b, w) \in 0..1
    BY <1>1, BitType
  <2> QED
    BY <2>1
<1> DEFINE x == Xor(a, b)
<1>2. x = Number(s(1), s(2), s(4), s(8), s(16), s(32), s(64), s(128))
  <2> HIDE DEF s
  <2>1. \A w \in W : s(w) \in 0..1
    BY <1>1
  <2>2. x = 1 * s(1) + 2 * s(2) + 4 * s(4) + 8 * s(8) + 16 * s(16) + 32 * s(32) + 64 * s(64) + 128 * s(128)
    BY DEF Xor, s
  <2> QED
    BY <2>1, <2>2 DEF Number
<1>3. \A w \in W : s(w) \in 0..1
    BY <1>1
<1> HIDE DEF x, s
<1>4. /\ x \in Octet
      /\ \A w \in W : Bit(x, w) = s(w)
    BY <1>2, <1>3, BitsOfNumber
<1>5. \A w \in W : (Bit(x, w) + Bit(b, w)) % 2 = Bit(a, w)
    BY <1>1, <1>4
<1>6. Xor(x, b) = Number(Bit(a, 1), Bit(a, 2), Bit(a, 4), Bit(a, 8),
                         Bit(a, 16), Bit(a, 32), Bit(a, 64), Bit(a, 128))
  <2>1. \A w \in W : Bit(a, w) \in 0..1
    BY BitType
  <2>2. Xor(x, b) = 1 * Bit(a, 1) + 2 * Bit(a, 2) + 4 * Bit(a, 4) + 8 * Bit(a, 8) + 16 * Bit(a, 16)
                    + 32 * Bit(a, 32) + 64 * Bit(a, 64) + 128 * Bit(a, 128)
    BY <1>5 DEF Xor
  <2> QED
    BY <2>1, <2>2 DEF Number
<1> QED
    BY <1>4, <1>6, NumberOfBits DEF x

-----------------------------------------------------------------------------
(* Lengths. *)

\* The bytes that follow the second one, and the length the code refuses.
Extra(n) == Tail(EncodeLength(n))
Refused  == Base * Base * Base * (Base \div 2)

\* Quotient and remainder of the digits of a length.
LEMMA DivMod ==
    ASSUME NEW n \in Nat, NEW b \in Nat, b > 0
    PROVE  /\ n \div b \in Nat
           /\ n % b \in 0..(b - 1)
           /\ n = (n \div b) * b + (n % b)
OBVIOUS

\* A quotient is the only one with a remainder below the divisor.
LEMMA DivUnique ==
    ASSUME NEW p \in Nat, NEW m \in Nat, NEW r \in Nat, r < m
    PROVE  (p * m + r) \div m = p
<1> DEFINE n == p * m + r
           q == n \div m
           s == n % m
<1>0. p * m \in Nat
    OBVIOUS
<1>1. n \in Nat /\ m > 0
    BY <1>0
<1>2. q \in Nat /\ s \in 0..(m - 1) /\ n = q * m + s
    BY <1>1, DivMod
<1>3. p * m + r = q * m + s
    BY <1>2
<1> HIDE DEF q, s
<1>4. CASE p < q
  <2>1. PICK d \in Nat : q = p + 1 + d
    <3>1. q - p - 1 \in Nat /\ q = p + 1 + (q - p - 1)
      BY <1>2, <1>4
    <3> QED
      BY <3>1
  <2>2. q * m = p * m + m + d * m /\ d * m \in Nat
    BY <2>1
  <2> QED
    BY <1>0, <1>2, <1>3, <2>2
<1>5. CASE q < p
  <2>1. PICK d \in Nat : p = q + 1 + d
    <3>1. p - q - 1 \in Nat /\ p = q + 1 + (p - q - 1)
      BY <1>2, <1>5
    <3> QED
      BY <3>1
  <2>2. p * m = q * m + m + d * m /\ d * m \in Nat /\ q * m \in Nat
    BY <2>1, <1>2
  <2> QED
    BY <1>2, <1>3, <2>2
<1> QED
    BY <1>2, <1>4, <1>5 DEF q

\* Taking off digits one after the other or at once is the same.
LEMMA DivTwice ==
    ASSUME NEW n \in Nat, NEW b \in Nat, b > 0, NEW c \in Nat, c > 0
    PROVE  n \div (c * b) = (n \div c) \div b
<1> DEFINE q == n \div c
           r == n % c
           p == q \div b
           s == q % b
<1>1. q \in Nat /\ r \in 0..(c - 1) /\ n = q * c + r
    BY DivMod
<1>2. p \in Nat /\ s \in 0..(b - 1) /\ q = p * b + s
    BY <1>1, DivMod
<1> HIDE DEF q, r, p, s
<1>3. q * c = p * (c * b) + s * c
    BY <1>2
<1>4. /\ s * c \in Nat /\ c * b \in Nat /\ p * (c * b) \in Nat
      /\ s * c <= (b - 1) * c
    BY <1>2
<1>5. (b - 1) * c = c * b - c
    OBVIOUS
<1> DEFINE u == s * c
           m == c * b
<1>6. u + r \in Nat /\ u + r < m
    BY <1>1, <1>4, <1>5
<1>7. n = p * m + (u + r)
  <2>1. q * c = p * m + u /\ p * m \in Nat /\ u \in Nat
    BY <1>3, <1>4
  <2> DEFINE x == q * c
             y == p * m
  <2>2. x = y + u /\ y \in Nat /\ u \in Nat /\ n = x + r
    BY <1>1, <2>1
  <2> HIDE DEF x, y, u
  <2>3. n = y + (u + r)
    BY <1>1, <2>2
  <2> QED
    BY <2>3 DEF y
<1>8. m \in Nat
    BY <1>4
<1> HIDE DEF u, m
<1>9. n \div m = p
    BY <1>2, <1>6, <1>7, <1>8, DivUnique
<1> QED
    BY <1>9 DEF m, p, q

\* The four digits of a length are the ones its value is made of.
LEMMA Digits ==
    ASSUME NEW n \in Nat, NEW b \in Nat, b > 0
    PROVE  n = (n \div (b * b * b)) * (b * b * b) + ((n \div (b * b)) % b) * (b * b)
               + ((n \div b) % b) * b + (n % b)
<1> DEFINE q1 == n \div b
           q2 == n \div (b * b)
           q3 == n \div (b * b * b)
           d0 == n % b
           d1 == q1 % b
           d2 == q2 % b
<1>1. q1 \in Nat /\ d0 \in Nat /\ n = q1 * b + d0
    BY DivMod
<1>b. b * b \in Nat /\ b * b > 0
    OBVIOUS
<1>c. q2 = q1 \div b /\ q3 = q2 \div b
  <2>1. q2 = q1 \div b
    BY DivTwice
  <2>2. \A c \in Nat : c > 0 => n \div (c * b) = (n \div c) \div b
    BY DivTwice
  <2> QED
    BY <1>b, <2>1, <2>2
<1> HIDE DEF q1, q2, q3
<1>d. \A x \in Nat : /\ x \div b \in Nat
                      /\ x % b \in Nat
                      /\ x = (x \div b) * b + (x % b)
    BY DivMod
<1>2. q2 \in Nat /\ d1 \in Nat /\ q1 = q2 * b + d1
    BY <1>1, <1>c, <1>d, Zenon
<1>3. q3 \in Nat /\ d2 \in Nat /\ q2 = q3 * b + d2
    BY <1>2, <1>c, <1>d, Zenon
<1> HIDE DEF d0, d1, d2
<1>4. q2 * b = q3 * (b * b) + d2 * b
    BY <1>3
<1>5. q1 * b = (q2 * b) * b + d1 * b
    BY <1>2
<1>6. (q3 * (b * b) + d2 * b) * b = q3 * (b * b * b) + d2 * (b * b)
    BY <1>3
<1>7. n = q3 * (b * b * b) + d2 * (b * b) + d1 * b + d0
    BY <1>1, <1>2, <1>3, <1>4, <1>5, <1>6
<1> QED
    BY <1>7 DEF q1, q2, q3, d0, d1, d2

\* The three forms of a length.
LEMMA ShortForm ==
    ASSUME NEW n \in Nat, n <= Small
    PROVE  /\ EncodeLength(n) = <<n>>
           /\ Extra(n) = << >>
BY DEF EncodeLength, Extra

\* The length in two bytes.
LEMMA MiddleForm ==
    ASSUME NEW n \in Nat, n > Small, n < Base * Base
    PROVE  /\ EncodeLength(n) = <<Ext16, n \div Base, n % Base>>
           /\ Extra(n) = <<n \div Base, n % Base>>
<1>1. EncodeLength(n) = <<Ext16, n \div Base, n % Base>>
    BY FormatAssumption DEF EncodeLength
<1> QED
    BY <1>1 DEF Extra

\* The length in eight bytes, four of them zero.
LEMMA LongForm ==
    ASSUME NEW n \in Nat, n > Small, n >= Base * Base
    PROVE  LET d3 == (n \div (Base * Base * Base)) % Base
               d2 == (n \div (Base * Base)) % Base
               d1 == (n \div Base) % Base
               d0 == n % Base
           IN /\ EncodeLength(n) = <<Ext64, 0, 0, 0, 0, d3, d2, d1, d0>>
              /\ Extra(n) = <<0, 0, 0, 0, d3, d2, d1, d0>>
<1> DEFINE d3 == (n \div (Base * Base * Base)) % Base
           d2 == (n \div (Base * Base)) % Base
           d1 == (n \div Base) % Base
           d0 == n % Base
<1>0. ~(n <= Small) /\ ~(n < Base * Base)
  <2> DEFINE m == Base * Base
  <2>1. m \in Nat
    BY FormatAssumption
  <2> HIDE DEF m
  <2>2. ~(n <= Small) /\ ~(n < m)
    BY <2>1, FormatAssumption DEF m
  <2> QED
    BY <2>2 DEF m
<1>1. EncodeLength(n) = <<Ext64, 0, 0, 0, 0, d3, d2, d1, d0>>
    BY <1>0, Zenon DEF EncodeLength
<1> HIDE DEF d3, d2, d1, d0
<1>2. Extra(n) = <<0, 0, 0, 0, d3, d2, d1, d0>>
    BY <1>1 DEF Extra
<1> QED
    BY <1>1, <1>2, Zenon DEF d3, d2, d1, d0

\* The digits of a length.
LEMMA DigitTypes ==
    ASSUME NEW n \in Nat
    PROVE  /\ n \div Base \in Nat
           /\ n % Base \in 0..(Base - 1)
           /\ (n \div Base) % Base \in 0..(Base - 1)
           /\ (n \div (Base * Base)) % Base \in 0..(Base - 1)
           /\ (n \div (Base * Base * Base)) % Base \in 0..(Base - 1)
<1> DEFINE b2 == Base * Base
           b3 == b2 * Base
<1>1. b2 \in Nat /\ b2 > 0
    BY FormatAssumption
<1>2. b3 \in Nat /\ b3 > 0
  <2> HIDE DEF b2
  <2> QED
    BY <1>1, FormatAssumption
<1>3. \A x \in Nat : \A b \in Nat : b > 0 => x \div b \in Nat /\ x % b \in 0..(b - 1)
    BY DivMod
<1>4. Base \in Nat /\ Base > 0
    BY FormatAssumption
<1> HIDE DEF b2, b3
<1>5. /\ n \div Base \in Nat
      /\ n % Base \in 0..(Base - 1)
      /\ (n \div Base) % Base \in 0..(Base - 1)
    BY <1>3, <1>4, Zenon
<1>6. /\ (n \div b2) % Base \in 0..(Base - 1)
      /\ (n \div b3) % Base \in 0..(Base - 1)
    BY <1>1, <1>2, <1>3, <1>4, Zenon
<1> QED
    BY <1>5, <1>6, Zenon DEF b2, b3

\* What EncodeLength gives: a second byte without its mask bit, and 0, 2 or 8 bytes more.
LEMMA EncodeType ==
    ASSUME NEW n \in Nat
    PROVE  /\ EncodeLength(n)[1] \in 0..(Mask - 1)
           /\ Extra(n) \in Seq(Nat)
           /\ Len(Extra(n)) \in {0, 2, 8}
<1>1. CASE n <= Small
  <2>1. EncodeLength(n) = <<n>> /\ Extra(n) = << >>
    BY <1>1, ShortForm
  <2>2. EncodeLength(n)[1] \in 0..(Mask - 1)
    BY <1>1, <2>1, FormatAssumption DEF Mask
  <2>3. Extra(n) \in Seq(Nat) /\ Len(Extra(n)) = 0
    BY <2>1
  <2> QED
    BY <2>2, <2>3
<1>2. CASE n > Small /\ n < Base * Base
  <2> DEFINE d1 == n \div Base
             d0 == n % Base
  <2>1. EncodeLength(n) = <<Ext16, d1, d0>> /\ Extra(n) = <<d1, d0>>
    BY <1>2, MiddleForm
  <2>2. d1 \in Nat /\ d0 \in Nat
    BY DigitTypes, FormatAssumption
  <2> HIDE DEF d1, d0
  <2> QED
    BY <2>1, <2>2, FormatAssumption DEF Mask, Ext16
<1>3. CASE n > Small /\ n >= Base * Base
  <2> DEFINE d3 == (n \div (Base * Base * Base)) % Base
             d2 == (n \div (Base * Base)) % Base
             d1 == (n \div Base) % Base
             d0 == n % Base
  <2>1. /\ EncodeLength(n) = <<Ext64, 0, 0, 0, 0, d3, d2, d1, d0>>
        /\ Extra(n) = <<0, 0, 0, 0, d3, d2, d1, d0>>
    BY <1>3, LongForm
  <2>2. d3 \in Nat /\ d2 \in Nat /\ d1 \in Nat /\ d0 \in Nat
    BY DigitTypes, FormatAssumption
  <2> HIDE DEF d3, d2, d1, d0
  <2>3. EncodeLength(n)[1] \in 0..(Mask - 1)
    BY <2>1, FormatAssumption DEF Mask, Ext64
  <2>4. Extra(n) \in Seq(Nat) /\ Len(Extra(n)) = 8
    BY <2>1, <2>2
  <2> QED
    BY <2>3, <2>4
<1> QED
  <2> DEFINE m == Base * Base
  <2>1. m \in Nat
    BY FormatAssumption
  <2> HIDE DEF m
  <2>2. n <= Small \/ (n > Small /\ n < m) \/ (n > Small /\ n >= m)
    BY <2>1, FormatAssumption
  <2> QED
    BY <1>1, <1>2, <1>3, <2>2 DEF m

-----------------------------------------------------------------------------
(* Frames. *)

\* The elements of two, three and four sequences one after the other.
Joined(s, a, b) ==
    /\ s \in Seq(Nat) /\ Len(s) = Len(a) + Len(b)
    /\ \A i \in 1..Len(a) : s[i] = a[i]
    /\ \A i \in 1..Len(b) : s[Len(a) + i] = b[i]

Three(t, a, b, c) ==
    /\ Len(t) = Len(a) + Len(b) + Len(c)
    /\ \A i \in 1..Len(a) : t[i] = a[i]
    /\ \A i \in 1..Len(b) : t[Len(a) + i] = b[i]
    /\ \A i \in 1..Len(c) : t[Len(a) + Len(b) + i] = c[i]

Four(s, a, b, c, d) ==
    /\ s \in Seq(Nat)
    /\ Len(s) = Len(a) + Len(b) + Len(c) + Len(d)
    /\ \A i \in 1..Len(a) : s[i] = a[i]
    /\ \A i \in 1..Len(b) : s[Len(a) + i] = b[i]
    /\ \A i \in 1..Len(c) : s[Len(a) + Len(b) + i] = c[i]
    /\ \A i \in 1..Len(d) : s[Len(a) + Len(b) + Len(c) + i] = d[i]

\* A concatenation of two sequences ...
LEMMA TwoParts ==
    ASSUME NEW a \in Seq(Nat), NEW b \in Seq(Nat)
    PROVE  Joined(a \o b, a, b)
BY DEF Joined

\* ... of three ...
LEMMA JoinedTwice ==
    ASSUME NEW a \in Seq(Nat), NEW b \in Seq(Nat), NEW c \in Seq(Nat), NEW s, NEW t,
           Joined(s, a, b), Joined(t, s, c)
    PROVE  Three(t, a, b, c)
<1> DEFINE la == Len(a)
           lb == Len(b)
           lc == Len(c)
           ls == Len(s)
<1>1. la \in Nat /\ lb \in Nat /\ lc \in Nat
    OBVIOUS
<1>2. /\ ls = la + lb
      /\ \A i \in 1..la : s[i] = a[i]
      /\ \A i \in 1..lb : s[la + i] = b[i]
    BY DEF Joined
<1>3. /\ Len(t) = ls + lc
      /\ \A i \in 1..ls : t[i] = s[i]
      /\ \A i \in 1..lc : t[ls + i] = c[i]
    BY DEF Joined
<1> HIDE DEF la, lb, lc, ls
<1>4. ASSUME NEW i \in 1..la PROVE t[i] = a[i]
  <2>1. i \in 1..ls
    BY <1>1, <1>2
  <2> QED
    BY <1>2, <1>3, <2>1, Zenon
<1>5. ASSUME NEW i \in 1..lb PROVE t[la + i] = b[i]
  <2>1. la + i \in 1..ls
    BY <1>1, <1>2
  <2> QED
    BY <1>2, <1>3, <2>1, Zenon
<1>6. Len(t) = la + lb + lc
    BY <1>1, <1>2, <1>3
<1>7. \A i \in 1..lc : t[la + lb + i] = c[i]
    BY <1>2, <1>3, Zenon
<1> QED
    BY <1>4, <1>5, <1>6, <1>7, Zenon DEF Three, la, lb, lc

\* ... and of four: where their elements are.
LEMMA FourParts ==
    ASSUME NEW a \in Seq(Nat), NEW b \in Seq(Nat), NEW c \in Seq(Nat), NEW d \in Seq(Nat),
           NEW s, s = a \o b \o c \o d
    PROVE  Four(s, a, b, c, d)
<1> DEFINE ab == a \o b
           abc == ab \o c
<1>0. s = abc \o d
    OBVIOUS
<1>1. ab \in Seq(Nat) /\ Joined(ab, a, b)
    BY TwoParts DEF Joined
<1> HIDE DEF ab
<1>2. abc \in Seq(Nat) /\ Joined(abc, ab, c)
    BY <1>1, TwoParts DEF Joined
<1> HIDE DEF abc
<1>3. Joined(s, abc, d)
    BY <1>0, <1>2, TwoParts
<1>4. /\ Len(abc) = Len(a) + Len(b) + Len(c)
      /\ \A i \in 1..Len(a) : abc[i] = a[i]
      /\ \A i \in 1..Len(b) : abc[Len(a) + i] = b[i]
      /\ \A i \in 1..Len(c) : abc[Len(a) + Len(b) + i] = c[i]
  <2>1. Three(abc, a, b, c)
    BY <1>1, <1>2, JoinedTwice
  <2> QED
    BY <2>1, Zenon DEF Three
<1>5. /\ s \in Seq(Nat)
      /\ Len(s) = Len(abc) + Len(d)
      /\ \A i \in 1..Len(abc) : s[i] = abc[i]
      /\ \A i \in 1..Len(d) : s[Len(abc) + i] = d[i]
    BY <1>3 DEF Joined
<1> DEFINE la == Len(a)
           lb == Len(b)
           lc == Len(c)
           l3 == Len(abc)
<1>6. la \in Nat /\ lb \in Nat /\ lc \in Nat /\ l3 = la + lb + lc
    BY <1>4
<1> HIDE DEF la, lb, lc, l3
<1>7. ASSUME NEW i \in 1..la PROVE s[i] = a[i]
  <2>1. i \in 1..l3
    BY <1>6
  <2> QED
    BY <1>4, <1>5, <2>1, Zenon DEF l3, la
<1>8. ASSUME NEW i \in 1..lb PROVE s[la + i] = b[i]
  <2>1. la + i \in 1..l3
    BY <1>6
  <2> QED
    BY <1>4, <1>5, <2>1, Zenon DEF l3, la, lb
<1>9. ASSUME NEW i \in 1..lc PROVE s[la + lb + i] = c[i]
  <2>1. la + lb + i \in 1..l3
    BY <1>6
  <2> QED
    BY <1>4, <1>5, <2>1, Zenon DEF l3, la, lb, lc
<1> QED
    BY <1>4, <1>5, <1>7, <1>8, <1>9, Zenon DEF Four, la, lb, lc

\* What wsFrameBuild accepts: the mask is off or has four bytes.
FrameInput(payload, opcode, isFin, key) ==
    /\ payload \in Seq(Octet) /\ opcode \in 0..15 /\ isFin \in BOOLEAN
    /\ key \in Seq(Octet) /\ Len(key) \in {0, 4}

\* The length of the head of a frame, and the byte of the payload at i.
HeadLen(payload, key) == 2 + Len(Extra(Len(payload))) + Len(key)
MaskedByte(payload, key, i) ==
    IF key # << >> THEN Xor(payload[i], key[((i - 1) % 4) + 1]) ELSE payload[i]

\* The buffer f holds the bytes of a frame, as far as it goes.
HoldsFrame(f, payload, opcode, isFin, key) ==
    LET extra == Extra(Len(payload)) IN
    /\ Len(f) >= 1 => f[1].n = opcode + (IF isFin THEN Fin ELSE 0)
    /\ Len(f) >= 2 => f[2].n = EncodeLength(Len(payload))[1] + (IF key # << >> THEN Mask ELSE 0)
    /\ \A i \in 1..Len(extra) : Len(f) >= 2 + i => f[2 + i].n = extra[i]
    /\ \A i \in 1..Len(key) : Len(f) >= 2 + Len(extra) + i => f[2 + Len(extra) + i].n = key[i]
    /\ \A i \in 1..Len(payload) :
          Len(f) >= HeadLen(payload, key) + i =>
              f[HeadLen(payload, key) + i].n = MaskedByte(payload, key, i)

\* A sequence of bytes is one of numbers.
LEMMA OctetsAreNumbers ==
    ASSUME NEW s \in Seq(Octet)
    PROVE  s \in Seq(Nat)
<1>1. Len(s) \in Nat /\ s = [i \in 1..Len(s) |-> s[i]] /\ \A i \in 1..Len(s) : s[i] \in Octet
    OBVIOUS
<1>2. \A x \in Octet : x \in Nat
    BY DEF Octet
<1>3. s \in [1..Len(s) -> Nat]
    BY <1>1, <1>2, Zenon
<1> QED
    BY <1>1, <1>3

\* A masked byte is a byte.
LEMMA MaskedByteType ==
    ASSUME NEW payload, NEW opcode, NEW isFin, NEW key,
           FrameInput(payload, opcode, isFin, key),
           NEW i \in 1..Len(payload)
    PROVE  MaskedByte(payload, key, i) \in Octet
<1>1. payload[i] \in Octet
    BY DEF FrameInput
<1>2. CASE key = << >>
    BY <1>1, <1>2 DEF MaskedByte
<1>3. CASE key # << >>
  <2>1. Len(key) = 4 /\ key \in Seq(Octet)
    BY <1>3 DEF FrameInput
  <2>2. i \in Nat /\ ((i - 1) % 4) + 1 \in 1..4
    BY DEF FrameInput
  <2>3. key[((i - 1) % 4) + 1] \in Octet
    <3>1. \A k \in 1..Len(key) : key[k] \in Octet
      BY <2>1, ElementOfSeq
    <3> QED
      BY <2>1, <2>2, <3>1, Zenon
  <2>4. Xor(payload[i], key[((i - 1) % 4) + 1]) \in Octet
    BY <1>1, <2>3, XorInverse
  <2> QED
    BY <1>3, <2>4 DEF MaskedByte
<1> QED
    BY <1>2, <1>3

\* A frame holds its bytes and is as long as its head and its payload.
LEMMA FrameHolds ==
    ASSUME NEW payload, NEW opcode, NEW isFin, NEW key,
           FrameInput(payload, opcode, isFin, key)
    PROVE  LET frame == wsFrameBuild(payload, opcode, isFin, key) IN
           /\ frame \in Seq([c : {"byte"}, n : Nat])
           /\ Len(frame) = HeadLen(payload, key) + Len(payload)
           /\ HoldsFrame(frame, payload, opcode, isFin, key)
<1> DEFINE n == Len(payload)
           first == opcode + (IF isFin THEN Fin ELSE 0)
           second == EncodeLength(n)[1] + (IF key # << >> THEN Mask ELSE 0)
           extra == Extra(n)
           data == [i \in 1..n |-> MaskedByte(payload, key, i)]
           bytes == <<first, second>> \o extra \o key \o data
           frame == wsFrameBuild(payload, opcode, isFin, key)
<1>0. n \in Nat /\ payload \in Seq(Octet) /\ key \in Seq(Octet) /\ Len(key) \in {0, 4}
    BY DEF FrameInput
<1>1. first \in Nat /\ second \in Nat
  <2>1. EncodeLength(n)[1] \in Nat /\ Mask \in Nat
    BY <1>0, EncodeType, FormatAssumption DEF Mask
  <2>2. first \in Nat
    BY DEF FrameInput, Fin
  <2> QED
    BY <2>1, <2>2
<1>2. frame = [i \in 1..Len(bytes) |-> Byte(bytes[i])]
    BY DEF wsFrameBuild, MaskedByte, Extra
<1>3. data \in Seq(Nat) /\ Len(data) = n /\ \A i \in 1..n : data[i] = MaskedByte(payload, key, i)
  <2>1. \A i \in 1..n : MaskedByte(payload, key, i) \in Nat
    <3>1. \A i \in 1..n : MaskedByte(payload, key, i) \in Octet
      BY MaskedByteType, Zenon
    <3>2. \A x \in Octet : x \in Nat
      BY DEF Octet
    <3> QED
      BY <3>1, <3>2, Zenon
  <2> QED
    BY <1>0, <2>1
<1>4. extra \in Seq(Nat) /\ Len(extra) \in Nat
    BY <1>0, EncodeType
<1>5. key \in Seq(Nat)
    BY <1>0, OctetsAreNumbers
<1> DEFINE two == <<first, second>>
<1>6. two \in Seq(Nat) /\ Len(two) = 2 /\ two[1] = first /\ two[2] = second
  <2> HIDE DEF first, second
  <2> QED
    BY <1>1
<1> HIDE DEF first, second, extra, data, two, n
<1>7. bytes = two \o extra \o key \o data
    BY DEF two
<1> HIDE DEF bytes
<1>8. /\ bytes \in Seq(Nat)
      /\ Len(bytes) = 2 + Len(extra) + Len(key) + n
      /\ bytes[1] = first
      /\ bytes[2] = second
      /\ \A i \in 1..Len(extra) : bytes[2 + i] = extra[i]
      /\ \A i \in 1..Len(key) : bytes[2 + Len(extra) + i] = key[i]
      /\ \A i \in 1..n : bytes[2 + Len(extra) + Len(key) + i] = MaskedByte(payload, key, i)
  <2>1. /\ bytes \in Seq(Nat)
        /\ Len(bytes) = Len(two) + Len(extra) + Len(key) + Len(data)
        /\ \A i \in 1..Len(two) : bytes[i] = two[i]
        /\ \A i \in 1..Len(extra) : bytes[Len(two) + i] = extra[i]
        /\ \A i \in 1..Len(key) : bytes[Len(two) + Len(extra) + i] = key[i]
        /\ \A i \in 1..Len(data) : bytes[Len(two) + Len(extra) + Len(key) + i] = data[i]
    <3>1. Four(bytes, two, extra, key, data)
      BY <1>3, <1>4, <1>5, <1>6, <1>7, FourParts
    <3> QED
      BY <3>1, Zenon DEF Four
  <2>2. 1 \in 1..2 /\ 2 \in 1..2
    OBVIOUS
  <2>3. bytes[1] = first /\ bytes[2] = second
    BY <1>6, <2>1, <2>2, Zenon
  <2> QED
    BY <1>3, <1>6, <2>1, <2>3, Zenon
<1>9. /\ frame \in Seq([c : {"byte"}, n : Nat])
      /\ Len(frame) = Len(bytes)
      /\ \A i \in 1..Len(bytes) : frame[i].n = bytes[i]
  <2>1. \A i \in 1..Len(bytes) : Byte(bytes[i]) \in [c : {"byte"}, n : Nat] /\ Byte(bytes[i]).n = bytes[i]
    BY <1>8 DEF Byte
  <2>2. Len(bytes) \in Nat
    BY <1>8
  <2> QED
    BY <1>2, <2>1, <2>2
<1> HIDE DEF frame
<1>10. HeadLen(payload, key) = 2 + Len(extra) + Len(key)
    BY DEF HeadLen, extra, n
<1>11. Len(frame) = HeadLen(payload, key) + n
    BY <1>8, <1>9, <1>10
<1>12. Len(key) \in Nat
    BY <1>0
<1>13. HoldsFrame(frame, payload, opcode, isFin, key)
  <2> DEFINE le == Len(extra)
             lk == Len(key)
             lb == Len(bytes)
  <2>0. le \in Nat /\ lk \in Nat /\ n \in Nat /\ lb = 2 + le + lk + n
    BY <1>0, <1>4, <1>8, <1>12
  <2> HIDE DEF le, lk, lb
  <2>1. frame[1].n = first /\ frame[2].n = second
    <3>1. 1 \in 1..lb /\ 2 \in 1..lb
      BY <2>0
    <3> QED
      BY <1>8, <1>9, <3>1, Zenon DEF lb
  <2>2. \A i \in 1..Len(extra) : frame[2 + i].n = extra[i]
    <3>1. \A i \in 1..le : 2 + i \in 1..lb
      BY <2>0
    <3> QED
      BY <1>8, <1>9, <3>1, Zenon DEF lb, le
  <2>3. \A i \in 1..Len(key) : frame[2 + Len(extra) + i].n = key[i]
    <3>1. \A i \in 1..lk : 2 + le + i \in 1..lb
      BY <2>0
    <3> QED
      BY <1>8, <1>9, <3>1, Zenon DEF lb, le, lk
  <2>4. \A i \in 1..n : frame[HeadLen(payload, key) + i].n = MaskedByte(payload, key, i)
    <3>1. \A i \in 1..n : 2 + le + lk + i \in 1..lb
      BY <2>0
    <3> QED
      BY <1>8, <1>9, <1>10, <3>1, Zenon DEF lb, le, lk
  <2> QED
    BY <2>1, <2>2, <2>3, <2>4, Zenon DEF HoldsFrame, first, second, extra, n
<1> QED
    BY <1>9, <1>11, <1>13, Zenon DEF frame, n

-----------------------------------------------------------------------------
(* Reading a length back. *)

\* A length below a multiple of a divisor has a quotient below the factor.
LEMMA DivBound ==
    ASSUME NEW n \in Nat, NEW b \in Nat, b > 0, NEW h \in Nat
    PROVE  /\ n < b * h => n \div b < h
           /\ n >= b * h => n \div b >= h
<1> DEFINE q == n \div b
           r == n % b
<1>1. q \in Nat /\ r \in 0..(b - 1) /\ n = q * b + r
    BY DivMod
<1> HIDE DEF q, r
<1>2. ASSUME q >= h PROVE n >= b * h
  <2>1. q - h \in Nat /\ q = h + (q - h)
    BY <1>1, <1>2
  <2> DEFINE d == q - h
  <2>2. q * b = h * b + d * b /\ d * b \in Nat
    BY <1>1, <2>1
  <2>3. h * b \in Nat /\ h * b = b * h
    OBVIOUS
  <2> QED
    BY <1>1, <2>2, <2>3
<1>3. ASSUME q < h PROVE n < b * h
  <2>1. h - q - 1 \in Nat
    BY <1>1, <1>3
  <2> DEFINE d == h - q - 1
  <2>2. h * b = q * b + b + d * b /\ d * b \in Nat /\ q * b \in Nat
    BY <1>1, <2>1
  <2>3. h * b \in Nat /\ h * b = b * h
    OBVIOUS
  <2> QED
    BY <1>1, <2>2, <2>3
<1>4. b * h \in Nat
    OBVIOUS
<1>5. (n < b * h => q < h) /\ (n >= b * h => q >= h)
    BY <1>1, <1>2, <1>3, <1>4
<1> QED
    BY <1>5 DEF q

\* The mask bit does not change what is below it.
LEMMA ModSmall ==
    ASSUME NEW n \in Nat, NEW m \in Nat, n < m
    PROVE  n % m = n /\ (n + m) % m = n
OBVIOUS

\* The second byte gives back the mask bit and the length or its form.
LEMMA SecondByte ==
    ASSUME NEW payload, NEW opcode, NEW isFin, NEW key, NEW f,
           FrameInput(payload, opcode, isFin, key),
           Len(f) \in Nat, Len(f) >= 2,
           HoldsFrame(f, payload, opcode, isFin, key)
    PROVE  /\ f[2].n % Mask = EncodeLength(Len(payload))[1]
           /\ f[2].n >= Mask <=> key # << >>
<1> DEFINE l == EncodeLength(Len(payload))[1]
           v == f[2].n
<1>1. Len(payload) \in Nat
    BY DEF FrameInput
<1>2. l \in 0..(Mask - 1) /\ Mask \in Nat
    BY <1>1, EncodeType, FormatAssumption DEF Mask
<1>3. v = l + (IF key # << >> THEN Mask ELSE 0)
    BY DEF HoldsFrame
<1> HIDE DEF l, v
<1>4. CASE key # << >>
  <2>1. v = l + Mask
    BY <1>3, <1>4
  <2>2. v % Mask = l
    BY <1>2, <2>1, ModSmall
  <2>3. v >= Mask
    BY <1>2, <2>1
  <2> QED
    BY <1>4, <2>2, <2>3 DEF l, v
<1>5. CASE key = << >>
  <2>1. v = l
    BY <1>2, <1>3, <1>5
  <2>2. v % Mask = l
    BY <1>2, <2>1, ModSmall
  <2>3. ~(v >= Mask)
    BY <1>2, <2>1
  <2> QED
    BY <1>5, <2>2, <2>3 DEF l, v
<1> QED
    BY <1>4, <1>5

\* What DecodeLength makes of the buffer f: the length n that ends at pos.
Reads(f, n, pos) ==
    /\ Len(f) < pos => DecodeLength(f).ok = "more"
    /\ Len(f) >= pos /\ n < Refused => DecodeLength(f) = [ok |-> "ok", len |-> n, pos |-> pos]
    /\ Len(f) >= pos /\ n > Small /\ n >= Refused /\ n < Base * Base * Base * Base
          => DecodeLength(f).ok = "bad"

\* A length in the second byte is read back ...
LEMMA ReadShort ==
    ASSUME NEW payload, NEW opcode, NEW isFin, NEW key, NEW f,
           FrameInput(payload, opcode, isFin, key),
           Len(f) \in Nat, Len(f) >= 2,
           HoldsFrame(f, payload, opcode, isFin, key),
           Len(payload) <= Small
    PROVE  Reads(f, Len(payload), 2 + Len(Extra(Len(payload))))
<1> DEFINE n == Len(payload)
<1>1. n \in Nat
    BY DEF FrameInput
<1>2. EncodeLength(n)[1] = n /\ Len(Extra(n)) = 0
    BY <1>1, ShortForm
<1>3. f[2].n % Mask = n
    BY <1>2, SecondByte
<1>4. n # Ext16 /\ n # Ext64
    BY <1>1, FormatAssumption DEF Ext16, Ext64
<1>5. DecodeLength(f) = [ok |-> "ok", len |-> n, pos |-> 2]
    BY <1>3, <1>4, Zenon DEF DecodeLength
<1> HIDE DEF n
<1>6. ~(n > Small) /\ ~(Len(f) < 2)
    BY <1>1, FormatAssumption DEF n
<1>7. Reads(f, n, 2)
    BY <1>5, <1>6, Zenon DEF Reads
<1>8. 2 + Len(Extra(n)) = 2
    BY <1>2
<1> QED
    BY <1>7, <1>8, Zenon DEF n

\* ... one in two bytes ...
LEMMA ReadMiddle ==
    ASSUME NEW payload, NEW opcode, NEW isFin, NEW key, NEW f,
           FrameInput(payload, opcode, isFin, key),
           Len(f) \in Nat, Len(f) >= 2,
           HoldsFrame(f, payload, opcode, isFin, key),
           Len(payload) > Small, Len(payload) < Base * Base
    PROVE  Reads(f, Len(payload), 2 + Len(Extra(Len(payload))))
<1> DEFINE n == Len(payload)
           d1 == n \div Base
           d0 == n % Base
<1>1. n \in Nat
    BY DEF FrameInput
<1>2. EncodeLength(n) = <<Ext16, d1, d0>> /\ Extra(n) = <<d1, d0>>
    BY <1>1, MiddleForm
<1>3. n = d1 * Base + d0
    BY <1>1, DivMod, FormatAssumption
<1> HIDE DEF d1, d0
<1>4. f[2].n % Mask = Ext16
  <2>1. EncodeLength(n)[1] = Ext16
    BY <1>2
  <2> QED
    BY <2>1, SecondByte
<1>5. Len(Extra(n)) = 2 /\ Extra(n)[1] = d1 /\ Extra(n)[2] = d0
    BY <1>2
<1>6. \A i \in 1..2 : Len(f) >= 2 + i => f[2 + i].n = Extra(n)[i]
    BY <1>5, Zenon DEF HoldsFrame
<1>7. ASSUME Len(f) >= 4 PROVE DecodeLength(f) = [ok |-> "ok", len |-> n, pos |-> 4]
  <2>1. f[3].n = d1 /\ f[4].n = d0
    BY <1>5, <1>6, <1>7
  <2>2. ~(Len(f) < 4)
    BY <1>7
  <2>3. DecodeLength(f) = [ok |-> "ok", len |-> f[3].n * Base + f[4].n, pos |-> 4]
    BY <1>4, <2>2, Zenon DEF DecodeLength
  <2> QED
    BY <1>3, <2>1, <2>3, Zenon
<1>8. ASSUME Len(f) < 4 PROVE DecodeLength(f).ok = "more"
    BY <1>4, <1>8 DEF DecodeLength
<1>9. ~(n >= Refused)
  <2> DEFINE h == Base \div 2
  <2>1. h \in Nat /\ h >= 1
    BY FormatAssumption
  <2>2. Base * h >= 1 /\ Base * h \in Nat
    BY <2>1, FormatAssumption
  <2> DEFINE m == Base * Base
             k == Base * h
  <2>3. m \in Nat /\ n < m
    BY FormatAssumption
  <2>4. Refused = m * k
    <3> HIDE DEF h
    <3> QED
      BY <2>1, FormatAssumption DEF Refused, h
  <2>5. k \in Nat /\ k >= 1
    BY <2>2
  <2> HIDE DEF m, k, h
  <2>6. m * k >= m /\ m * k \in Nat
    BY <2>3, <2>5
  <2> QED
    BY <1>1, <2>3, <2>4, <2>6
<1>10. 2 + Len(Extra(n)) = 4
    BY <1>5
<1>11. Reads(f, n, 4)
    BY <1>7, <1>8, <1>9, Zenon DEF Reads
<1> QED
    BY <1>10, <1>11, Zenon

\* ... and one in eight, if it is not refused.
LEMMA ReadLong ==
    ASSUME NEW payload, NEW opcode, NEW isFin, NEW key, NEW f,
           FrameInput(payload, opcode, isFin, key),
           Len(f) \in Nat, Len(f) >= 2,
           HoldsFrame(f, payload, opcode, isFin, key),
           Len(payload) > Small, Len(payload) >= Base * Base
    PROVE  Reads(f, Len(payload), 2 + Len(Extra(Len(payload))))
<1> DEFINE n == Len(payload)
           b3 == Base * Base * Base
           half == Base \div 2
           q3 == n \div b3
           d3 == q3 % Base
           d2 == (n \div (Base * Base)) % Base
           d1 == (n \div Base) % Base
           d0 == n % Base
<1>1. n \in Nat
    BY DEF FrameInput
<1>2. /\ EncodeLength(n) = <<Ext64, 0, 0, 0, 0, d3, d2, d1, d0>>
      /\ Extra(n) = <<0, 0, 0, 0, d3, d2, d1, d0>>
    BY <1>1, LongForm
<1>3. n = q3 * b3 + d2 * (Base * Base) + d1 * Base + d0
  <2>1. Base \in Nat /\ Base > 0
    BY FormatAssumption
  <2> QED
    BY <1>1, <2>1, Digits, Zenon
<1>4. b3 \in Nat /\ b3 > 0
  <2> DEFINE b2 == Base * Base
  <2>1. b2 \in Nat /\ b2 > 0
    BY FormatAssumption
  <2> HIDE DEF b2
  <2>2. b2 * Base \in Nat /\ b2 * Base > 0
    BY <2>1, FormatAssumption
  <2> QED
    BY <2>2 DEF b2
<1>5. half \in Nat /\ half < Base
    BY FormatAssumption
<1>6. q3 \in Nat /\ d3 \in Nat
  <2>1. q3 \in Nat
    BY <1>1, <1>4, DivMod
  <2> HIDE DEF q3
  <2> QED
    BY <2>1, DivMod, FormatAssumption
<1>7. /\ n < b3 * half => q3 < half
      /\ n >= b3 * half => q3 >= half
      /\ n < b3 * Base => q3 < Base
  <2> HIDE DEF b3, half
  <2>1. \A h \in Nat : (n < b3 * h => q3 < h) /\ (n >= b3 * h => q3 >= h)
    BY <1>1, <1>4, DivBound
  <2>2. Base \in Nat
    BY FormatAssumption
  <2> QED
    BY <1>5, <2>1, <2>2, Zenon
<1>8. Refused = b3 * half
    BY Zenon DEF Refused
<1>9. q3 < Base => d3 = q3
  <2> HIDE DEF q3
  <2> QED
    BY <1>6, ModSmall, FormatAssumption
<1>10. EncodeLength(n)[1] = Ext64
  <2> HIDE DEF d3, d2, d1, d0
  <2> QED
    BY <1>2
<1>11. /\ Len(Extra(n)) = 8
       /\ \A i \in 1..4 : Extra(n)[i] = 0
       /\ Extra(n)[5] = d3 /\ Extra(n)[6] = d2 /\ Extra(n)[7] = d1 /\ Extra(n)[8] = d0
  <2> HIDE DEF d3, d2, d1, d0
  <2> QED
    BY <1>2
<1>12. f[2].n % Mask = Ext64 /\ Ext64 # Ext16
  <2>1. Ext64 # Ext16
    BY FormatAssumption DEF Ext64, Ext16
  <2> QED
    BY <1>10, <2>1, SecondByte
<1>13. \A i \in 1..8 : Len(f) >= 2 + i => f[2 + i].n = Extra(n)[i]
    BY <1>11, Zenon DEF HoldsFrame
<1> HIDE DEF q3, d3, d2, d1, d0, b3, half, n
<1>14. ASSUME Len(f) < 10 PROVE DecodeLength(f).ok = "more"
  <2>1. DecodeLength(f) = [ok |-> "more", len |-> 0, pos |-> 2]
    BY <1>12, <1>14, Zenon DEF DecodeLength
  <2> QED
    BY <2>1
<1>15. ASSUME Len(f) >= 10
       PROVE  /\ \A i \in 3..6 : f[i].n = 0
              /\ f[7].n = d3 /\ f[8].n = d2 /\ f[9].n = d1 /\ f[10].n = d0
  <2>1. \A i \in 1..8 : f[2 + i].n = Extra(n)[i]
    <3>1. \A i \in 1..8 : Len(f) >= 2 + i
      BY <1>15
    <3> QED
      BY <1>13, <3>1, Zenon
  <2>2. f[7].n = d3 /\ f[8].n = d2 /\ f[9].n = d1 /\ f[10].n = d0
    BY <1>11, <2>1
  <2>3. f[3].n = 0 /\ f[4].n = 0 /\ f[5].n = 0 /\ f[6].n = 0
    BY <1>11, <2>1
  <2>4. \A i \in 3..6 : i = 3 \/ i = 4 \/ i = 5 \/ i = 6
    OBVIOUS
  <2>5. \A i \in 3..6 : f[i].n = 0
    BY <2>3, <2>4, Zenon
  <2> QED
    BY <2>2, <2>5
<1>16. ASSUME Len(f) >= 10, n < Refused
       PROVE  DecodeLength(f) = [ok |-> "ok", len |-> n, pos |-> 10]
  <2>1. q3 < half /\ d3 = q3
    BY <1>5, <1>6, <1>7, <1>8, <1>9, <1>16, FormatAssumption
  <2>2. ~(f[7].n >= Base \div 2)
    BY <1>5, <1>6, <1>15, <1>16, <2>1 DEF half
  <2>3. ~(\E i \in 3..6 : f[i].n # 0)
    BY <1>15, <1>16, Zenon
  <2>4. ~(Len(f) < 10)
    BY <1>16
  <2>5. DecodeLength(f)
          = [ok |-> "ok", pos |-> 10,
             len |-> f[7].n * (Base * Base * Base) + f[8].n * (Base * Base) + f[9].n * Base + f[10].n]
    BY <1>12, <2>2, <2>3, <2>4, Zenon DEF DecodeLength
  <2>6. f[7].n * (Base * Base * Base) + f[8].n * (Base * Base) + f[9].n * Base + f[10].n = n
    BY <1>3, <1>15, <1>16, <2>1, Zenon DEF b3
  <2>7. DecodeLength(f) = [ok |-> "ok", pos |-> 10, len |-> n]
    BY <2>5, <2>6, Zenon
  <2> QED
    BY <2>7
<1>17. ASSUME Len(f) >= 10, n >= Refused, n < Base * Base * Base * Base
       PROVE  DecodeLength(f).ok = "bad"
  <2>1. q3 >= half /\ q3 < Base
    BY <1>7, <1>8, <1>17, Zenon DEF b3
  <2>2. f[7].n >= Base \div 2
    BY <1>9, <1>15, <1>17, <2>1, Zenon DEF half
  <2>4. ~(Len(f) < 10)
    BY <1>17
  <2>5. DecodeLength(f) = [ok |-> "bad", len |-> 0, pos |-> 2]
    BY <1>12, <2>2, <2>4, Zenon DEF DecodeLength
  <2> QED
    BY <2>5
<1>18. Reads(f, n, 10)
    BY <1>14, <1>16, <1>17, Zenon DEF Reads
<1>19. 2 + Len(Extra(n)) = 10
    BY <1>11
<1> QED
    BY <1>18, <1>19, Zenon DEF n

\* Every length is read back when its bytes have arrived, or refused.
LEMMA ReadLength ==
    ASSUME NEW payload, NEW opcode, NEW isFin, NEW key, NEW f,
           FrameInput(payload, opcode, isFin, key),
           Len(f) \in Nat, Len(f) >= 2,
           HoldsFrame(f, payload, opcode, isFin, key)
    PROVE  Reads(f, Len(payload), 2 + Len(Extra(Len(payload))))
<1> DEFINE m == Base * Base
           n == Len(payload)
<1>1. n \in Nat /\ m \in Nat
    BY FormatAssumption DEF FrameInput
<1>2. n <= Small \/ (n > Small /\ n < m) \/ (n > Small /\ n >= m)
  <2> HIDE DEF m, n
  <2> QED
    BY <1>1, FormatAssumption
<1> QED
    BY <1>2, ReadShort, ReadMiddle, ReadLong, Zenon

-----------------------------------------------------------------------------
(* Taking a frame out of a buffer. *)

\* The first byte gives back the opcode and the fin bit.
LEMMA FirstByte ==
    ASSUME NEW payload, NEW opcode, NEW isFin, NEW key, NEW f,
           FrameInput(payload, opcode, isFin, key),
           Len(f) \in Nat, Len(f) >= 2,
           HoldsFrame(f, payload, opcode, isFin, key)
    PROVE  /\ f[1].n % 16 = opcode
           /\ (f[1].n >= Fin) = isFin
<1> DEFINE v == f[1].n
<1>1. Len(f) >= 1
    OBVIOUS
<1>2. v = opcode + (IF isFin THEN Fin ELSE 0)
    BY <1>1, Zenon DEF HoldsFrame
<1>3. opcode \in 0..15 /\ isFin \in BOOLEAN
    BY Zenon DEF FrameInput
<1> HIDE DEF v
<1>4. CASE isFin
  <2>1. v = opcode + 128
    BY <1>2, <1>4 DEF Fin
  <2>2. v % 16 = opcode /\ v >= Fin
    BY <1>3, <2>1 DEF Fin
  <2>3. (v >= Fin) = isFin
    BY <1>3, <1>4, <2>2, Zenon
  <2> QED
    BY <2>2, <2>3, Zenon DEF v
<1>5. CASE ~isFin
  <2>1. v = opcode
    BY <1>2, <1>3, <1>5
  <2>2. v % 16 = opcode /\ ~(v >= Fin)
    BY <1>3, <2>1 DEF Fin
  <2>4. (v >= Fin) = FALSE
    BY <1>3, <2>1 DEF Fin
  <2>3. (v >= Fin) = isFin
    BY <1>3, <1>5, <2>4, Zenon
  <2> QED
    BY <2>2, <2>3, Zenon DEF v
<1> QED
    BY <1>4, <1>5, Zenon

\* What wsFrameExtractBuffer makes of a buffer, with its definitions named.
LEMMA Extracted ==
    ASSUME NEW f, ~(Len(f) < 2), NEW length, length = DecodeLength(f),
           NEW pos, pos = length.pos + (IF f[2].n >= Mask THEN 4 ELSE 0)
    PROVE  /\ length.ok # "ok" \/ Len(f) < pos + length.len => wsFrameExtractBuffer(f) = NoFrame
           /\ ~(length.ok # "ok" \/ Len(f) < pos + length.len) =>
                 wsFrameExtractBuffer(f)
                    = [ok |-> TRUE, opcode |-> f[1].n % 16, fin |-> f[1].n >= Fin,
                       frameSize |-> pos + length.len,
                       payload |-> [i \in 1..length.len |->
                           IF f[2].n >= Mask THEN Xor(f[pos + i].n, f[(pos - 3) + ((i - 1) % 4)].n)
                                             ELSE f[pos + i].n]]
BY Zenon DEF wsFrameExtractBuffer

\* The byte of the payload at i, as it is read from the buffer f.
UnmaskedByte(f, key, pos, i) ==
    IF key # << >> THEN Xor(f[pos + i].n, f[(pos - 3) + ((i - 1) % 4)].n) ELSE f[pos + i].n

\* A byte of the payload is unmasked with the byte it was masked with.
LEMMA Unmasked ==
    ASSUME NEW payload, NEW opcode, NEW isFin, NEW key, NEW f,
           FrameInput(payload, opcode, isFin, key),
           Len(f) \in Nat, Len(f) >= HeadLen(payload, key) + Len(payload),
           HoldsFrame(f, payload, opcode, isFin, key),
           NEW pos, pos = HeadLen(payload, key),
           NEW i \in 1..Len(payload)
    PROVE  UnmaskedByte(f, key, pos, i) = payload[i]
<1> DEFINE le == Len(Extra(Len(payload)))
           lk == Len(key)
           lp == Len(payload)
           j == (i - 1) % 4
           lf == Len(f)
<1>1. lp \in Nat /\ le \in Nat /\ lk \in {0, 4} /\ lf \in Nat
  <2>1. lp \in Nat /\ lk \in {0, 4}
    BY DEF FrameInput
  <2>2. le \in {0, 2, 8}
    BY <2>1, EncodeType, Zenon
  <2> QED
    BY <2>1, <2>2
<1>2. pos = 2 + le + lk /\ lf >= pos + lp
    BY Zenon DEF HeadLen
<1>3. i \in Nat /\ i >= 1 /\ i <= lp
    BY <1>1
<1>4. j \in 0..3
    BY <1>3
<1>5. payload[i] \in Octet
    BY ElementOfSeq DEF FrameInput
<1> HIDE DEF le, lk, lp, j, lf
<1>6. pos \in Nat /\ lf >= pos + i
    BY <1>1, <1>2, <1>3
<1>7. f[pos + i].n = MaskedByte(payload, key, i)
    BY <1>6, Zenon DEF HoldsFrame, lf
<1>8. CASE key = << >>
    BY <1>7, <1>8, Zenon DEF MaskedByte, UnmaskedByte
<1>9. CASE key # << >>
  <2>1. lk = 4
    BY <1>9, EmptySeq DEF FrameInput, lk
  <2>2. j + 1 \in 1..lk /\ lf >= 2 + le + (j + 1)
    BY <1>1, <1>2, <1>3, <1>4, <2>1
  <2>3. f[2 + le + (j + 1)].n = key[j + 1]
    BY <2>2, Zenon DEF HoldsFrame, le, lk, lf
  <2>4. 2 + le + (j + 1) = (pos - 3) + j
    BY <1>1, <1>2, <1>4, <2>1
  <2>5. key[j + 1] \in Octet
    BY <2>2, ElementOfSeq DEF FrameInput, lk
  <2>6. Xor(Xor(payload[i], key[j + 1]), key[j + 1]) = payload[i]
    BY <1>5, <2>5, XorInverse, Zenon
  <2>7. f[pos + i].n = Xor(payload[i], key[j + 1])
    BY <1>7, <1>9, Zenon DEF MaskedByte, j
  <2>8. f[(pos - 3) + j].n = key[j + 1]
    BY <2>3, <2>4, Zenon
  <2>9. Xor(f[pos + i].n, f[(pos - 3) + j].n) = payload[i]
    BY <2>6, <2>7, <2>8, Zenon
  <2> QED
    BY <1>9, <2>9, Zenon DEF j, UnmaskedByte
<1> QED
    BY <1>8, <1>9, Zenon

\* A buffer that begins like a frame, or is the beginning of one, holds it.
LEMMA BeginsLikeFrame ==
    ASSUME NEW payload, NEW opcode, NEW isFin, NEW key,
           FrameInput(payload, opcode, isFin, key),
           NEW frame, frame = wsFrameBuild(payload, opcode, isFin, key),
           NEW f, Len(f) \in Nat,
           \A i \in 1..Len(f) : i <= Len(frame) => f[i] = frame[i]
    PROVE  HoldsFrame(f, payload, opcode, isFin, key)
<1> DEFINE extra == Extra(Len(payload))
           le == Len(extra)
           lk == Len(key)
           lp == Len(payload)
           head == HeadLen(payload, key)
           lf == Len(f)
           l == Len(frame)
<1>1. /\ l = head + lp
      /\ HoldsFrame(frame, payload, opcode, isFin, key)
    BY FrameHolds, Zenon
<1>2. lp \in Nat /\ lk \in Nat
    BY DEF FrameInput
<1>3. le \in Nat
  <2>1. le \in {0, 2, 8}
    BY <1>2, EncodeType, Zenon
  <2> QED
    BY <2>1
<1>4. head = 2 + le + lk
    BY Zenon DEF HeadLen
<1> HIDE DEF le, lk, lp, head, lf, l
<1>5. lf \in Nat
    BY DEF lf
<1>6. \A i \in 1..lf : i <= l => f[i] = frame[i]
    BY Zenon DEF lf, l
<1>7. /\ frame[1].n = opcode + (IF isFin THEN Fin ELSE 0)
      /\ frame[2].n = EncodeLength(Len(payload))[1] + (IF key # << >> THEN Mask ELSE 0)
  <2>1. l >= 1 /\ l >= 2
    BY <1>1, <1>2, <1>3, <1>4
  <2> QED
    BY <1>1, <2>1, Zenon DEF HoldsFrame, l
<1>8. /\ lf >= 1 => f[1] = frame[1]
      /\ lf >= 2 => f[2] = frame[2]
  <2>1. (lf >= 1 => 1 \in 1..lf) /\ (lf >= 2 => 2 \in 1..lf) /\ 1 <= l /\ 2 <= l
    BY <1>1, <1>2, <1>3, <1>4, <1>5
  <2> QED
    BY <1>6, <2>1, Zenon
<1>9. ASSUME NEW i \in 1..le, lf >= 2 + i PROVE f[2 + i].n = extra[i]
  <2>1. l >= 2 + i /\ 2 + i <= l /\ 2 + i \in 1..lf
    BY <1>1, <1>2, <1>3, <1>4, <1>5, <1>9
  <2>2. frame[2 + i].n = extra[i]
    BY <1>1, <2>1, Zenon DEF HoldsFrame, le, l
  <2> QED
    BY <1>6, <2>1, <2>2, Zenon
<1>10. ASSUME NEW i \in 1..lk, lf >= 2 + le + i PROVE f[2 + le + i].n = key[i]
  <2>1. l >= 2 + le + i /\ 2 + le + i <= l /\ 2 + le + i \in 1..lf
    BY <1>1, <1>2, <1>3, <1>4, <1>5, <1>10
  <2>2. frame[2 + le + i].n = key[i]
    BY <1>1, <2>1, Zenon DEF HoldsFrame, le, lk, l
  <2> QED
    BY <1>6, <2>1, <2>2, Zenon
<1>11. ASSUME NEW i \in 1..lp, lf >= head + i PROVE f[head + i].n = MaskedByte(payload, key, i)
  <2>1. l >= head + i /\ head + i <= l /\ head + i \in 1..lf
    BY <1>1, <1>2, <1>3, <1>4, <1>5, <1>11
  <2>2. frame[head + i].n = MaskedByte(payload, key, i)
    BY <1>1, <2>1, Zenon DEF HoldsFrame, head, lp, l
  <2> QED
    BY <1>6, <2>1, <2>2, Zenon
<1> QED
    BY <1>7, <1>8, <1>9, <1>10, <1>11, Zenon DEF HoldsFrame, head, lp, lf, le, lk

\* The places of the length and of the payload, for a buffer that holds a frame.
LEMMA Places ==
    ASSUME NEW payload, NEW opcode, NEW isFin, NEW key, NEW f,
           FrameInput(payload, opcode, isFin, key),
           Len(f) \in Nat, Len(f) >= 2,
           HoldsFrame(f, payload, opcode, isFin, key)
    PROVE  /\ 2 + Len(Extra(Len(payload))) \in Nat
           /\ HeadLen(payload, key) \in Nat
           /\ HeadLen(payload, key) >= 2
           /\ HeadLen(payload, key) >= 2 + Len(Extra(Len(payload)))
           /\ HeadLen(payload, key)
                = 2 + Len(Extra(Len(payload))) + (IF f[2].n >= Mask THEN 4 ELSE 0)
<1> DEFINE le == Len(Extra(Len(payload)))
           lk == Len(key)
<1>1. Len(payload) \in Nat /\ lk \in {0, 4} /\ (key # << >> => lk = 4) /\ (key = << >> => lk = 0)
    BY EmptySeq DEF FrameInput
<1>2. le \in {0, 2, 8}
    BY <1>1, EncodeType, Zenon
<1>3. HeadLen(payload, key) = 2 + le + lk
    BY Zenon DEF HeadLen
<1>4. lk = (IF f[2].n >= Mask THEN 4 ELSE 0)
  <2>1. f[2].n >= Mask <=> key # << >>
    BY SecondByte, Zenon
  <2> QED
    BY <1>1, <2>1, Zenon
<1> HIDE DEF le, lk
<1>5. /\ 2 + le \in Nat
      /\ 2 + le + lk \in Nat
      /\ 2 + le + lk >= 2
      /\ 2 + le + lk >= 2 + le
    BY <1>1, <1>2
<1> QED
    BY <1>3, <1>4, <1>5, Zenon DEF le

\* A buffer that holds all of a frame gives back what went into it.
LEMMA WholeFrame ==
    ASSUME NEW payload, NEW opcode, NEW isFin, NEW key, NEW f,
           FrameInput(payload, opcode, isFin, key), Len(payload) < Refused,
           Len(f) \in Nat, Len(f) >= HeadLen(payload, key) + Len(payload),
           HoldsFrame(f, payload, opcode, isFin, key)
    PROVE  wsFrameExtractBuffer(f)
             = [ok |-> TRUE, opcode |-> opcode, fin |-> isFin, payload |-> payload,
                frameSize |-> HeadLen(payload, key) + Len(payload)]
<1> DEFINE n == Len(payload)
           p == 2 + Len(Extra(n))
           pos == HeadLen(payload, key)
           length == DecodeLength(f)
           m == f[2].n >= Mask
<1>1. n \in Nat
    BY DEF FrameInput
<1>2. Len(f) >= 2 /\ ~(Len(f) < 2)
  <2>1. Len(Extra(n)) \in {0, 2, 8} /\ Len(key) \in {0, 4}
    BY <1>1, EncodeType, Zenon DEF FrameInput
  <2>2. pos = p + Len(key)
    BY Zenon DEF HeadLen
  <2> DEFINE a == Len(Extra(n))
             b == Len(key)
             l == Len(f)
  <2>3. a \in {0, 2, 8} /\ b \in {0, 4} /\ pos = 2 + a + b /\ l >= pos + n /\ l \in Nat
    BY <2>1, <2>2
  <2> HIDE DEF a, b, l, n, pos
  <2>4. l >= 2 /\ ~(l < 2)
    BY <1>1, <2>3
  <2> QED
    BY <2>4 DEF l
<1>3. p \in Nat /\ pos \in Nat /\ pos >= p /\ pos = p + (IF m THEN 4 ELSE 0)
    BY <1>2, Places, Zenon
<1>4. Reads(f, n, p)
    BY <1>2, ReadLength, Zenon
<1>5. Len(f) >= p /\ ~(Len(f) < pos + n)
  <2> HIDE DEF p, pos, n
  <2> QED
    BY <1>1, <1>3 DEF pos, n
<1>6. length = [ok |-> "ok", len |-> n, pos |-> p]
    BY <1>4, <1>5, Zenon DEF Reads
<1>7. length.ok = "ok" /\ length.len = n /\ length.pos = p
  <2> HIDE DEF length, n, p
  <2> QED
    BY <1>6
<1>8. pos = length.pos + (IF m THEN 4 ELSE 0)
    BY <1>3, <1>7, Zenon
<1>9. m <=> key # << >>
    BY <1>2, SecondByte, Zenon
<1>10. f[1].n % 16 = opcode /\ (f[1].n >= Fin) = isFin
    BY <1>2, FirstByte, Zenon
<1> DEFINE out == [i \in 1..n |-> IF m THEN Xor(f[pos + i].n, f[(pos - 3) + ((i - 1) % 4)].n)
                                       ELSE f[pos + i].n]
<1>11. out = payload
  <2>1. ASSUME NEW i \in 1..n PROVE UnmaskedByte(f, key, pos, i) = payload[i]
    BY Unmasked
  <2>2. \A i \in 1..n : (IF m THEN Xor(f[pos + i].n, f[(pos - 3) + ((i - 1) % 4)].n)
                              ELSE f[pos + i].n) = payload[i]
    BY <1>9, <2>1, Zenon DEF UnmaskedByte
  <2>3. payload = [i \in 1..n |-> payload[i]]
    BY DEF FrameInput
  <2> QED
    BY <2>2, <2>3, Zenon
<1>12. wsFrameExtractBuffer(f)
         = [ok |-> TRUE, opcode |-> f[1].n % 16, fin |-> f[1].n >= Fin, frameSize |-> pos + length.len,
            payload |-> [i \in 1..length.len |->
                           IF m THEN Xor(f[pos + i].n, f[(pos - 3) + ((i - 1) % 4)].n)
                                ELSE f[pos + i].n]]
  <2>1. ~(length.ok # "ok" \/ Len(f) < pos + length.len)
    BY <1>5, <1>7, Zenon
  <2> QED
    BY <1>2, <1>8, <2>1, Extracted, Zenon
<1>13. wsFrameExtractBuffer(f)
         = [ok |-> TRUE, opcode |-> f[1].n % 16, fin |-> f[1].n >= Fin, frameSize |-> pos + n, payload |-> out]
    BY <1>7, <1>12, Zenon
<1> HIDE DEF out, pos, n
<1>14. wsFrameExtractBuffer(f)
         = [ok |-> TRUE, opcode |-> opcode, fin |-> isFin, frameSize |-> pos + n, payload |-> payload]
    BY <1>10, <1>11, <1>13, Zenon
<1> QED
    BY <1>14, Zenon DEF pos, n

\* A frame and what follows it in a buffer.
LEMMA FrameThenRest ==
    ASSUME NEW S, NEW frame \in Seq(S), NEW rest \in Seq(S), NEW f, f = frame \o rest
    PROVE  /\ Len(f) \in Nat
           /\ Len(f) >= Len(frame)
           /\ \A i \in 1..Len(f) : i <= Len(frame) => f[i] = frame[i]
           /\ SubSeq(f, Len(frame) + 1, Len(f)) = rest
<1>1. /\ Len(f) = Len(frame) + Len(rest) /\ Len(frame) \in Nat /\ Len(rest) \in Nat
      /\ \A i \in 1..Len(frame) : f[i] = frame[i]
      /\ \A i \in 1..Len(rest) : f[Len(frame) + i] = rest[i]
    OBVIOUS
<1> DEFINE l == Len(frame)
           r == Len(rest)
           lf == Len(f)
           s == SubSeq(f, l + 1, lf)
<1>2. f \in Seq(S)
    OBVIOUS
<1>3. l \in Nat /\ r \in Nat /\ lf = l + r
    BY <1>1
<1>4. s = [i \in 1..r |-> f[l + i]]
  <2>1. /\ s = [i \in 1..(IF l + 1 <= lf THEN lf - (l + 1) + 1 ELSE 0) |-> f[i + (l + 1) - 1]]
    BY <1>2, <1>3
  <2> HIDE DEF l, r, lf
  <2>2. (IF l + 1 <= lf THEN lf - (l + 1) + 1 ELSE 0) = r
    BY <1>3
  <2>3. \A i \in 1..r : i + (l + 1) - 1 = l + i
    BY <1>3
  <2> QED
    BY <2>1, <2>2, <2>3
<1>5. s = rest
  <2>1. rest = [i \in 1..r |-> rest[i]]
    OBVIOUS
  <2> HIDE DEF s, r
  <2>2. s = [i \in 1..r |-> rest[i]]
    BY <1>1, <1>4, Zenon DEF r
  <2> QED
    BY <2>1, <2>2
<1>6. \A i \in 1..Len(f) : i <= Len(frame) => f[i] = frame[i]
  <2>1. \A i \in 1..lf : i <= l => i \in 1..l
    BY <1>3
  <2> QED
    BY <1>1, <2>1, Zenon
<1>7. Len(f) \in Nat /\ Len(f) >= Len(frame)
    BY <1>1
<1> QED
    BY <1>5, <1>6, <1>7, Zenon

\* A frame that is cut short.
LEMMA FrameCut ==
    ASSUME NEW S, NEW frame \in Seq(S), NEW k \in 0..(Len(frame) - 1),
           NEW f, f = SubSeq(frame, 1, k)
    PROVE  /\ Len(f) = k
           /\ \A i \in 1..Len(f) : i <= Len(frame) => f[i] = frame[i]
<1>1. Len(frame) \in Nat /\ k \in Nat /\ k <= Len(frame)
    OBVIOUS
<1>2. Len(f) = k
    BY <1>1
<1>3. \A i \in 1..k : f[i] = frame[i]
    BY <1>1
<1> QED
    BY <1>2, <1>3, Zenon

\* What is taken out of a buffer that begins with a frame is what went into the
\* frame, and the rest of the buffer begins after the frame size it gives.
ReadBack(payload, opcode, isFin, key, rest) ==
    LET frame  == wsFrameBuild(payload, opcode, isFin, key)
        buffer == frame \o rest
        got    == wsFrameExtractBuffer(buffer)
    IN /\ got = [ok |-> TRUE, opcode |-> opcode, fin |-> isFin, payload |-> payload,
                 frameSize |-> Len(frame)]
       /\ SubSeq(buffer, got.frameSize + 1, Len(buffer)) = rest

\* A frame that wsFrameBuild built is taken out of the buffer whole, whatever
\* follows it: wsFrameExtractBuffer gives back the payload, the opcode and the
\* fin bit, unmasked with the mask of the frame, for each of the three forms of
\* the length, and a frame size after which the rest of the buffer begins.
THEOREM FrameReadBack ==
    ASSUME NEW payload \in Seq(Octet), Len(payload) < Refused,
           NEW opcode \in 0..15, NEW isFin \in BOOLEAN,
           NEW key \in Seq(Octet), Len(key) \in {0, 4},
           NEW rest \in Seq([c : {"byte"}, n : Nat])
    PROVE  ReadBack(payload, opcode, isFin, key, rest)
<1> DEFINE frame == wsFrameBuild(payload, opcode, isFin, key)
           buffer == frame \o rest
           got == wsFrameExtractBuffer(buffer)
<1>1. FrameInput(payload, opcode, isFin, key)
    BY DEF FrameInput
<1>2. /\ frame \in Seq([c : {"byte"}, n : Nat])
      /\ Len(frame) = HeadLen(payload, key) + Len(payload)
    BY <1>1, FrameHolds, Zenon
<1>3. /\ Len(buffer) \in Nat
      /\ Len(buffer) >= Len(frame)
      /\ \A i \in 1..Len(buffer) : i <= Len(frame) => buffer[i] = frame[i]
      /\ SubSeq(buffer, Len(frame) + 1, Len(buffer)) = rest
  <2> HIDE DEF frame
  <2> QED
    BY <1>2, FrameThenRest
<1> HIDE DEF buffer
<1>4. HoldsFrame(buffer, payload, opcode, isFin, key)
    BY <1>1, <1>3, BeginsLikeFrame, Zenon
<1>5. Len(buffer) >= HeadLen(payload, key) + Len(payload)
    BY <1>2, <1>3, Zenon
<1>6. got = [ok |-> TRUE, opcode |-> opcode, fin |-> isFin, payload |-> payload,
             frameSize |-> Len(frame)]
  <2>1. got = [ok |-> TRUE, opcode |-> opcode, fin |-> isFin, payload |-> payload,
               frameSize |-> HeadLen(payload, key) + Len(payload)]
    BY <1>1, <1>3, <1>4, <1>5, WholeFrame
  <2> QED
    BY <1>2, <2>1, Zenon
<1>7. got.frameSize = Len(frame)
  <2> HIDE DEF got, frame
  <2> QED
    BY <1>6
<1> QED
    BY <1>3, <1>6, <1>7, Zenon DEF ReadBack, buffer

\* A frame of which the last bytes have not arrived is not presented, wherever
\* it is cut: in the head, the length, the mask or the payload.
THEOREM FrameIncomplete ==
    ASSUME NEW payload \in Seq(Octet), Len(payload) < Refused,
           NEW opcode \in 0..15, NEW isFin \in BOOLEAN,
           NEW key \in Seq(Octet), Len(key) \in {0, 4},
           NEW k \in 0..(Len(wsFrameBuild(payload, opcode, isFin, key)) - 1)
    PROVE  wsFrameExtractBuffer(SubSeq(wsFrameBuild(payload, opcode, isFin, key), 1, k)) = NoFrame
<1> DEFINE frame == wsFrameBuild(payload, opcode, isFin, key)
           f == SubSeq(frame, 1, k)
           n == Len(payload)
           p == 2 + Len(Extra(n))
           pos == HeadLen(payload, key)
           length == DecodeLength(f)
           m == f[2].n >= Mask
<1>1. FrameInput(payload, opcode, isFin, key) /\ n \in Nat
    BY DEF FrameInput
<1>2. /\ frame \in Seq([c : {"byte"}, n : Nat])
      /\ Len(frame) = pos + n
    BY <1>1, FrameHolds, Zenon
<1>3. /\ Len(f) = k
      /\ \A i \in 1..Len(f) : i <= Len(frame) => f[i] = frame[i]
  <2>1. k \in 0..(Len(frame) - 1)
    OBVIOUS
  <2> HIDE DEF frame
  <2> QED
    BY <1>2, <2>1, FrameCut
<1>4. k \in Nat /\ k < pos + n
  <2>1. k \in 0..(Len(frame) - 1) /\ Len(frame) \in Nat
    BY <1>2
  <2> HIDE DEF frame, pos, n
  <2> QED
    BY <1>2, <2>1
<1> HIDE DEF f
<1>5. Len(f) \in Nat
    BY <1>3, <1>4, Zenon
<1>6. CASE Len(f) < 2
    BY <1>6, Zenon DEF wsFrameExtractBuffer, f
<1>7. CASE Len(f) >= 2
  <2>1. HoldsFrame(f, payload, opcode, isFin, key)
    BY <1>1, <1>3, <1>5, BeginsLikeFrame, Zenon
  <2>2. Reads(f, n, p)
    BY <1>1, <1>5, <1>7, <2>1, ReadLength, Zenon
  <2>3. p \in Nat /\ pos \in Nat /\ pos >= p /\ pos = p + (IF m THEN 4 ELSE 0)
    BY <1>1, <1>5, <1>7, <2>1, Places, Zenon
  <2>4. ~(Len(f) < 2)
    BY <1>5, <1>7
  <2>5. CASE Len(f) < p
    <3>1. length.ok # "ok"
      <4>1. length.ok = "more"
        BY <2>2, <2>5, Zenon DEF Reads
      <4> QED
        BY <4>1
    <3> QED
      BY <2>4, <3>1, Extracted, Zenon DEF f
  <2>6. CASE Len(f) >= p
    <3>1. length = [ok |-> "ok", len |-> n, pos |-> p]
      BY <2>2, <2>6, Zenon DEF Reads
    <3>2. length.len = n /\ length.pos = p
      <4> HIDE DEF length, n, p
      <4> QED
        BY <3>1
    <3>3. pos = length.pos + (IF m THEN 4 ELSE 0) /\ Len(f) < pos + length.len
      BY <1>3, <1>4, <2>3, <3>2, Zenon
    <3> QED
      BY <2>4, <3>3, Extracted, Zenon DEF f
  <2> QED
    <3> HIDE DEF p
    <3>1. Len(f) < p \/ Len(f) >= p
      BY <1>5, <2>3
    <3> QED
      BY <2>5, <2>6, <3>1, Zenon
<1> QED
  <2>1. Len(f) < 2 \/ Len(f) >= 2
    BY <1>5
  <2> QED
    BY <1>6, <1>7, <2>1, Zenon

\* The code builds frames that it refuses: a payload of half the range of its
\* length field or more is never presented, whatever is received after it, and
\* its frame looks like one that is not complete yet.
THEOREM FrameRefused ==
    ASSUME NEW payload \in Seq(Octet), Len(payload) > Small, Len(payload) >= Refused,
           Len(payload) < Base * Base * Base * Base,
           NEW opcode \in 0..15, NEW isFin \in BOOLEAN,
           NEW key \in Seq(Octet), Len(key) \in {0, 4},
           NEW rest \in Seq([c : {"byte"}, n : Nat])
    PROVE  wsFrameExtractBuffer(wsFrameBuild(payload, opcode, isFin, key) \o rest) = NoFrame
<1> DEFINE frame == wsFrameBuild(payload, opcode, isFin, key)
           f == frame \o rest
           n == Len(payload)
           p == 2 + Len(Extra(n))
           length == DecodeLength(f)
<1>1. FrameInput(payload, opcode, isFin, key) /\ n \in Nat
    BY DEF FrameInput
<1>2. /\ frame \in Seq([c : {"byte"}, n : Nat])
      /\ Len(frame) = HeadLen(payload, key) + n
    BY <1>1, FrameHolds, Zenon
<1>3. /\ Len(f) \in Nat
      /\ Len(f) >= Len(frame)
      /\ \A i \in 1..Len(f) : i <= Len(frame) => f[i] = frame[i]
  <2> HIDE DEF frame
  <2> QED
    BY <1>2, FrameThenRest
<1> HIDE DEF f
<1>4. HoldsFrame(f, payload, opcode, isFin, key)
    BY <1>1, <1>3, BeginsLikeFrame, Zenon
<1>5. Len(f) >= 2 /\ Len(f) >= p /\ ~(Len(f) < 2)
  <2> DEFINE a == Len(Extra(n))
             b == Len(key)
             l == Len(frame)
             lf == Len(f)
  <2>1. a \in {0, 2, 8} /\ b \in {0, 4}
    BY <1>1, EncodeType, Zenon
  <2>2. l = 2 + a + b + n /\ lf >= l /\ lf \in Nat
    BY <1>2, <1>3, Zenon DEF HeadLen
  <2> HIDE DEF a, b, l, lf, n
  <2>3. lf >= 2 /\ lf >= 2 + a /\ ~(lf < 2)
    BY <1>1, <2>1, <2>2
  <2> QED
    BY <2>3, Zenon DEF lf, a
<1>6. Reads(f, n, p)
    BY <1>1, <1>3, <1>4, <1>5, ReadLength, Zenon
<1>7. length.ok # "ok"
  <2>1. length.ok = "bad"
    BY <1>5, <1>6, Zenon DEF Reads
  <2> QED
    BY <2>1
<1>8. wsFrameExtractBuffer(f) = NoFrame
    BY <1>5, <1>7, Extracted, Zenon
<1> QED
    BY <1>8, Zenon DEF f

-----------------------------------------------------------------------------
(* The loop over the frames of a read. *)

\* A nonempty set of numbers has a least one.
LEMMA LeastIsThere ==
    ASSUME NEW S, S \subseteq Nat, S # {}
    PROVE  \E x \in S : \A y \in S : x <= y
<1> DEFINE R == OpToRel(<, Nat)
<1>1. IsWellFoundedOn(R, Nat)
  BY NatLessThanWellFounded
<1>2. \A x, y \in Nat : y < x => <<y, x>> \in R
  BY DEF OpToRel
<1> HIDE DEF R
<1>3. PICK x \in S : \A y \in S : ~(<<y, x>> \in R)
  BY <1>1, WFMin
<1>4. ASSUME NEW y \in S PROVE x <= y
  <2>1. x \in Nat /\ y \in Nat
    OBVIOUS
  <2>2. ~(y < x)
    BY <1>2, <1>3, <2>1
  <2> QED BY <2>1, <2>2
<1> QED BY <1>4

\* Induction, for a set of numbers.
LEMMA SetInduction ==
    ASSUME NEW S, 0 \in S, \A n \in Nat : n \in S => n + 1 \in S
    PROVE  \A n \in Nat : n \in S
<1> SUFFICES ASSUME NEW k \in Nat, k \notin S PROVE FALSE
  OBVIOUS
<1> DEFINE T == {n \in Nat : n \notin S}
<1>1. T \subseteq Nat /\ T # {}
  OBVIOUS
<1> HIDE DEF T
<1>2. PICK x \in T : \A y \in T : x <= y
  BY <1>1, LeastIsThere
<1>3. x \in Nat /\ x \notin S
  BY DEF T
<1>4. x # 0 /\ x - 1 \in Nat /\ (x - 1) + 1 = x /\ ~(x <= x - 1)
  BY <1>3
<1>5. x - 1 \in S
  BY <1>2, <1>4 DEF T
<1> QED BY <1>3, <1>4, <1>5

\* The frames that a peer may send, their bytes, and what is read of one.
Frames == [payload : {s \in Seq(Octet) : Len(s) < Refused}, opcode : 0..15, fin : BOOLEAN,
           key : {s \in Seq(Octet) : Len(s) \in {0, 4}}]
Built(r) == wsFrameBuild(r.payload, r.opcode, r.fin, r.key)
Got(r) == [ok |-> TRUE, opcode |-> r.opcode, fin |-> r.fin, payload |-> r.payload,
           frameSize |-> Len(Built(r))]

\* A frame has two bytes at least.
LEMMA BuiltType ==
    ASSUME NEW r \in Frames
    PROVE  /\ Built(r) \in Seq([c : {"byte"}, n : Nat])
           /\ Len(Built(r)) \in Nat
           /\ Len(Built(r)) >= 2
<1> DEFINE n == Len(r.payload)
           a == Len(Extra(n))
           b == Len(r.key)
           l == Len(Built(r))
<1>1. /\ r.payload \in Seq(Octet) /\ r.opcode \in 0..15 /\ r.fin \in BOOLEAN
      /\ r.key \in Seq(Octet) /\ b \in {0, 4}
    BY DEF Frames
<1>2. FrameInput(r.payload, r.opcode, r.fin, r.key)
    BY <1>1, Zenon DEF FrameInput
<1>3. Built(r) \in Seq([c : {"byte"}, n : Nat]) /\ l = HeadLen(r.payload, r.key) + n
    BY <1>2, FrameHolds, Zenon DEF Built
<1>4. n \in Nat
    BY <1>1
<1>5. a \in {0, 2, 8}
    BY <1>4, EncodeType, Zenon
<1>6. l = 2 + a + b + n
    BY <1>3, Zenon DEF HeadLen
<1>7. b \in {0, 4}
    BY <1>1
<1> HIDE DEF n, a, b, l
<1>8. l \in Nat /\ l >= 2
    BY <1>4, <1>5, <1>6, <1>7
<1> QED
    BY <1>3, <1>8, Zenon DEF l

\* One turn of the loop takes the frame that comes first, and no other.
LEMMA TakeOne ==
    ASSUME NEW r \in Frames, NEW rest \in Seq([c : {"byte"}, n : Nat]),
           NEW w, w.left = Built(r) \o rest
    PROVE  TakeFrame(w) = HandleFrame([w EXCEPT !.left = rest], Got(r))
<1> DEFINE d == Built(r) \o rest
           got == wsFrameExtractBuffer(d)
<1>1. /\ r.payload \in Seq(Octet) /\ Len(r.payload) < Refused
      /\ r.opcode \in 0..15 /\ r.fin \in BOOLEAN
      /\ r.key \in Seq(Octet) /\ Len(r.key) \in {0, 4}
    BY DEF Frames
<1>2. got = Got(r) /\ SubSeq(d, got.frameSize + 1, Len(d)) = rest
  <2> DEFINE payload == r.payload
             opcode == r.opcode
             isFin == r.fin
             key == r.key
             frame == wsFrameBuild(payload, opcode, isFin, key)
  <2>1. /\ payload \in Seq(Octet) /\ Len(payload) < Refused
        /\ opcode \in 0..15 /\ isFin \in BOOLEAN
        /\ key \in Seq(Octet) /\ Len(key) \in {0, 4}
    BY <1>1, Zenon
  <2>2. frame = Built(r)
    BY Zenon DEF Built
  <2> HIDE DEF payload, opcode, isFin, key
  <2>3. /\ wsFrameExtractBuffer(frame \o rest)
             = [ok |-> TRUE, opcode |-> opcode, fin |-> isFin, payload |-> payload, frameSize |-> Len(frame)]
        /\ SubSeq(frame \o rest, wsFrameExtractBuffer(frame \o rest).frameSize + 1, Len(frame \o rest)) = rest
    <3>1. ReadBack(payload, opcode, isFin, key, rest)
      BY <2>1, FrameReadBack
    <3> QED
      BY <3>1, Zenon DEF ReadBack
  <2> QED
    BY <2>2, <2>3, Zenon DEF Got, payload, opcode, isFin, key
<1>3. got.ok = TRUE
  <2> HIDE DEF got
  <2> QED
    BY <1>2 DEF Got
<1>4. w.left = d
    OBVIOUS
<1>5. TakeFrame(w) = HandleFrame([w EXCEPT !.left = SubSeq(d, got.frameSize + 1, Len(d))], got)
  <2>1. TakeFrame(w) = IF ~got.ok THEN w
                       ELSE HandleFrame([w EXCEPT !.left = SubSeq(w.left, got.frameSize + 1, Len(w.left))], got)
    BY <1>4, Zenon DEF TakeFrame
  <2> QED
    BY <1>3, <1>4, <2>1, Zenon
<1> QED
    BY <1>2, <1>5, Zenon

\* It takes nothing when only the beginning of a frame is left.
LEMMA TakeNone ==
    ASSUME NEW r \in Frames, NEW k \in 0..(Len(Built(r)) - 1),
           NEW w, w.left = SubSeq(Built(r), 1, k)
    PROVE  TakeFrame(w) = w
<1>1. /\ r.payload \in Seq(Octet) /\ Len(r.payload) < Refused
      /\ r.opcode \in 0..15 /\ r.fin \in BOOLEAN
      /\ r.key \in Seq(Octet) /\ Len(r.key) \in {0, 4}
    BY DEF Frames
<1>2. wsFrameExtractBuffer(w.left) = NoFrame
  <2> DEFINE payload == r.payload
             opcode == r.opcode
             isFin == r.fin
             key == r.key
             frame == wsFrameBuild(payload, opcode, isFin, key)
  <2>1. /\ payload \in Seq(Octet) /\ Len(payload) < Refused
        /\ opcode \in 0..15 /\ isFin \in BOOLEAN
        /\ key \in Seq(Octet) /\ Len(key) \in {0, 4}
    BY <1>1, Zenon
  <2>2. frame = Built(r)
    BY Zenon DEF Built
  <2> HIDE DEF payload, opcode, isFin, key
  <2>3. k \in 0..(Len(frame) - 1)
    BY <2>2, Zenon
  <2>4. wsFrameExtractBuffer(SubSeq(frame, 1, k)) = NoFrame
    BY <2>1, <2>3, FrameIncomplete
  <2> QED
    BY <2>2, <2>4, Zenon
<1>3. NoFrame.ok = FALSE
    BY DEF NoFrame
<1> QED
    BY <1>2, <1>3, Zenon DEF TakeFrame

\* The states of the loop that begins with w, after 0..n turns.
Turns(w, n, g) == g = [i \in 0..n |-> IF i = 0 THEN w ELSE TakeFrame(g[i - 1])]

\* The loop has such states ...
LEMMA TurnsExist ==
    ASSUME NEW w, NEW n \in Nat
    PROVE  \E g : Turns(w, n, g)
<1> DEFINE T == {k \in Nat : \E g : Turns(w, k, g)}
<1>t. \A k \in Nat : k \in T <=> \E g : Turns(w, k, g)
    BY Zenon
<1>1. 0 \in T
  <2> DEFINE g == [i \in 0..0 |-> w]
  <2>1. g = [i \in 0..0 |-> IF i = 0 THEN w ELSE TakeFrame(g[i - 1])]
    OBVIOUS
  <2>2. Turns(w, 0, g)
    BY <2>1, Zenon DEF Turns
  <2>3. 0 \in Nat
    OBVIOUS
  <2> QED
    BY <1>t, <2>2, <2>3, Zenon
<1> HIDE DEF T
<1>2. ASSUME NEW k \in Nat, k \in T PROVE k + 1 \in T
  <2>1. PICK f : Turns(w, k, f)
    BY <1>2, <1>t, Zenon
  <2> DEFINE g == [i \in 0..(k + 1) |-> IF i = k + 1 THEN TakeFrame(f[k]) ELSE f[i]]
             h == [i \in 0..(k + 1) |-> IF i = 0 THEN w ELSE TakeFrame(g[i - 1])]
  <2>2. \A i \in 0..k : f[i] = IF i = 0 THEN w ELSE TakeFrame(f[i - 1])
    BY <2>1, Zenon DEF Turns
  <2>3. g[k + 1] = TakeFrame(f[k]) /\ \A i \in 0..k : g[i] = f[i]
    OBVIOUS
  <2>4. ASSUME NEW i \in 0..(k + 1) PROVE g[i] = IF i = 0 THEN w ELSE TakeFrame(g[i - 1])
    <3> HIDE DEF g
    <3>1. CASE i = k + 1
      <4>1. i # 0 /\ i - 1 = k /\ k \in 0..k
        BY <3>1
      <4> QED
        BY <2>3, <3>1, <4>1, Zenon
    <3>2. CASE i # k + 1
      <4>1. i \in 0..k /\ (i # 0 => i - 1 \in 0..k)
        BY <3>2
      <4> QED
        BY <2>2, <2>3, <4>1, Zenon
    <3> QED
      BY <3>1, <3>2, Zenon
  <2>5. g = h
    <3>1. DOMAIN g = 0..(k + 1) /\ g = [i \in 0..(k + 1) |-> g[i]]
      BY Zenon
    <3> HIDE DEF g
    <3> QED
      BY <2>4, <3>1, Zenon
  <2>6. Turns(w, k + 1, g)
    BY <2>5, Zenon DEF Turns
  <2>7. k + 1 \in Nat
    OBVIOUS
  <2> QED
    BY <1>t, <2>6, <2>7, Zenon
<1>3. \A k \in Nat : k \in T
    BY <1>1, <1>2, SetInduction, Zenon
<1> QED
    BY <1>3, <1>t, Zenon

\* ... and TakeFrames is the last of them.
LEMMA TakeFramesTurns ==
    ASSUME NEW w, Len(w.left) \in Nat
    PROVE  \E g : Turns(w, Len(w.left), g) /\ TakeFrames(w) = g[Len(w.left)]
<1> DEFINE n == Len(w.left)
           g == CHOOSE h : Turns(w, n, h)
<1>1. Turns(w, n, g)
    BY TurnsExist, Zenon
<1>2. TakeFrames(w) = g[n]
    BY Zenon DEF TakeFrames, Turns
<1> QED
    BY <1>1, <1>2, Zenon

\* Handling a frame leaves the data that is left alone.
LEMMA HandleFrameLeft ==
    ASSUME NEW w, NEW f, NEW rest, "left" \in DOMAIN w
    PROVE  /\ HandleFrame([w EXCEPT !.left = rest], f).left = rest
           /\ "left" \in DOMAIN HandleFrame([w EXCEPT !.left = rest], f)
<1> DEFINE v == [w EXCEPT !.left = rest]
<1>1. v.left = rest /\ "left" \in DOMAIN v
    OBVIOUS
<1> HIDE DEF v
<1>2. ASSUME NEW a, NEW b
      PROVE  /\ [v EXCEPT !.cache = a, !.type = b].left = rest
             /\ "left" \in DOMAIN [v EXCEPT !.cache = a, !.type = b]
    BY <1>1
<1>3. ASSUME NEW a, NEW b
      PROVE  /\ [v EXCEPT !.cache = a, !.out = b].left = rest
             /\ "left" \in DOMAIN [v EXCEPT !.cache = a, !.out = b]
    BY <1>1
<1>4. ASSUME NEW b
      PROVE  /\ [v EXCEPT !.out = b].left = rest
             /\ "left" \in DOMAIN [v EXCEPT !.out = b]
    BY <1>1
<1>5. \/ \E a, b : HandleFrame(v, f) = [v EXCEPT !.cache = a, !.type = b]
      \/ \E a, b : HandleFrame(v, f) = [v EXCEPT !.cache = a, !.out = b]
      \/ \E b : HandleFrame(v, f) = [v EXCEPT !.out = b]
    BY Zenon DEF HandleFrame
<1>6. HandleFrame(v, f).left = rest /\ "left" \in DOMAIN HandleFrame(v, f)
    BY <1>2, <1>3, <1>4, <1>5, Zenon
<1> QED
    BY <1>6, Zenon DEF v

\* d[j] is what is left of the data after the first j of the frames fs, and w[j]
\* what handling them in their order makes of the cache and of the messages.
Chain(k, fs, d, w) ==
    /\ \A j \in 1..k : d[j - 1] = Built(fs[j]) \o d[j]
    /\ "left" \in DOMAIN w[0] /\ w[0].left = d[0]
    /\ \A j \in 1..k : w[j] = HandleFrame([w[j - 1] EXCEPT !.left = d[j]], Got(fs[j]))

\* The data has a byte at least for every frame in it.
LEMMA DataLongEnough ==
    ASSUME NEW k \in Nat, NEW fs \in [1..k -> Frames],
           NEW d \in [0..k -> Seq([c : {"byte"}, n : Nat])], NEW w, Chain(k, fs, d, w)
    PROVE  Len(d[0]) \in Nat /\ k <= Len(d[0])
<1> DEFINE L(j) == Len(d[j])
           T == {j \in Nat : j <= k => L(0) >= L(j) + j}
<1>t. \A j \in Nat : j \in T <=> (j <= k => L(0) >= L(j) + j)
    BY Zenon
<1>0. \A j \in 0..k : L(j) \in Nat
    OBVIOUS
<1>1. 0 \in T
  <2>1. L(0) \in Nat
    BY <1>0
  <2> HIDE DEF L, T
  <2>2. L(0) >= L(0) + 0
    BY <2>1
  <2> QED
    BY <1>t, <2>2
<1> HIDE DEF T
<1>2. ASSUME NEW j \in Nat, j \in T PROVE j + 1 \in T
  <2>0. j + 1 \in Nat
    OBVIOUS
  <2> SUFFICES ASSUME j + 1 <= k PROVE L(0) >= L(j + 1) + (j + 1)
    BY <1>t, <2>0, Zenon
  <2>1. j <= k /\ j \in 0..k /\ j + 1 \in 1..k /\ j + 1 \in 0..k /\ 0 \in 0..k /\ (j + 1) - 1 = j
    OBVIOUS
  <2>2. d[j] = Built(fs[j + 1]) \o d[j + 1]
    BY <2>1, Zenon DEF Chain
  <2>3. fs[j + 1] \in Frames
    BY <2>1, Zenon
  <2> DEFINE x == Built(fs[j + 1])
             y == d[j + 1]
             S == [c : {"byte"}, n : Nat]
  <2>4. x \in Seq(S) /\ Len(x) \in Nat /\ Len(x) >= 2
    BY <2>3, BuiltType, Zenon
  <2>5. y \in Seq(S)
    BY <2>1, Zenon
  <2>6. d[j] = x \o y
    BY <2>2, Zenon
  <2> HIDE DEF x, y, S
  <2>7. Len(d[j]) = Len(x) + Len(y)
    BY <2>4, <2>5, <2>6
  <2>8. L(0) >= L(j) + j
    BY <1>2, <1>t, <2>1, Zenon
  <2>9. L(j) = Len(x) + L(j + 1)
    BY <2>7, Zenon DEF y
  <2>10. L(0) \in Nat /\ L(j) \in Nat /\ L(j + 1) \in Nat
    BY <1>0, <2>1, Zenon
  <2> HIDE DEF L
  <2> QED
    BY <2>4, <2>8, <2>9, <2>10
<1>3. \A j \in Nat : j \in T
    BY <1>1, <1>2, SetInduction, Zenon
<1>4. k <= k /\ 0 \in 0..k /\ k \in 0..k
    OBVIOUS
<1>5. L(0) >= L(k) + k /\ L(0) \in Nat /\ L(k) \in Nat
    BY <1>0, <1>3, <1>4, <1>t, Zenon
<1>6. L(0) \in Nat /\ k <= L(0)
  <2> HIDE DEF L
  <2> QED
    BY <1>5
<1> QED
    BY <1>6, Zenon

\* However many frames a read completes, the loop of ProcessWebSocket takes all
\* of them, each as it was sent and in the order they were sent, with the
\* fragments of earlier reads in the cache; it leaves exactly the beginning of
\* the frame that has not arrived whole for the next read.
THEOREM FramesTaken ==
    ASSUME NEW k \in Nat, NEW fs \in [1..k -> Frames],
           NEW d \in [0..k -> Seq([c : {"byte"}, n : Nat])], NEW w, Chain(k, fs, d, w),
           NEW next \in Frames, NEW cut \in 0..(Len(Built(next)) - 1),
           d[k] = SubSeq(Built(next), 1, cut)
    PROVE  TakeFrames(w[0]) = w[k] /\ w[k].left = d[k]
<1> DEFINE n == Len(d[0])
<1>1. n \in Nat /\ k <= n
    BY DataLongEnough, Zenon
<1>2. w[0].left = d[0] /\ "left" \in DOMAIN w[0]
    BY Zenon DEF Chain
<1>3. PICK g : Turns(w[0], n, g) /\ TakeFrames(w[0]) = g[n]
    BY <1>1, <1>2, TakeFramesTurns, Zenon
<1> HIDE DEF n
<1>4. \A i \in 0..n : g[i] = IF i = 0 THEN w[0] ELSE TakeFrame(g[i - 1])
    BY <1>3, Zenon DEF Turns
\* After the j-th turn the first j frames are taken.
<1> DEFINE T == {j \in Nat : j <= k => g[j] = w[j] /\ w[j].left = d[j] /\ "left" \in DOMAIN w[j]}
<1>t. \A j \in Nat : j \in T <=> (j <= k => g[j] = w[j] /\ w[j].left = d[j] /\ "left" \in DOMAIN w[j])
    BY Zenon
<1> HIDE DEF T
<1>5. 0 \in T
  <2>1. 0 \in Nat /\ 0 \in 0..n
    BY <1>1
  <2> QED
    BY <1>2, <1>4, <1>t, <2>1, Zenon
<1>6. ASSUME NEW j \in Nat, j \in T PROVE j + 1 \in T
  <2>0. j + 1 \in Nat
    OBVIOUS
  <2> SUFFICES ASSUME j + 1 <= k
               PROVE  /\ g[j + 1] = w[j + 1] /\ w[j + 1].left = d[j + 1]
                      /\ "left" \in DOMAIN w[j + 1]
    BY <1>t, <2>0, Zenon
  <2>1. j <= k /\ j + 1 \in 1..k /\ j + 1 \in 0..k /\ j + 1 \in 0..n /\ (j + 1) - 1 = j /\ j + 1 # 0
    BY <1>1
  <2>2. g[j] = w[j] /\ w[j].left = d[j] /\ "left" \in DOMAIN w[j]
    BY <1>6, <1>t, <2>1, Zenon
  <2>3. g[j + 1] = TakeFrame(g[j])
    BY <1>4, <2>1, Zenon
  <2>4. d[j] = Built(fs[j + 1]) \o d[j + 1]
    BY <2>1, Zenon DEF Chain
  <2>5. w[j + 1] = HandleFrame([w[j] EXCEPT !.left = d[j + 1]], Got(fs[j + 1]))
    BY <2>1, Zenon DEF Chain
  <2>6. fs[j + 1] \in Frames /\ d[j + 1] \in Seq([c : {"byte"}, n : Nat])
    BY <2>1, Zenon
  <2>7. TakeFrame(w[j]) = HandleFrame([w[j] EXCEPT !.left = d[j + 1]], Got(fs[j + 1]))
    <3> DEFINE r == fs[j + 1]
               rest == d[j + 1]
               v == w[j]
    <3>1. r \in Frames /\ rest \in Seq([c : {"byte"}, n : Nat]) /\ v.left = Built(r) \o rest
      BY <2>2, <2>4, <2>6, Zenon
    <3> HIDE DEF r, rest, v
    <3>2. TakeFrame(v) = HandleFrame([v EXCEPT !.left = rest], Got(r))
      BY <3>1, TakeOne
    <3> QED
      BY <3>2, Zenon DEF r, rest, v
  <2>8. /\ HandleFrame([w[j] EXCEPT !.left = d[j + 1]], Got(fs[j + 1])).left = d[j + 1]
        /\ "left" \in DOMAIN HandleFrame([w[j] EXCEPT !.left = d[j + 1]], Got(fs[j + 1]))
    BY <2>2, HandleFrameLeft, Zenon
  <2> QED
    BY <2>2, <2>3, <2>5, <2>7, <2>8, Zenon
<1>7. \A j \in Nat : j \in T
    BY <1>5, <1>6, SetInduction, Zenon
<1>8. g[k] = w[k] /\ w[k].left = d[k]
  <2>1. k <= k
    OBVIOUS
  <2> QED
    BY <1>7, <1>t, <2>1, Zenon
\* From then on nothing is taken.
<1>9. TakeFrame(w[k]) = w[k]
    BY <1>8, TakeNone, Zenon
<1> DEFINE U == {j \in Nat : k + j <= n => g[k + j] = w[k]}
<1>u. \A j \in Nat : j \in U <=> (k + j <= n => g[k + j] = w[k])
    BY Zenon
<1> HIDE DEF U
<1>10. 0 \in U
  <2>1. 0 \in Nat /\ k + 0 = k
    OBVIOUS
  <2> QED
    BY <1>8, <1>u, <2>1, Zenon
<1>11. ASSUME NEW j \in Nat, j \in U PROVE j + 1 \in U
  <2>0. j + 1 \in Nat
    OBVIOUS
  <2> SUFFICES ASSUME k + (j + 1) <= n PROVE g[k + (j + 1)] = w[k]
    BY <1>u, <2>0, Zenon
  <2>1. k + j <= n /\ k + (j + 1) \in 0..n /\ k + (j + 1) # 0 /\ (k + (j + 1)) - 1 = k + j
    BY <1>1
  <2>2. g[k + j] = w[k]
    BY <1>11, <1>u, <2>1, Zenon
  <2> QED
    BY <1>4, <1>9, <2>1, <2>2, Zenon
<1>12. \A j \in Nat : j \in U
    BY <1>10, <1>11, SetInduction, Zenon
<1>13. n - k \in Nat /\ k + (n - k) <= n /\ k + (n - k) = n
    BY <1>1
<1>14. g[n] = w[k]
  <2>1. g[k + (n - k)] = w[k]
    BY <1>12, <1>u, <1>13, Zenon
  <2> QED
    BY <1>13, <2>1, Zenon
<1> QED
    BY <1>3, <1>8, <1>14, Zenon
=============================================================================
