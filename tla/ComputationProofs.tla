------------------------- MODULE ComputationProofs -------------------------
(***************************************************************************)
(* Theorems about what the firmware computes: the timeouts of SysTimeout,  *)
(* the CRC of Crc16 for every frame, the frames of ModbusFrames and the    *)
(* dates of RtcCalendar.                                                   *)
(* Recursive functions are reasoned about by induction with a set, whose   *)
(* least element outside would be a counterexample.                        *)
(***************************************************************************)
EXTENDS SysTimeout, ModbusFrames, RtcCalendar, SequenceTheorems, FiniteSetTheorems,
        WellFoundedInduction, TLAPS

Spent == Timeout - timeout_ms

\* A reload the owner has not seen yet shows as a counter above the last value.
EarlyInv == /\ Spent <= reloads
            /\ VAL > val_cnt_current => Spent + 1 <= reloads

\* Asked often enough, the counts since the last call tell whether there was one.
LateInv == timeout_ms > 0 =>
             \/ /\ VAL <= val_cnt_current /\ gap = val_cnt_current - VAL
                /\ reloads <= Spent
             \/ /\ VAL > val_cnt_current /\ gap = val_cnt_current + SYSTICK_TICKS + 1 - VAL
                /\ reloads <= Spent + 1

(***************************************************************************)
(* The variables keep their types.                                         *)
(***************************************************************************)
THEOREM TimeoutTypeCorrect == TimeoutSpec => []TimeoutTypeOK
<1> USE TimeoutAssumption
<1>1. TimeoutInit => TimeoutTypeOK
  BY DEF TimeoutInit, TimeoutTypeOK
<1>2. ASSUME TimeoutTypeOK, [TimeoutNext]_timeoutVars PROVE TimeoutTypeOK'
  <2> USE <1>2 DEF TimeoutTypeOK
  <2>1. CASE Count
    BY <2>1 DEF Count, Passes
  <2>2. CASE Reload
    BY <2>2 DEF Reload, Passes
  <2>3. CASE IsTimeout
    BY <2>3 DEF IsTimeout, CountDown
  <2>4. CASE UNCHANGED timeoutVars
    BY <2>4 DEF timeoutVars
  <2> QED BY <2>1, <2>2, <2>3, <2>4 DEF TimeoutNext
<1> QED BY <1>1, <1>2, PTL DEF TimeoutSpec

(***************************************************************************)
(* However seldom or often the owner asks, a timeout of n is not reported  *)
(* before n reloads.                                                       *)
(***************************************************************************)
THEOREM NeverEarly == TimeoutSpec => []NotEarly
<1> USE TimeoutAssumption
<1>1. TimeoutInit => EarlyInv
  BY DEF TimeoutInit, EarlyInv, Spent
<1>2. ASSUME TimeoutTypeOK, EarlyInv, [TimeoutNext]_timeoutVars PROVE EarlyInv'
  <2> USE <1>2 DEF EarlyInv, TimeoutTypeOK, Spent
  <2>1. CASE Count
    BY <2>1 DEF Count
  <2>2. CASE Reload
    BY <2>2 DEF Reload
  <2>3. CASE IsTimeout
    BY <2>3 DEF IsTimeout, CountDown
  <2>4. CASE UNCHANGED timeoutVars
    BY <2>4 DEF timeoutVars
  <2> QED BY <2>1, <2>2, <2>3, <2>4 DEF TimeoutNext
<1>3. TimeoutTypeOK /\ EarlyInv => NotEarly
  BY DEF TimeoutTypeOK, EarlyInv, NotEarly, Spent
<1> QED BY <1>1, <1>2, <1>3, TimeoutTypeCorrect, PTL DEF TimeoutSpec

(***************************************************************************)
(* An owner that asks before the counter is back at the value it last saw  *)
(* misses no reload.                                                       *)
(***************************************************************************)
THEOREM NeverLate == ASSUME MaxGap <= SYSTICK_TICKS PROVE TimeoutSpec => []NotLate
<1> USE TimeoutAssumption
<1>1. TimeoutInit => LateInv
  BY DEF TimeoutInit, LateInv, Spent
<1>2. ASSUME TimeoutTypeOK, LateInv, [TimeoutNext]_timeoutVars PROVE LateInv'
  <2> USE <1>2 DEF LateInv, TimeoutTypeOK, Spent
  <2>1. CASE Count
    BY <2>1 DEF Count, Passes
  <2>2. CASE Reload
    BY <2>2 DEF Reload, Passes
  <2>3. CASE IsTimeout
    BY <2>3 DEF IsTimeout, CountDown
  <2>4. CASE UNCHANGED timeoutVars
    BY <2>4 DEF timeoutVars
  <2> QED BY <2>1, <2>2, <2>3, <2>4 DEF TimeoutNext
<1>3. TimeoutTypeOK /\ LateInv => NotLate
  BY DEF TimeoutTypeOK, LateInv, NotLate, Spent
<1> QED BY <1>1, <1>2, <1>3, TimeoutTypeCorrect, PTL DEF TimeoutSpec

(***************************************************************************)
(* Asked within every reload period, is_timeout_ms is right for every      *)
(* reload value and every timeout.                                         *)
(***************************************************************************)
THEOREM TimeoutOnTime == ASSUME MaxGap <= SYSTICK_TICKS PROVE TimeoutSpec => []OnTime
<1>1. NotEarly /\ NotLate => OnTime
  BY DEF OnTime
<1> QED BY <1>1, NeverEarly, NeverLate, PTL

-----------------------------------------------------------------------------
(***************************************************************************)
(* Exclusive or of nibbles, bytes and words is commutative, associative,   *)
(* its own inverse, and shifts as its operands shift.                      *)
(***************************************************************************)
Nibble == 0 .. 15

XN(a, b) == XorNibble[a][b]
Bit == {0, 1}
BitOf(a, weight) == (a \div weight) % 2
Flip(x, y) == IF x # y THEN 1 ELSE 0

LEMMA FlipFacts ==
  \A x, y, z \in Bit : /\ Flip(x, y) \in Bit /\ Flip(x, y) = Flip(y, x)
                       /\ Flip(Flip(x, y), z) = Flip(x, Flip(y, z))
                       /\ Flip(x, 0) = x /\ Flip(x, x) = 0
BY DEF Flip, Bit

LEMMA BitsOfNibble ==
  ASSUME NEW a \in Nibble
  PROVE  /\ BitOf(a, 1) \in Bit /\ BitOf(a, 2) \in Bit /\ BitOf(a, 4) \in Bit /\ BitOf(a, 8) \in Bit
         /\ a = BitOf(a, 1) + 2 * BitOf(a, 2) + 4 * BitOf(a, 4) + 8 * BitOf(a, 8)
         /\ BitOf(0, 1) = 0 /\ BitOf(0, 2) = 0 /\ BitOf(0, 4) = 0 /\ BitOf(0, 8) = 0
BY DEF BitOf, Nibble, Bit

\* A nibble is known by its bits.
LEMMA SameBits ==
  ASSUME NEW a \in Nibble, NEW b \in Nibble,
         BitOf(a, 1) = BitOf(b, 1), BitOf(a, 2) = BitOf(b, 2),
         BitOf(a, 4) = BitOf(b, 4), BitOf(a, 8) = BitOf(b, 8)
  PROVE  a = b
BY BitsOfNibble

LEMMA BitsOfSum ==
  ASSUME NEW p \in Bit, NEW q \in Bit, NEW r \in Bit, NEW s \in Bit
  PROVE  LET n == p + 2 * q + 4 * r + 8 * s
         IN  /\ n \in Nibble
             /\ BitOf(n, 1) = p /\ BitOf(n, 2) = q /\ BitOf(n, 4) = r /\ BitOf(n, 8) = s
BY DEF BitOf, Nibble, Bit

LEMMA XorBits ==
  ASSUME NEW a \in Nibble, NEW b \in Nibble
  PROVE  /\ XN(a, b) \in Nibble
         /\ BitOf(XN(a, b), 1) = Flip(BitOf(a, 1), BitOf(b, 1))
         /\ BitOf(XN(a, b), 2) = Flip(BitOf(a, 2), BitOf(b, 2))
         /\ BitOf(XN(a, b), 4) = Flip(BitOf(a, 4), BitOf(b, 4))
         /\ BitOf(XN(a, b), 8) = Flip(BitOf(a, 8), BitOf(b, 8))
<1> DEFINE p == Flip(BitOf(a, 1), BitOf(b, 1))
           q == Flip(BitOf(a, 2), BitOf(b, 2))
           r == Flip(BitOf(a, 4), BitOf(b, 4))
           s == Flip(BitOf(a, 8), BitOf(b, 8))
<1>1. XN(a, b) = XorBit(a, b, 1) + XorBit(a, b, 2) + XorBit(a, b, 4) + XorBit(a, b, 8)
  BY DEF XN, XorNibble, Nibble
<1>2. /\ XorBit(a, b, 1) = p /\ XorBit(a, b, 2) = 2 * q
      /\ XorBit(a, b, 4) = 4 * r /\ XorBit(a, b, 8) = 8 * s
  BY DEF XorBit, BitOf, Flip
<1>3. p \in Bit /\ q \in Bit /\ r \in Bit /\ s \in Bit
  BY BitsOfNibble, FlipFacts
<1> HIDE DEF p, q, r, s
<1>4. XN(a, b) = p + 2 * q + 4 * r + 8 * s
  BY <1>1, <1>2
<1>5. /\ XN(a, b) \in Nibble
      /\ BitOf(XN(a, b), 1) = p /\ BitOf(XN(a, b), 2) = q
      /\ BitOf(XN(a, b), 4) = r /\ BitOf(XN(a, b), 8) = s
  BY <1>3, <1>4, BitsOfSum
<1> QED BY <1>5 DEF p, q, r, s

LEMMA XorNibbleFacts ==
  ASSUME NEW a \in Nibble, NEW b \in Nibble, NEW c \in Nibble
  PROVE  /\ XN(a, b) \in Nibble
         /\ XN(a, b) = XN(b, a)
         /\ XN(XN(a, b), c) = XN(a, XN(b, c))
         /\ XN(a, 0) = a /\ XN(a, a) = 0
<1>0. 0 \in Nibble
  BY DEF Nibble
<1>1. XN(a, b) \in Nibble /\ XN(b, a) \in Nibble /\ XN(b, c) \in Nibble /\ XN(a, 0) \in Nibble
      /\ XN(a, a) \in Nibble /\ XN(XN(a, b), c) \in Nibble /\ XN(a, XN(b, c)) \in Nibble
  BY <1>0, XorBits
<1>2. XN(a, b) = XN(b, a)
  BY <1>1, XorBits, SameBits, BitsOfNibble, FlipFacts
<1>3. XN(XN(a, b), c) = XN(a, XN(b, c))
  <2> DEFINE l == XN(XN(a, b), c)
             r == XN(a, XN(b, c))
  <2>1. BitOf(l, 1) = BitOf(r, 1)
    BY <1>1, XorBits, BitsOfNibble, FlipFacts
  <2>2. BitOf(l, 2) = BitOf(r, 2)
    BY <1>1, XorBits, BitsOfNibble, FlipFacts
  <2>3. BitOf(l, 4) = BitOf(r, 4)
    BY <1>1, XorBits, BitsOfNibble, FlipFacts
  <2>4. BitOf(l, 8) = BitOf(r, 8)
    BY <1>1, XorBits, BitsOfNibble, FlipFacts
  <2> HIDE DEF l, r
  <2>5. l \in Nibble /\ r \in Nibble
    BY <1>1 DEF l, r
  <2>6. l = r
    BY <2>1, <2>2, <2>3, <2>4, <2>5, SameBits
  <2> QED BY <2>6 DEF l, r
<1>4. XN(a, 0) = a
  BY <1>0, <1>1, XorBits, SameBits, BitsOfNibble, FlipFacts
<1>5. XN(a, a) = 0
  BY <1>0, <1>1, XorBits, SameBits, BitsOfNibble, FlipFacts
<1> QED BY <1>1, <1>2, <1>3, <1>4, <1>5

\* Halving a nibble, with the bit that comes down from above.
HalfOf(a, u) == a \div 2 + 8 * u
LEMMA HalfBits ==
  ASSUME NEW a \in Nibble, NEW u \in Bit
  PROVE  /\ HalfOf(a, u) \in Nibble /\ a % 2 = BitOf(a, 1)
         /\ BitOf(HalfOf(a, u), 1) = BitOf(a, 2) /\ BitOf(HalfOf(a, u), 2) = BitOf(a, 4)
         /\ BitOf(HalfOf(a, u), 4) = BitOf(a, 8) /\ BitOf(HalfOf(a, u), 8) = u
BY DEF HalfOf, BitOf, Nibble, Bit

LEMMA XorHalf ==
  ASSUME NEW a \in Nibble, NEW b \in Nibble, NEW u \in Bit, NEW v \in Bit
  PROVE  /\ HalfOf(a, u) \in Nibble
         /\ XN(HalfOf(a, u), HalfOf(b, v)) = HalfOf(XN(a, b), Flip(u, v))
         /\ XN(a, b) % 2 = Flip(a % 2, b % 2)
         /\ a % 2 \in Bit
<1>1. /\ HalfOf(a, u) \in Nibble /\ HalfOf(b, v) \in Nibble /\ XN(a, b) \in Nibble /\ Flip(u, v) \in Bit
  BY HalfBits, XorBits, FlipFacts
<1>2. XN(HalfOf(a, u), HalfOf(b, v)) \in Nibble /\ HalfOf(XN(a, b), Flip(u, v)) \in Nibble
  BY <1>1, HalfBits, XorBits
<1>3. XN(HalfOf(a, u), HalfOf(b, v)) = HalfOf(XN(a, b), Flip(u, v))
  BY <1>1, <1>2, HalfBits, XorBits, SameBits
<1>4. XN(a, b) % 2 = Flip(a % 2, b % 2)
  BY <1>1, HalfBits, XorBits
<1>5. a % 2 \in Bit
  BY DEF Nibble, Bit
<1> QED BY <1>1, <1>3, <1>4, <1>5

-----------------------------------------------------------------------------
\* Bytes, by nibbles.
LEMMA NibblesOfByte ==
  /\ \A a \in Byte : a \div 16 \in Nibble /\ a % 16 \in Nibble /\ a = 16 * (a \div 16) + (a % 16)
  /\ \A p, q \in Nibble : LET n == 16 * p + q
                          IN n \in Byte /\ n \div 16 = p /\ n % 16 = q
BY DEF Nibble, Byte

LEMMA Xor8Nibbles ==
  ASSUME NEW a \in Byte, NEW b \in Byte
  PROVE  /\ Xor8(a, b) \in Byte
         /\ Xor8(a, b) \div 16 = XN(a \div 16, b \div 16)
         /\ Xor8(a, b) % 16 = XN(a % 16, b % 16)
<1>1. Xor8(a, b) = 16 * XN(a \div 16, b \div 16) + XN(a % 16, b % 16)
  BY DEF Xor8, XN
<1>2. XN(a \div 16, b \div 16) \in Nibble /\ XN(a % 16, b % 16) \in Nibble
  BY NibblesOfByte, XorBits
<1> QED BY <1>1, <1>2, NibblesOfByte

LEMMA SameNibbles ==
  ASSUME NEW a \in Byte, NEW b \in Byte, a \div 16 = b \div 16, a % 16 = b % 16
  PROVE  a = b
BY NibblesOfByte

LEMMA Xor8Facts ==
  ASSUME NEW a \in Byte, NEW b \in Byte, NEW c \in Byte
  PROVE  /\ Xor8(a, b) \in Byte
         /\ Xor8(a, b) = Xor8(b, a)
         /\ Xor8(Xor8(a, b), c) = Xor8(a, Xor8(b, c))
         /\ Xor8(a, 0) = a /\ Xor8(a, a) = 0
<1>0. 0 \in Byte /\ 0 \in Nibble /\ 0 \div 16 = 0 /\ 0 % 16 = 0
  BY DEF Byte, Nibble
<1>1. /\ Xor8(a, b) \in Byte /\ Xor8(b, a) \in Byte /\ Xor8(b, c) \in Byte /\ Xor8(a, 0) \in Byte
      /\ Xor8(a, a) \in Byte /\ Xor8(Xor8(a, b), c) \in Byte /\ Xor8(a, Xor8(b, c)) \in Byte
  BY <1>0, Xor8Nibbles
<1>n. /\ a \div 16 \in Nibble /\ a % 16 \in Nibble /\ b \div 16 \in Nibble /\ b % 16 \in Nibble
      /\ c \div 16 \in Nibble /\ c % 16 \in Nibble
  BY NibblesOfByte
<1>2. Xor8(a, b) = Xor8(b, a)
  BY <1>1, <1>n, Xor8Nibbles, SameNibbles, XorNibbleFacts
<1>3. Xor8(Xor8(a, b), c) = Xor8(a, Xor8(b, c))
  <2> DEFINE l == Xor8(Xor8(a, b), c)
             r == Xor8(a, Xor8(b, c))
  <2>1. l \div 16 = r \div 16
    BY <1>1, <1>n, Xor8Nibbles, XorNibbleFacts
  <2>2. l % 16 = r % 16
    BY <1>1, <1>n, Xor8Nibbles, XorNibbleFacts
  <2> QED BY <1>1, <2>1, <2>2, SameNibbles
<1>4. Xor8(a, 0) = a
  BY <1>0, <1>1, <1>n, Xor8Nibbles, SameNibbles, XorNibbleFacts
<1>5. Xor8(a, a) = 0
  BY <1>0, <1>1, <1>n, Xor8Nibbles, SameNibbles, XorNibbleFacts
<1> QED BY <1>1, <1>2, <1>3, <1>4, <1>5

HalfOf8(a, u) == a \div 2 + 128 * u
LEMMA HalfNibbles ==
  ASSUME NEW a \in Byte, NEW u \in Bit
  PROVE  /\ HalfOf8(a, u) \in Byte /\ a % 2 = (a % 16) % 2
         /\ HalfOf8(a, u) \div 16 = HalfOf(a \div 16, u)
         /\ HalfOf8(a, u) % 16 = HalfOf(a % 16, (a \div 16) % 2)
BY DEF HalfOf8, HalfOf, Byte, Bit

LEMMA XorHalf8 ==
  ASSUME NEW a \in Byte, NEW b \in Byte, NEW u \in Bit, NEW v \in Bit
  PROVE  /\ HalfOf8(a, u) \in Byte
         /\ Xor8(HalfOf8(a, u), HalfOf8(b, v)) = HalfOf8(Xor8(a, b), Flip(u, v))
         /\ Xor8(a, b) % 2 = Flip(a % 2, b % 2)
         /\ a % 2 \in Bit
<1>n. /\ a \div 16 \in Nibble /\ a % 16 \in Nibble /\ b \div 16 \in Nibble /\ b % 16 \in Nibble
  BY NibblesOfByte
<1>1. /\ HalfOf8(a, u) \in Byte /\ HalfOf8(b, v) \in Byte /\ Xor8(a, b) \in Byte /\ Flip(u, v) \in Bit
      /\ (a \div 16) % 2 \in Bit /\ (b \div 16) % 2 \in Bit
  BY <1>n, HalfNibbles, Xor8Nibbles, FlipFacts, XorHalf
<1> DEFINE l == Xor8(HalfOf8(a, u), HalfOf8(b, v))
           r == HalfOf8(Xor8(a, b), Flip(u, v))
<1>2. l \in Byte /\ r \in Byte
  BY <1>1, HalfNibbles, Xor8Nibbles
<1>3. l \div 16 = r \div 16
  <2>1. l \div 16 = XN(HalfOf(a \div 16, u), HalfOf(b \div 16, v))
    BY <1>1, Xor8Nibbles, HalfNibbles
  <2>2. r \div 16 = HalfOf(XN(a \div 16, b \div 16), Flip(u, v))
    BY <1>1, Xor8Nibbles, HalfNibbles
  <2> QED BY <2>1, <2>2, <1>n, XorHalf
<1>4. l % 16 = r % 16
  <2>1. l % 16 = XN(HalfOf(a % 16, (a \div 16) % 2), HalfOf(b % 16, (b \div 16) % 2))
    BY <1>1, Xor8Nibbles, HalfNibbles
  <2>2. r % 16 = HalfOf(XN(a % 16, b % 16), XN(a \div 16, b \div 16) % 2)
    BY <1>1, Xor8Nibbles, HalfNibbles
  <2> QED BY <2>1, <2>2, <1>1, <1>n, XorHalf
<1>5. l = r
  <2> HIDE DEF l, r
  <2> QED BY <1>2, <1>3, <1>4, SameNibbles
<1>6. Xor8(a, b) % 2 = Flip(a % 2, b % 2)
  BY <1>1, <1>n, HalfNibbles, Xor8Nibbles, XorHalf
<1>7. a % 2 \in Bit
  BY DEF Byte, Bit
<1> QED BY <1>1, <1>5, <1>6, <1>7

-----------------------------------------------------------------------------
\* Words, by bytes.
LEMMA BytesOfWord ==
  /\ \A a \in Uint16 : a \div 256 \in Byte /\ a % 256 \in Byte /\ a = 256 * (a \div 256) + (a % 256)
  /\ \A p, q \in Byte : LET n == 256 * p + q
                        IN n \in Uint16 /\ n \div 256 = p /\ n % 256 = q
<1>1. ASSUME NEW a \in Uint16
      PROVE  a \div 256 \in Byte /\ a % 256 \in Byte /\ a = 256 * (a \div 256) + (a % 256)
  BY DEF Byte, Uint16
<1>2. ASSUME NEW p \in Byte, NEW q \in Byte
      PROVE  256 * p + q \in Uint16 /\ (256 * p + q) \div 256 = p /\ (256 * p + q) % 256 = q
  <2> DEFINE n == 256 * p + q
  <2>1. p \in 0 .. 255 /\ q \in 0 .. 255 /\ n = 256 * p + q
    BY DEF Byte
  <2> HIDE DEF n
  <2>2. n \in Uint16
    BY <2>1 DEF Uint16
  <2>3. n \div 256 \in 0 .. 255 /\ n % 256 \in 0 .. 255 /\ n = 256 * (n \div 256) + (n % 256)
    BY <2>2, <1>1 DEF Byte
  <2>4. n \div 256 = p /\ n % 256 = q
    <3> DEFINE d == n \div 256
               r == n % 256
    <3> HIDE DEF d, r
    <3>1. d \in 0 .. 255 /\ r \in 0 .. 255 /\ 256 * p + q = 256 * d + r
      BY <2>1, <2>3 DEF d, r
    <3>2. d = p /\ r = q
      BY <3>1, <2>1
    <3> QED BY <3>2 DEF d, r
  <2> QED BY <2>2, <2>4 DEF n
<1> QED BY <1>1, <1>2

LEMMA Xor16Bytes ==
  ASSUME NEW a \in Uint16, NEW b \in Uint16
  PROVE  /\ Xor16(a, b) \in Uint16
         /\ Xor16(a, b) \div 256 = Xor8(a \div 256, b \div 256)
         /\ Xor16(a, b) % 256 = Xor8(a % 256, b % 256)
<1>1. Xor8(a \div 256, b \div 256) \in Byte /\ Xor8(a % 256, b % 256) \in Byte
  BY BytesOfWord, Xor8Nibbles
<1> QED BY <1>1, BytesOfWord DEF Xor16

LEMMA SameBytes ==
  ASSUME NEW a \in Uint16, NEW b \in Uint16, a \div 256 = b \div 256, a % 256 = b % 256
  PROVE  a = b
BY BytesOfWord

LEMMA Xor16Facts ==
  ASSUME NEW a \in Uint16, NEW b \in Uint16, NEW c \in Uint16
  PROVE  /\ Xor16(a, b) \in Uint16
         /\ Xor16(a, b) = Xor16(b, a)
         /\ Xor16(Xor16(a, b), c) = Xor16(a, Xor16(b, c))
         /\ Xor16(a, 0) = a /\ Xor16(a, a) = 0
<1>0. 0 \in Uint16 /\ 0 \in Byte /\ 0 \div 256 = 0 /\ 0 % 256 = 0
  <2>1. 0 \div 256 = 0 /\ 0 % 256 = 0
    OBVIOUS
  <2> QED BY <2>1 DEF Byte, Uint16
<1>1. /\ Xor16(a, b) \in Uint16 /\ Xor16(b, a) \in Uint16 /\ Xor16(b, c) \in Uint16 /\ Xor16(a, 0) \in Uint16
      /\ Xor16(a, a) \in Uint16 /\ Xor16(Xor16(a, b), c) \in Uint16 /\ Xor16(a, Xor16(b, c)) \in Uint16
  BY <1>0, Xor16Bytes
<1>n. /\ a \div 256 \in Byte /\ a % 256 \in Byte /\ b \div 256 \in Byte /\ b % 256 \in Byte
      /\ c \div 256 \in Byte /\ c % 256 \in Byte
  BY BytesOfWord
<1>2. Xor16(a, b) = Xor16(b, a)
  BY <1>1, <1>n, Xor16Bytes, SameBytes, Xor8Facts
<1>3. Xor16(Xor16(a, b), c) = Xor16(a, Xor16(b, c))
  <2> DEFINE l == Xor16(Xor16(a, b), c)
             r == Xor16(a, Xor16(b, c))
  <2>1. l \div 256 = r \div 256
    BY <1>1, <1>n, Xor16Bytes, Xor8Facts
  <2>2. l % 256 = r % 256
    BY <1>1, <1>n, Xor16Bytes, Xor8Facts
  <2> QED BY <1>1, <2>1, <2>2, SameBytes
<1>4. Xor16(a, 0) = a
  BY <1>0, <1>1, <1>n, Xor16Bytes, SameBytes, Xor8Facts
<1>5. Xor16(a, a) = 0
  BY <1>0, <1>1, <1>n, Xor16Bytes, SameBytes, Xor8Facts
<1> QED BY <1>1, <1>2, <1>3, <1>4, <1>5

LEMMA HalfBytes ==
  ASSUME NEW a \in Uint16
  PROVE  /\ a \div 2 \in Uint16 /\ a % 2 = (a % 256) % 2
         /\ (a \div 2) \div 256 = HalfOf8(a \div 256, 0)
         /\ (a \div 2) % 256 = HalfOf8(a % 256, (a \div 256) % 2)
<1> DEFINE h == a \div 256
           l == a % 256
<1>1. h \in 0 .. 255 /\ l \in 0 .. 255 /\ a = 256 * h + l
  BY DEF Uint16
<1> HIDE DEF h, l
<1>2. a \div 2 = 128 * h + (l \div 2) /\ a % 2 = l % 2
  BY <1>1
<1>3. h = 2 * (h \div 2) + (h % 2) /\ h % 2 \in 0 .. 1 /\ h \div 2 \in 0 .. 127 /\ l \div 2 \in 0 .. 127
  BY <1>1
<1>4. a \div 2 = 256 * (h \div 2) + (l \div 2 + 128 * (h % 2))
  BY <1>2, <1>3
<1>5. a \div 2 \in Uint16
  BY DEF Uint16
<1>6. (a \div 2) \div 256 = h \div 2 /\ (a \div 2) % 256 = l \div 2 + 128 * (h % 2)
  <2>1. h \div 2 \in Byte /\ l \div 2 + 128 * (h % 2) \in Byte
    BY <1>3 DEF Byte
  <2> QED BY <2>1, <1>4, BytesOfWord
<1>7. (h \div 2) + 128 * 0 = h \div 2
  BY <1>3
<1> QED BY <1>2, <1>5, <1>6, <1>7 DEF HalfOf8, h, l

LEMMA XorHalf16 ==
  ASSUME NEW a \in Uint16, NEW b \in Uint16
  PROVE  /\ Xor16(a \div 2, b \div 2) = Xor16(a, b) \div 2
         /\ Xor16(a, b) % 2 = Flip(a % 2, b % 2)
<1>n. /\ a \div 256 \in Byte /\ a % 256 \in Byte /\ b \div 256 \in Byte /\ b % 256 \in Byte
      /\ 0 \in Bit /\ Flip(0, 0) = 0
  BY BytesOfWord DEF Flip, Bit
<1>1. /\ a \div 2 \in Uint16 /\ b \div 2 \in Uint16 /\ Xor16(a, b) \in Uint16
      /\ (a \div 256) % 2 \in Bit /\ (b \div 256) % 2 \in Bit
  BY <1>n, HalfBytes, Xor16Bytes, XorHalf8
<1> DEFINE l == Xor16(a \div 2, b \div 2)
           r == Xor16(a, b) \div 2
<1>2. l \in Uint16 /\ r \in Uint16
  BY <1>1, HalfBytes, Xor16Bytes
<1>3. l \div 256 = r \div 256
  <2>1. l \div 256 = Xor8(HalfOf8(a \div 256, 0), HalfOf8(b \div 256, 0))
    BY <1>1, Xor16Bytes, HalfBytes
  <2>2. r \div 256 = HalfOf8(Xor8(a \div 256, b \div 256), 0)
    BY <1>1, Xor16Bytes, HalfBytes
  <2>3. Xor8(HalfOf8(a \div 256, 0), HalfOf8(b \div 256, 0)) = HalfOf8(Xor8(a \div 256, b \div 256), Flip(0, 0))
    BY <1>n, XorHalf8
  <2> QED BY <2>1, <2>2, <2>3, <1>n
<1>4. l % 256 = r % 256
  <2>1. l % 256 = Xor8(HalfOf8(a % 256, (a \div 256) % 2), HalfOf8(b % 256, (b \div 256) % 2))
    BY <1>1, Xor16Bytes, HalfBytes
  <2>2. r % 256 = HalfOf8(Xor8(a % 256, b % 256), Xor8(a \div 256, b \div 256) % 2)
    BY <1>1, Xor16Bytes, HalfBytes
  <2> QED BY <2>1, <2>2, <1>1, <1>n, XorHalf8
<1>5. l = r
  <2> HIDE DEF l, r
  <2> QED BY <1>2, <1>3, <1>4, SameBytes
<1>6. Xor16(a, b) % 2 = Flip(a % 2, b % 2)
  BY <1>1, <1>n, HalfBytes, Xor16Bytes, XorHalf8
<1> QED BY <1>5, <1>6

-----------------------------------------------------------------------------
\* Induction with a set, by its least element outside.
LEMMA NatMin ==
  ASSUME NEW T, T \subseteq Nat, T # {}
  PROVE  \E x \in T : \A y \in T : x <= y
<1> DEFINE R == OpToRel(<, Nat)
<1>1. \A x, y \in Nat : <<x, y>> \in R <=> x < y
  BY DEF OpToRel
<1>2. IsWellFoundedOn(R, Nat)
  BY NatLessThanWellFounded
<1> HIDE DEF R
<1>3. PICK x \in T : \A y \in T : ~ (<<y, x>> \in R)
  BY <1>2, WFMin
<1>4. \A y \in T : ~ (y < x)
  BY <1>1, <1>3
<1>5. \A y \in T : x <= y
  <2> SUFFICES ASSUME NEW y \in T PROVE x <= y
    OBVIOUS
  <2>1. y \in Nat /\ x \in Nat /\ ~ (y < x)
    BY <1>4
  <2> QED BY <2>1
<1> QED BY <1>5

LEMMA SetInduction ==
  ASSUME NEW S, 0 \in S, \A n \in Nat : n \in S => n + 1 \in S
  PROVE  \A n \in Nat : n \in S
<1> DEFINE T == Nat \ S
<1> SUFFICES ASSUME T # {} PROVE FALSE
  OBVIOUS
<1> T \subseteq Nat
  OBVIOUS
<1>1. PICK x \in T : \A y \in T : x <= y
  <2> HIDE DEF T
  <2> QED BY NatMin
<1>2. x \in Nat /\ x # 0
  OBVIOUS
<1>3. x - 1 \in Nat /\ x - 1 \notin T
  <2>1. x - 1 \in Nat /\ ~ (x <= x - 1)
    BY <1>2
  <2> QED BY <1>1, <2>1
<1>4. (x - 1) + 1 = x
  BY <1>2
<1> QED BY <1>3, <1>4

Follows(f, a, step, n) == f[0] = a /\ \A i \in 1 .. n : f[i] = step[i][f[i - 1]]
GoTogether(f, g, n) == \A i \in 1 .. n : f[i - 1] = g[i - 1] => f[i] = g[i]

(***************************************************************************)
(* A function that is given by its first value and a step exists, and      *)
(* there is only one.                                                      *)
(***************************************************************************)
LEMMA Recursion ==
  ASSUME NEW n \in Nat, NEW V, NEW a \in V, NEW step \in [1 .. n -> [V -> V]]
  PROVE  \E f \in [0 .. n -> V] : Follows(f, a, step, n)
<1> DEFINE S == {k \in Nat : k <= n => \E f \in [0 .. k -> V] : Follows(f, a, step, k)}
<1>1. 0 \in S
  <2> DEFINE f == [i \in 0 .. 0 |-> a]
  <2>1. f \in [0 .. 0 -> V] /\ Follows(f, a, step, 0)
    BY DEF Follows
  <2> HIDE DEF f
  <2> QED BY <2>1
<1>2. ASSUME NEW k \in Nat, k \in S PROVE k + 1 \in S
  <2> SUFFICES ASSUME k + 1 <= n PROVE \E f \in [0 .. k + 1 -> V] : Follows(f, a, step, k + 1)
    OBVIOUS
  <2>1. PICK g \in [0 .. k -> V] : Follows(g, a, step, k)
    BY <1>2
  <2>2. k + 1 \in 1 .. n /\ k \in 0 .. k /\ step[k + 1] \in [V -> V] /\ g[k] \in V
    OBVIOUS
  <2> DEFINE next == step[k + 1][g[k]]
             f == [i \in 0 .. k + 1 |-> IF i = k + 1 THEN next ELSE g[i]]
  <2>3. next \in V
    BY <2>2
  <2>4. f \in [0 .. k + 1 -> V]
    BY <2>3
  <2>5. f[0] = a
    BY <2>1 DEF Follows
  <2>6. ASSUME NEW i \in 1 .. k + 1 PROVE f[i] = step[i][f[i - 1]]
    <3>1. CASE i = k + 1
      <4>1. f[i] = next /\ f[i - 1] = g[k]
        BY <3>1
      <4> QED BY <3>1, <4>1
    <3>2. CASE i # k + 1
      <4>1. i \in 1 .. k /\ f[i] = g[i] /\ f[i - 1] = g[i - 1]
        BY <3>2
      <4> QED BY <2>1, <4>1 DEF Follows
    <3> QED BY <3>1, <3>2
  <2>7. Follows(f, a, step, k + 1)
    BY <2>5, <2>6 DEF Follows
  <2> HIDE DEF f
  <2> QED BY <2>4, <2>7
<1>3. n \in S
  <2> HIDE DEF S
  <2> QED BY <1>1, <1>2, SetInduction
<1> QED BY <1>3

LEMMA RecursionUnique ==
  ASSUME NEW n \in Nat, NEW f, NEW g, f[0] = g[0], GoTogether(f, g, n)
  PROVE  f[n] = g[n]
<1> DEFINE S == {k \in Nat : k <= n => f[k] = g[k]}
<1>1. 0 \in S
  OBVIOUS
<1>2. ASSUME NEW k \in Nat, k \in S PROVE k + 1 \in S
  <2> SUFFICES ASSUME k + 1 <= n PROVE f[k + 1] = g[k + 1]
    OBVIOUS
  <2>1. k + 1 \in 1 .. n /\ (k + 1) - 1 = k /\ f[k] = g[k]
    BY <1>2
  <2> QED BY <2>1 DEF GoTogether
<1>3. n \in S
  <2> HIDE DEF S
  <2> QED BY <1>1, <1>2, SetInduction
<1> QED BY <1>3


-----------------------------------------------------------------------------
\* Shifting, and so the remainder, is linear.
LEMMA ShiftLinear ==
  ASSUME NEW a \in Uint16, NEW b \in Uint16
  PROVE  /\ Shift(a) \in Uint16
         /\ Shift(Xor16(a, b)) = Xor16(Shift(a), Shift(b))
<1> DEFINE p == \hA001
           x == a \div 2
           y == b \div 2
<1>1. x \in Uint16 /\ y \in Uint16 /\ p \in Uint16 /\ Xor16(x, y) \in Uint16 /\ Xor16(x, p) \in Uint16
  <2>1. x \in Uint16 /\ y \in Uint16
    BY HalfBytes
  <2>2. p \in Uint16
    BY DEF Uint16
  <2> HIDE DEF p, x, y
  <2> QED BY <2>1, <2>2, Xor16Facts
<1>2. /\ Xor16(a, b) \div 2 = Xor16(x, y)
      /\ Xor16(a, b) % 2 = Flip(a % 2, b % 2)
      /\ a % 2 \in {0, 1} /\ b % 2 \in {0, 1}
  <2>1. a % 2 \in {0, 1} /\ b % 2 \in {0, 1}
    BY DEF Uint16
  <2> QED BY <2>1, XorHalf16
<1> HIDE DEF p, x, y
<1>3. /\ Shift(a) = IF a % 2 = 1 THEN Xor16(x, p) ELSE x
      /\ Shift(b) = IF b % 2 = 1 THEN Xor16(y, p) ELSE y
      /\ Shift(Xor16(a, b)) = IF Flip(a % 2, b % 2) = 1 THEN Xor16(Xor16(x, y), p) ELSE Xor16(x, y)
  BY <1>2 DEF Shift, p, x, y
<1>4. Xor16(Xor16(x, p), y) = Xor16(Xor16(x, y), p) /\ Xor16(x, Xor16(y, p)) = Xor16(Xor16(x, y), p)
  BY <1>1, Xor16Facts
<1>5. Xor16(Xor16(x, p), Xor16(y, p)) = Xor16(x, y)
  <2>1. Xor16(y, p) \in Uint16 /\ Xor16(p, Xor16(y, p)) = Xor16(Xor16(y, p), p)
    BY <1>1, Xor16Facts
  <2>2. Xor16(Xor16(y, p), p) = Xor16(y, Xor16(p, p)) /\ Xor16(p, p) = 0 /\ Xor16(y, 0) = y
    BY <1>1, Xor16Facts
  <2>3. Xor16(Xor16(x, p), Xor16(y, p)) = Xor16(x, Xor16(p, Xor16(y, p)))
    BY <1>1, <2>1, Xor16Facts
  <2> QED BY <2>1, <2>2, <2>3
<1>6. Shift(a) \in Uint16
  BY <1>1, <1>3
<1>7. CASE a % 2 = 1 /\ b % 2 = 1
  BY <1>3, <1>5, <1>6, <1>7 DEF Flip
<1>8. CASE a % 2 = 1 /\ b % 2 = 0
  BY <1>3, <1>4, <1>6, <1>8 DEF Flip
<1>9. CASE a % 2 = 0 /\ b % 2 = 1
  BY <1>3, <1>4, <1>6, <1>9 DEF Flip
<1>10. CASE a % 2 = 0 /\ b % 2 = 0
  BY <1>3, <1>6, <1>10 DEF Flip
<1> QED BY <1>2, <1>7, <1>8, <1>9, <1>10

LEMMA RemainderLinear ==
  ASSUME NEW a \in Uint16, NEW b \in Uint16
  PROVE  /\ Remainder(a) \in Uint16
         /\ Remainder(Xor16(a, b)) = Xor16(Remainder(a), Remainder(b))
<1>1. \A x, y \in Uint16 : Shift2(x) \in Uint16 /\ Shift2(Xor16(x, y)) = Xor16(Shift2(x), Shift2(y))
  BY ShiftLinear DEF Shift2
<1>2. \A x, y \in Uint16 : Shift4(x) \in Uint16 /\ Shift4(Xor16(x, y)) = Xor16(Shift4(x), Shift4(y))
  BY <1>1 DEF Shift4
<1> QED BY <1>2 DEF Remainder

\* A high byte comes down without meeting the polynomial.
LEMMA RemainderHigh == \A h \in Byte : 256 * h \in Uint16 /\ Remainder(256 * h) = h
<1> SUFFICES ASSUME NEW h \in Byte PROVE 256 * h \in Uint16 /\ Remainder(256 * h) = h
  OBVIOUS
<1>1. h \in 0 .. 255
  BY DEF Byte
<1>2. \A k \in Nat : Shift(2 * k) = k
  <2> SUFFICES ASSUME NEW k \in Nat PROVE Shift(2 * k) = k
    OBVIOUS
  <2>1. (2 * k) % 2 = 0 /\ (2 * k) \div 2 = k
    OBVIOUS
  <2> QED BY <2>1 DEF Shift
<1>3. \A k \in Nat : Shift2(4 * k) = k
  <2> SUFFICES ASSUME NEW k \in Nat PROVE Shift2(4 * k) = k
    OBVIOUS
  <2>1. 2 * k \in Nat /\ 4 * k = 2 * (2 * k)
    OBVIOUS
  <2> QED BY <2>1, <1>2 DEF Shift2
<1>4. \A k \in Nat : Shift4(16 * k) = k
  <2> SUFFICES ASSUME NEW k \in Nat PROVE Shift4(16 * k) = k
    OBVIOUS
  <2>1. 4 * k \in Nat /\ 16 * k = 4 * (4 * k)
    OBVIOUS
  <2> QED BY <2>1, <1>3 DEF Shift4
<1>5. 16 * h \in Nat /\ 256 * h = 16 * (16 * h) /\ h \in Nat
  BY <1>1
<1>6. Remainder(256 * h) = h
  BY <1>4, <1>5 DEF Remainder
<1> QED BY <1>1, <1>6 DEF Uint16

LEMMA ByteIsWord == \A b \in Byte : b \in Uint16 /\ b \div 256 = 0 /\ b % 256 = b
<1> SUFFICES ASSUME NEW b \in Byte PROVE b \in Uint16 /\ b \div 256 = 0 /\ b % 256 = b
  OBVIOUS
<1>1. 0 \in Byte /\ 256 * 0 + b = b
  BY DEF Byte
<1> QED BY <1>1, BytesOfWord

(***************************************************************************)
(* The step of the table is the step of the polynomial.                    *)
(***************************************************************************)
LEMMA ByteStep ==
  ASSUME NEW crc \in Uint16, NEW byte \in Byte
  PROVE  /\ CrcByte(crc, byte) = Remainder(Xor16(crc, byte))
         /\ CrcByte(crc, byte) \in Uint16
<1> DEFINE h == crc \div 256
           l == crc % 256
           m == Xor8(byte, l)
<1>1. h \in Byte /\ l \in Byte /\ m \in Byte /\ 0 \in Byte
  <2>1. h \in Byte /\ l \in Byte
    BY BytesOfWord
  <2>2. 0 \in Byte
    BY DEF Byte
  <2> QED BY <2>1, <2>2, Xor8Facts
<1>2. byte \in Uint16 /\ byte \div 256 = 0 /\ byte % 256 = byte
  BY ByteIsWord
<1>3. Xor16(crc, byte) = 256 * h + m
  <2>1. Xor8(h, 0) = h /\ Xor8(l, byte) = m
    BY <1>1, Xor8Facts
  <2> QED BY <1>2, <2>1 DEF Xor16
<1>4. 256 * h + m = Xor16(256 * h, m) /\ m \in Uint16 /\ 256 * h \in Uint16
  <2> HIDE DEF h, m
  <2>1. 256 * h + 0 \in Uint16 /\ (256 * h + 0) \div 256 = h /\ (256 * h + 0) % 256 = 0
    BY <1>1, BytesOfWord
  <2>2. 256 * h + 0 = 256 * h
    BY <1>1 DEF Byte
  <2>3. m \in Uint16 /\ m \div 256 = 0 /\ m % 256 = m
    BY <1>1, ByteIsWord
  <2>4. Xor8(h, 0) = h /\ Xor8(0, m) = m
    BY <1>1, Xor8Facts
  <2> QED BY <2>1, <2>2, <2>3, <2>4 DEF Xor16
<1>5. Remainder(m) = crc16_table[m + 1] /\ Remainder(256 * h) = h
  <2> HIDE DEF h, m
  <2> QED BY <1>1, TableAssumption, RemainderHigh DEF Byte
<1>6. Remainder(Xor16(crc, byte)) = Xor16(h, crc16_table[m + 1])
  <2> HIDE DEF h, m
  <2> QED BY <1>3, <1>4, <1>5, RemainderLinear
<1>7. CrcByte(crc, byte) = Xor16(h, crc16_table[m + 1])
  BY DEF CrcByte
<1>8. Xor16(crc, byte) \in Uint16
  BY <1>2, Xor16Facts
<1> QED BY <1>6, <1>7, <1>8, RemainderLinear

LEMMA CrcSteps ==
  ASSUME NEW data \in Seq(Byte)
  PROVE  \E f \in [0 .. Len(data) -> Uint16] :
            /\ f[0] = \hFFFF
            /\ \A i \in 1 .. Len(data) : f[i] = CrcByte(f[i - 1], data[i])
<1> DEFINE step == [i \in 1 .. Len(data) |-> [p \in Uint16 |-> CrcByte(p, data[i])]]
<1>1. Len(data) \in Nat /\ \hFFFF \in Uint16
  BY DEF Uint16
<1>2. \A i \in 1 .. Len(data) : data[i] \in Byte
  OBVIOUS
<1>3. step \in [1 .. Len(data) -> [Uint16 -> Uint16]]
  BY <1>2, ByteStep
<1>4. \A i \in 1 .. Len(data), p \in Uint16 : step[i][p] = CrcByte(p, data[i])
  OBVIOUS
<1> HIDE DEF step
<1>5. PICK f \in [0 .. Len(data) -> Uint16] :
        f[0] = \hFFFF /\ \A i \in 1 .. Len(data) : f[i] = step[i][f[i - 1]]
  <2> DEFINE n == Len(data)
             start == \hFFFF
  <2>1. n \in Nat /\ start \in Uint16 /\ step \in [1 .. n -> [Uint16 -> Uint16]]
    BY <1>1, <1>3
  <2> HIDE DEF n, start
  <2>2. \E f \in [0 .. n -> Uint16] : Follows(f, start, step, n)
    BY <2>1, Recursion
  <2> QED BY <2>2 DEF n, start, Follows
<1>6. ASSUME NEW i \in 1 .. Len(data) PROVE f[i] = CrcByte(f[i - 1], data[i])
  <2>1. i - 1 \in 0 .. Len(data)
    BY <1>1
  <2> QED BY <1>4, <1>5, <2>1
<1> QED BY <1>5, <1>6

LEMMA TableCrc ==
  ASSUME NEW data \in Seq(Byte), NEW f \in [0 .. Len(data) -> Uint16], f[0] = \hFFFF,
         \A i \in 1 .. Len(data) : f[i] = CrcByte(f[i - 1], data[i])
  PROVE  crc16(data) = f[Len(data)]
<1> DEFINE E(g, i) == IF i = 0 THEN \hFFFF
                      ELSE CHOOSE c \in {CrcByte(p, data[i]) : p \in {g[i - 1]}} : TRUE
           crc == CHOOSE g : g = [i \in 0 .. Len(data) |-> E(g, i)]
<1>1. crc16(data) = crc[Len(data)] /\ Len(data) \in Nat
  BY DEF crc16
<1>2. \A g : E(g, 0) = \hFFFF
  OBVIOUS
<1>3. \A g, i : i # 0 => E(g, i) = CrcByte(g[i - 1], data[i])
  OBVIOUS
<1> HIDE DEF E
<1>4. ASSUME NEW i \in 0 .. Len(data) PROVE f[i] = E(f, i)
  <2>1. CASE i = 0
    BY <2>1, <1>2
  <2>2. CASE i # 0
    <3>1. i \in 1 .. Len(data)
      BY <1>1, <2>2
    <3> QED BY <3>1, <2>2, <1>3
  <2> QED BY <2>1, <2>2
<1>5. f = [i \in 0 .. Len(data) |-> E(f, i)]
  BY <1>4
<1>6. crc = [i \in 0 .. Len(data) |-> E(crc, i)]
  BY ONLY <1>5
<1> HIDE DEF crc
<1>7. crc[0] = f[0]
  BY <1>1, <1>2, <1>6
<1>8. ASSUME NEW i \in 1 .. Len(data), crc[i - 1] = f[i - 1] PROVE crc[i] = f[i]
  <2>1. i \in 0 .. Len(data) /\ i # 0
    BY <1>1
  <2>2. crc[i] = E(crc, i)
    BY <1>6, <2>1
  <2> QED BY <1>3, <1>8, <2>1, <2>2
<1>9. crc[Len(data)] = f[Len(data)]
  <2> DEFINE n == Len(data)
  <2>1. n \in Nat /\ GoTogether(crc, f, n)
    BY <1>1, <1>8 DEF GoTogether
  <2> HIDE DEF n
  <2>2. crc[n] = f[n]
    BY <2>1, <1>7, RecursionUnique
  <2> QED BY <2>2 DEF n
<1> QED BY <1>1, <1>9

LEMMA DividedCrc ==
  ASSUME NEW data \in Seq(Byte), NEW f \in [0 .. Len(data) -> Uint16], f[0] = \hFFFF,
         \A i \in 1 .. Len(data) : f[i] = Remainder(Xor16(f[i - 1], data[i]))
  PROVE  PolynomialCrc(data) = f[Len(data)]
<1> DEFINE E(g, i) == IF i = 0 THEN \hFFFF
                      ELSE CHOOSE c \in {Remainder(Xor16(p, data[i])) : p \in {g[i - 1]}} : TRUE
           crc == CHOOSE g : g = [i \in 0 .. Len(data) |-> E(g, i)]
<1>1. PolynomialCrc(data) = crc[Len(data)] /\ Len(data) \in Nat
  BY DEF PolynomialCrc
<1>2. \A g : E(g, 0) = \hFFFF
  OBVIOUS
<1>3. \A g, i : i # 0 => E(g, i) = Remainder(Xor16(g[i - 1], data[i]))
  OBVIOUS
<1> HIDE DEF E
<1>4. ASSUME NEW i \in 0 .. Len(data) PROVE f[i] = E(f, i)
  <2>1. CASE i = 0
    BY <2>1, <1>2
  <2>2. CASE i # 0
    <3>1. i \in 1 .. Len(data)
      BY <1>1, <2>2
    <3> QED BY <3>1, <2>2, <1>3
  <2> QED BY <2>1, <2>2
<1>5. f = [i \in 0 .. Len(data) |-> E(f, i)]
  BY <1>4
<1>6. crc = [i \in 0 .. Len(data) |-> E(crc, i)]
  BY ONLY <1>5
<1> HIDE DEF crc
<1>7. crc[0] = f[0]
  BY <1>1, <1>2, <1>6
<1>8. ASSUME NEW i \in 1 .. Len(data), crc[i - 1] = f[i - 1] PROVE crc[i] = f[i]
  <2>1. i \in 0 .. Len(data) /\ i # 0
    BY <1>1
  <2>2. crc[i] = E(crc, i)
    BY <1>6, <2>1
  <2> QED BY <1>3, <1>8, <2>1, <2>2
<1>9. crc[Len(data)] = f[Len(data)]
  <2> DEFINE n == Len(data)
  <2>1. n \in Nat /\ GoTogether(crc, f, n)
    BY <1>1, <1>8 DEF GoTogether
  <2> HIDE DEF n
  <2>2. crc[n] = f[n]
    BY <2>1, <1>7, RecursionUnique
  <2> QED BY <2>2 DEF n
<1> QED BY <1>1, <1>9

(***************************************************************************)
(* The table of crc.c computes the CRC of the Modbus standard, whatever    *)
(* the frame and however long it is: crc16_initial (crc.c:40) divides by   *)
(* the polynomial A001 one byte at a time.                                 *)
(***************************************************************************)
THEOREM TableDivides ==
  /\ \A data \in Seq(Byte) : crc16(data) = PolynomialCrc(data)
  /\ \A data \in Seq(Byte) : crc16(data) \in Uint16
<1> SUFFICES ASSUME NEW data \in Seq(Byte)
             PROVE  crc16(data) = PolynomialCrc(data) /\ crc16(data) \in Uint16
  OBVIOUS
<1>1. PICK f \in [0 .. Len(data) -> Uint16] :
        /\ f[0] = \hFFFF
        /\ \A i \in 1 .. Len(data) : f[i] = CrcByte(f[i - 1], data[i])
  BY CrcSteps
<1>2. ASSUME NEW i \in 1 .. Len(data) PROVE f[i] = Remainder(Xor16(f[i - 1], data[i]))
  <2>1. f[i - 1] \in Uint16 /\ data[i] \in Byte
    OBVIOUS
  <2> QED BY <1>1, <2>1, ByteStep
<1>3. crc16(data) = f[Len(data)]
  BY <1>1, TableCrc
<1>4. PolynomialCrc(data) = f[Len(data)]
  BY <1>1, <1>2, DividedCrc
<1> QED BY <1>3, <1>4

-----------------------------------------------------------------------------
(***************************************************************************)
(* Frames that differ in one byte have different CRCs.                     *)
(***************************************************************************)
LEMMA XorCancels ==
  ASSUME NEW a \in Uint16, NEW b \in Uint16, Xor16(a, b) = 0
  PROVE  a = b
<1>1. 0 \in Uint16
  BY DEF Uint16
<1>2. Xor16(a, Xor16(b, b)) = a
  BY Xor16Facts
<1>3. Xor16(Xor16(a, b), b) = b
  BY <1>1, Xor16Facts
<1> QED BY <1>2, <1>3, Xor16Facts

LEMMA XorKeepsApart ==
  ASSUME NEW a \in Uint16, NEW b \in Uint16, NEW c \in Uint16, Xor16(a, c) = Xor16(b, c)
  PROVE  a = b
<1>1. Xor16(Xor16(a, c), c) = a /\ Xor16(Xor16(b, c), c) = b
  BY Xor16Facts
<1> QED BY <1>1

LEMMA Halves ==
  /\ \A a \in Nat : a < 65536 => a \div 2 \in Nat /\ a \div 2 < 32768
  /\ \A a \in Nat : a = 2 * (a \div 2) + (a % 2)
  /\ \A a \in Nat : a % 2 \in {0, 1}
<1>1. \A a \in Nat : a < 65536 => a \div 2 \in Nat /\ a \div 2 < 32768
  OBVIOUS
<1>2. \A a \in Nat : a = 2 * (a \div 2) + (a % 2)
  OBVIOUS
<1>3. \A a \in Nat : a % 2 \in {0, 1}
  OBVIOUS
<1> QED BY <1>1, <1>2, <1>3

LEMMA ShiftOfNothing ==
  ASSUME NEW a \in Uint16, Shift(a) = 0
  PROVE  a = 0
<1> DEFINE x == a \div 2
           y == a % 2
           poly == \hA001
<1>1. a \in Nat /\ a < 65536
  BY DEF Uint16
<1>2. x \in Nat /\ x < 32768
  BY <1>1, Halves
<1>3. a = 2 * x + y
  BY ONLY <1>1, Halves
<1>4. y \in {0, 1}
  BY ONLY <1>1, Halves
<1>5. Shift(a) = IF y = 1 THEN Xor16(x, poly) ELSE x
  BY DEF Shift
<1>6. poly \in Nat /\ poly > 32768 /\ poly < 65536
  OBVIOUS
<1> HIDE DEF x, y, poly
<1>7. x \in Uint16 /\ poly \in Uint16
  BY <1>2, <1>6 DEF Uint16
<1>8. CASE y = 1
  <2>1. x = poly
    BY <1>5, <1>7, <1>8, XorCancels
  <2> QED BY <1>2, <1>6, <2>1
<1>9. CASE y = 0
  <2>1. x = 0
    BY <1>5, <1>9
  <2> QED BY <1>3, <1>9, <2>1
<1> QED BY <1>4, <1>8, <1>9

LEMMA RemainderOfNothing ==
  ASSUME NEW a \in Uint16, Remainder(a) = 0
  PROVE  a = 0
<1>1. \A x \in Uint16 : Shift(x) \in Uint16 /\ (Shift(x) = 0 => x = 0)
  BY ShiftLinear, ShiftOfNothing
<1>2. \A x \in Uint16 : Shift2(x) \in Uint16 /\ (Shift2(x) = 0 => x = 0)
  BY <1>1 DEF Shift2
<1>3. \A x \in Uint16 : Shift4(x) \in Uint16 /\ (Shift4(x) = 0 => x = 0)
  BY <1>2 DEF Shift4
<1> QED BY <1>3 DEF Remainder

LEMMA RemainderKeepsApart ==
  ASSUME NEW a \in Uint16, NEW b \in Uint16, Remainder(a) = Remainder(b)
  PROVE  a = b
<1>1. Remainder(a) \in Uint16 /\ Xor16(a, b) \in Uint16
  BY RemainderLinear, Xor16Facts
<1>2. Remainder(Xor16(a, b)) = Xor16(Remainder(a), Remainder(b))
  BY RemainderLinear
<1>3. Xor16(Remainder(a), Remainder(a)) = 0
  BY <1>1, Xor16Facts
<1>4. Xor16(a, b) = 0
  BY <1>1, <1>2, <1>3, RemainderOfNothing
<1> QED BY <1>4, XorCancels

\* One step of the CRC keeps apart what differs in one of its arguments.
LEMMA StepKeepsApart ==
  /\ \A c, d \in Uint16, x \in Byte : CrcByte(c, x) = CrcByte(d, x) => c = d
  /\ \A c \in Uint16, x, y \in Byte : CrcByte(c, x) = CrcByte(c, y) => x = y
<1>1. ASSUME NEW c \in Uint16, NEW d \in Uint16, NEW x \in Byte, CrcByte(c, x) = CrcByte(d, x)
      PROVE  c = d
  <2>1. x \in Uint16
    BY ByteIsWord
  <2>2. Xor16(c, x) \in Uint16 /\ Xor16(d, x) \in Uint16
    BY <2>1, Xor16Facts
  <2>3. Remainder(Xor16(c, x)) = Remainder(Xor16(d, x))
    BY <1>1, ByteStep
  <2>4. Xor16(c, x) = Xor16(d, x)
    BY <2>2, <2>3, RemainderKeepsApart
  <2> QED BY <2>1, <2>4, XorKeepsApart
<1>2. ASSUME NEW c \in Uint16, NEW x \in Byte, NEW y \in Byte, CrcByte(c, x) = CrcByte(c, y)
      PROVE  x = y
  <2>1. x \in Uint16 /\ y \in Uint16
    BY ByteIsWord
  <2>2. Xor16(c, x) \in Uint16 /\ Xor16(c, y) \in Uint16
    BY <2>1, Xor16Facts
  <2>3. Remainder(Xor16(c, x)) = Remainder(Xor16(c, y))
    BY <1>2, ByteStep
  <2>4. Xor16(c, x) = Xor16(c, y)
    BY <2>2, <2>3, RemainderKeepsApart
  <2>5. Xor16(x, c) = Xor16(y, c)
    BY <2>1, <2>4, Xor16Facts
  <2> QED BY <2>1, <2>5, XorKeepsApart
<1> QED BY <1>1, <1>2

IsRun(f, data) == /\ f \in [0 .. Len(data) -> Uint16] /\ f[0] = \hFFFF
                  /\ \A i \in 1 .. Len(data) : f[i] = CrcByte(f[i - 1], data[i])
LEMMA Runs ==
  ASSUME NEW data \in Seq(Byte)
  PROVE  \E f : IsRun(f, data) /\ crc16(data) = f[Len(data)]
<1>1. PICK f \in [0 .. Len(data) -> Uint16] :
        f[0] = \hFFFF /\ \A i \in 1 .. Len(data) : f[i] = CrcByte(f[i - 1], data[i])
  BY CrcSteps
<1>2. crc16(data) = f[Len(data)]
  BY <1>1, TableCrc
<1>3. IsRun(f, data)
  BY <1>1 DEF IsRun
<1> QED BY <1>2, <1>3

LEMMA CrcsDiffer ==
  ASSUME NEW p \in Seq(Byte), NEW q \in Seq(Byte), Len(p) = Len(q), NEW k \in 1 .. Len(p),
         p[k] # q[k], \A i \in 1 .. Len(p) : i # k => p[i] = q[i]
  PROVE  crc16(p) # crc16(q)
<1> DEFINE n == Len(p)
<1>1. PICK f : IsRun(f, p) /\ crc16(p) = f[Len(p)]
  BY Runs
<1>2. PICK g : IsRun(g, q) /\ crc16(q) = g[Len(q)]
  BY Runs
<1>3. crc16(p) = f[n] /\ crc16(q) = g[n]
  BY <1>1, <1>2
<1>4. n \in Nat /\ k \in 1 .. n
  OBVIOUS
<1>5. /\ f \in [0 .. n -> Uint16] /\ g \in [0 .. n -> Uint16] /\ f[0] = g[0]
      /\ \A i \in 1 .. n : f[i] = CrcByte(f[i - 1], p[i])
      /\ \A i \in 1 .. n : g[i] = CrcByte(g[i - 1], q[i])
  BY <1>1, <1>2 DEF IsRun
<1>6. /\ \A i \in 1 .. n : p[i] \in Byte /\ q[i] \in Byte
      /\ \A i \in 1 .. n : i # k => p[i] = q[i]
  BY ElementOfSeq
<1> HIDE DEF n
<1>7. \A i \in 1 .. n : i - 1 \in 0 .. n /\ f[i - 1] \in Uint16 /\ g[i - 1] \in Uint16
  BY <1>4, <1>5
<1>8. f[k - 1] = g[k - 1]
  <2> DEFINE m == k - 1
  <2>1. m \in Nat /\ \A i \in 1 .. m : i \in 1 .. n /\ i # k
    BY <1>4
  <2>2. \A i \in 1 .. m : f[i - 1] = g[i - 1] => f[i] = g[i]
    BY <1>5, <1>6, <2>1
  <2> HIDE DEF m
  <2>3. GoTogether(f, g, m)
    BY <2>2 DEF GoTogether
  <2>4. f[m] = g[m]
    BY <1>5, <2>1, <2>3, RecursionUnique
  <2> QED BY <2>4 DEF m
<1>9. f[k] # g[k]
  <2>1. f[k] = CrcByte(f[k - 1], p[k]) /\ g[k] = CrcByte(f[k - 1], q[k])
    BY <1>4, <1>5, <1>8
  <2>2. f[k - 1] \in Uint16 /\ p[k] \in Byte /\ q[k] \in Byte
    BY <1>4, <1>6, <1>7
  <2> QED BY <2>1, <2>2, StepKeepsApart
<1> DEFINE S == {j \in Nat : k + j <= n => f[k + j] # g[k + j]}
<1>10. 0 \in S
  BY <1>4, <1>9
<1>11. ASSUME NEW j \in Nat, j \in S PROVE j + 1 \in S
  <2> SUFFICES ASSUME k + (j + 1) <= n PROVE f[k + (j + 1)] # g[k + (j + 1)]
    OBVIOUS
  <2> DEFINE i == k + (j + 1)
  <2>1. i \in 1 .. n /\ i # k /\ i - 1 = k + j /\ k + j <= n
    BY <1>4
  <2>2. f[i - 1] # g[i - 1]
    BY <1>11, <2>1
  <2> HIDE DEF i, S
  <2>3. f[i] = CrcByte(f[i - 1], p[i]) /\ g[i] = CrcByte(g[i - 1], p[i])
    BY <1>5, <1>6, <2>1
  <2>4. f[i - 1] \in Uint16 /\ g[i - 1] \in Uint16 /\ p[i] \in Byte
    BY <1>6, <1>7, <2>1
  <2>5. f[i] # g[i]
    BY <2>2, <2>3, <2>4, StepKeepsApart
  <2> QED BY <2>5 DEF i
<1>12. \A j \in Nat : j \in S
  <2> HIDE DEF S
  <2> QED BY <1>10, <1>11, SetInduction
<1>13. f[n] # g[n]
  <2> DEFINE j == n - k
  <2>1. j \in Nat /\ k + j = n /\ k + j <= n
    BY <1>4
  <2> HIDE DEF j
  <2>2. k + j <= n => f[k + j] # g[k + j]
    BY <1>12, <2>1
  <2> QED BY <2>1, <2>2
<1> QED BY <1>3, <1>13

-----------------------------------------------------------------------------
(***************************************************************************)
(* Sequences, as the frames use them.                                      *)
(***************************************************************************)
LEMMA Tuples ==
  \A S : \A p, q, r \in S :
    /\ <<p>> \in Seq(S) /\ Len(<<p>>) = 1 /\ <<p>>[1] = p
    /\ <<p, q>> \in Seq(S) /\ Len(<<p, q>>) = 2 /\ <<p, q>>[1] = p /\ <<p, q>>[2] = q
    /\ <<p, q, r>> \in Seq(S) /\ Len(<<p, q, r>>) = 3 /\ <<p, q, r>>[1] = p
    /\ <<p, q, r>>[2] = q /\ <<p, q, r>>[3] = r
OBVIOUS

IsJoin(j, s, t) == /\ Len(j) = Len(s) + Len(t)
                   /\ \A i \in 1 .. Len(s) : j[i] = s[i]
                   /\ \A i \in 1 .. Len(t) : j[Len(s) + i] = t[i]
LEMMA Joined ==
  ASSUME NEW S, NEW s \in Seq(S), NEW t \in Seq(S)
  PROVE  s \o t \in Seq(S) /\ IsJoin(s \o t, s, t)
BY ConcatProperties DEF IsJoin

LEMMA JoinOfTwoAndTwo ==
  ASSUME NEW j, NEW s, NEW t, IsJoin(j, s, t), Len(s) = 2, Len(t) = 2
  PROVE  Len(j) = 4 /\ j[1] = s[1] /\ j[2] = s[2] /\ j[3] = t[1] /\ j[4] = t[2]
<1>1. 1 \in 1 .. 2 /\ 2 \in 1 .. 2 /\ 2 + 1 = 3 /\ 2 + 2 = 4
  OBVIOUS
<1> QED BY <1>1 DEF IsJoin

LEMMA JoinOfFourAndTwo ==
  ASSUME NEW j, NEW s, NEW t, IsJoin(j, s, t), Len(s) = 4, Len(t) = 2
  PROVE  /\ Len(j) = 6 /\ j[1] = s[1] /\ j[2] = s[2] /\ j[3] = s[3] /\ j[4] = s[4]
         /\ j[5] = t[1] /\ j[6] = t[2]
BY DEF IsJoin

LEMMA BEFacts ==
  ASSUME NEW n \in Uint16
  PROVE  BE(n) \in Seq(Byte) /\ Len(BE(n)) = 2 /\ BE(n)[1] = n \div 256 /\ BE(n)[2] = n % 256
BY BytesOfWord, Tuples DEF BE

LEMMA AskFacts ==
  ASSUME NEW a \in AskType
  PROVE  /\ a.address \in Byte /\ a.function \in Byte /\ a.memory \in Uint16 /\ a.n \in Uint16
         /\ a.wmemory \in Uint16 /\ a.nwrite \in Uint16 /\ a.function \in 0 .. 127
BY DEF AskType, Byte

LEMMA FieldsFacts ==
  ASSUME NEW a \in AskType, NEW n \in Uint16
  PROVE  LET f == Fields(a, n)
         IN  /\ f \in Seq(Byte) /\ Len(f) = 6
             /\ f[1] = a.address /\ f[2] = a.function
             /\ f[3] = a.memory \div 256 /\ f[4] = a.memory % 256
             /\ f[5] = n \div 256 /\ f[6] = n % 256
<1> DEFINE h == <<a.address, a.function>>
           m == BE(a.memory)
           e == BE(n)
           g == h \o m
<1>1. h \in Seq(Byte) /\ Len(h) = 2 /\ h[1] = a.address /\ h[2] = a.function
  BY AskFacts, Tuples
<1>2. m \in Seq(Byte) /\ Len(m) = 2 /\ m[1] = a.memory \div 256 /\ m[2] = a.memory % 256
  BY AskFacts, BEFacts
<1>3. e \in Seq(Byte) /\ Len(e) = 2 /\ e[1] = n \div 256 /\ e[2] = n % 256
  BY BEFacts
<1>4. Fields(a, n) = g \o e
  BY DEF Fields
<1> HIDE DEF h, m, e
<1>5. g \in Seq(Byte) /\ IsJoin(g, h, m)
  BY <1>1, <1>2, Joined
<1> HIDE DEF g
<1>6. Len(g) = 4 /\ g[1] = h[1] /\ g[2] = h[2] /\ g[3] = m[1] /\ g[4] = m[2]
  BY <1>1, <1>2, <1>5, JoinOfTwoAndTwo
<1> DEFINE f == g \o e
<1>7. f \in Seq(Byte) /\ IsJoin(f, g, e)
  BY <1>3, <1>5, Joined
<1> HIDE DEF f
<1>8. /\ Len(f) = 6 /\ f[1] = g[1] /\ f[2] = g[2] /\ f[3] = g[3] /\ f[4] = g[4]
      /\ f[5] = e[1] /\ f[6] = e[2]
  BY <1>3, <1>6, <1>7, JoinOfFourAndTwo
<1>9. /\ f \in Seq(Byte) /\ Len(f) = 6
      /\ f[1] = a.address /\ f[2] = a.function
      /\ f[3] = a.memory \div 256 /\ f[4] = a.memory % 256
      /\ f[5] = n \div 256 /\ f[6] = n % 256
  BY <1>1, <1>2, <1>3, <1>6, <1>7, <1>8
<1> QED BY <1>4, <1>9 DEF f

(***************************************************************************)
(* A frame with its CRC is the standard's, and CrcOf recognises it.        *)
(***************************************************************************)
LEMMA WithCrcFacts ==
  ASSUME NEW bytes \in Seq(Byte)
  PROVE  /\ WithCrc(bytes) \in Seq(Byte) /\ Len(WithCrc(bytes)) = Len(bytes) + 2
         /\ \A i \in 1 .. Len(bytes) : WithCrc(bytes)[i] = bytes[i]
         /\ WithCrc(bytes) = StandardCrc(bytes)
<1> DEFINE crc == crc16(bytes)
           end == <<crc % 256, crc \div 256>>
           w == bytes \o end
<1>1. crc \in Uint16 /\ crc = PolynomialCrc(bytes)
  BY TableDivides
<1>2. end \in Seq(Byte) /\ Len(end) = 2
  BY <1>1, BytesOfWord, Tuples
<1>3. WithCrc(bytes) = w /\ StandardCrc(bytes) = w
  BY <1>1 DEF WithCrc, StandardCrc
<1> HIDE DEF end
<1>4. w \in Seq(Byte) /\ IsJoin(w, bytes, end)
  BY <1>2, Joined
<1> HIDE DEF w
<1>5. Len(w) = Len(bytes) + 2 /\ \A i \in 1 .. Len(bytes) : w[i] = bytes[i]
  BY <1>2, <1>4 DEF IsJoin
<1> QED BY <1>3, <1>4, <1>5

LEMMA FirstFacts ==
  ASSUME NEW S, NEW s \in Seq(S), NEW n \in Nat, n <= Len(s)
  PROVE  /\ First(n, s) \in Seq(S) /\ Len(First(n, s)) = n
         /\ \A i \in 1 .. n : First(n, s)[i] = s[i]
BY SubSeqProperties DEF First

Starts(b, s) == Len(b) >= Len(s) /\ \A i \in 1 .. Len(s) : b[i] = s[i]

LEMMA FirstOfStart ==
  ASSUME NEW S, NEW b \in Seq(S), NEW s \in Seq(S), Starts(b, s)
  PROVE  First(Len(s), b) = s
<1> DEFINE n == Len(s)
           f == First(n, b)
<1>1. n \in Nat /\ n <= Len(b) /\ \A i \in 1 .. n : b[i] = s[i]
  BY DEF Starts
<1> HIDE DEF n
<1>2. f \in Seq(S) /\ Len(f) = n /\ \A i \in 1 .. n : f[i] = b[i]
  BY <1>1, FirstFacts
<1> HIDE DEF f
<1>3. \A i \in 1 .. n : f[i] = s[i]
  BY <1>1, <1>2
<1>4. f = s
  BY <1>2, <1>3, SeqEqual DEF n
<1> QED BY <1>4 DEF f, n

LEMMA CrcOfStart ==
  ASSUME NEW p \in Seq(Byte), NEW b \in Seq(Byte), Starts(b, WithCrc(p))
  PROVE  CrcOf(b, Len(p)) /\ Starts(b, p)
<1> DEFINE n == Len(p)
           w == WithCrc(p)
<1>1. /\ n \in Nat /\ w \in Seq(Byte) /\ Len(w) = n + 2 /\ \A i \in 1 .. n : w[i] = p[i]
  BY WithCrcFacts
<1>2. Len(b) \in Nat /\ Starts(b, w)
  OBVIOUS
<1> HIDE DEF w
<1>3. Starts(b, p)
  <2>1. Len(b) >= n + 2 /\ \A i \in 1 .. n + 2 : b[i] = w[i]
    BY <1>1, <1>2 DEF Starts
  <2>2. Len(b) >= n
    BY <1>1, <1>2, <2>1
  <2>3. \A i \in 1 .. n : b[i] = p[i]
    BY <1>1, <2>1
  <2> QED BY <2>2, <2>3 DEF Starts
<1>4. First(n, b) = p /\ First(n + 2, b) = w
  BY <1>1, <1>2, <1>3, FirstOfStart
<1>5. Len(b) >= n + 2
  BY <1>1, <1>2 DEF Starts
<1>6. CrcOf(b, n)
  BY <1>4, <1>5 DEF CrcOf, w
<1> QED BY <1>3, <1>6

LEMMA SeqOfFunction ==
  ASSUME NEW S, NEW n \in Nat, NEW f \in [1 .. n -> S]
  PROVE  f \in Seq(S) /\ Len(f) = n
OBVIOUS

IsBytesOf(b, words) == /\ Len(b) = 2 * Len(words)
                       /\ \A k \in 1 .. Len(words) : /\ b[2 * k - 1] = words[k] \div 256
                                                     /\ b[2 * k] = words[k] % 256
LEMMA BytesOfFacts ==
  ASSUME NEW words \in Seq(Uint16)
  PROVE  BytesOf(words) \in Seq(Byte) /\ IsBytesOf(BytesOf(words), words)
<1> DEFINE n == Len(words)
           b == BytesOf(words)
<1>1. n \in Nat /\ \A k \in 1 .. n : words[k] \in Uint16
  OBVIOUS
<1>2. b = [i \in 1 .. 2 * n |-> BE(words[(i + 1) \div 2])[IF i % 2 = 1 THEN 1 ELSE 2]]
  BY DEF BytesOf
<1> HIDE DEF n, b
<1>3. \A i \in 1 .. 2 * n : (i + 1) \div 2 \in 1 .. n
  BY <1>1
<1>4. ASSUME NEW i \in 1 .. 2 * n PROVE b[i] \in Byte
  <2> DEFINE w == words[(i + 1) \div 2]
  <2>1. w \in Uint16
    BY <1>1, <1>3
  <2>2. b[i] = BE(w)[IF i % 2 = 1 THEN 1 ELSE 2]
    BY <1>2
  <2> HIDE DEF w
  <2> QED BY <2>1, <2>2, BEFacts, BytesOfWord
<1>5. 2 * n \in Nat /\ b \in [1 .. 2 * n -> Byte]
  BY <1>1, <1>2, <1>4
<1>6. b \in Seq(Byte) /\ Len(b) = 2 * n
  BY <1>5, SeqOfFunction
<1>7. ASSUME NEW k \in 1 .. n
      PROVE  b[2 * k - 1] = words[k] \div 256 /\ b[2 * k] = words[k] % 256
  <2>1. /\ 2 * k - 1 \in 1 .. 2 * n /\ 2 * k \in 1 .. 2 * n
        /\ ((2 * k - 1) + 1) \div 2 = k /\ (2 * k + 1) \div 2 = k
        /\ (2 * k - 1) % 2 = 1 /\ (2 * k) % 2 = 0
    BY <1>1
  <2>2. b[2 * k - 1] = BE(words[k])[1] /\ b[2 * k] = BE(words[k])[2]
    BY <1>2, <2>1
  <2>3. words[k] \in Uint16
    BY <1>1
  <2> QED BY <2>2, <2>3, BEFacts
<1> QED BY <1>6, <1>7 DEF IsBytesOf, n, b

LEMMA WriteBytesFacts ==
  ASSUME NEW a \in AskType
  PROVE  /\ WriteBytes(a) \in Seq(Byte)
         /\ Len(WriteBytes(a)) = IF a.function = WRITE_MULTIPLE_COILS THEN BytesFor(a.n)
                                 ELSE 2 * (IF a.function = WRITE_MULTIPLE_REGISTERS
                                           THEN a.n ELSE a.nwrite)
<1> DEFINE m == BytesFor(a.n)
           n == IF a.function = WRITE_MULTIPLE_REGISTERS THEN a.n ELSE a.nwrite
           coils == [i \in 1 .. m |-> (16 + i) % 256]
           words == [i \in 1 .. n |-> (4096 * i + 7) % 65536]
<1>1. n \in Nat
  BY AskFacts DEF Uint16
<1>2. m \in Nat
  BY AskFacts DEF Uint16, BytesFor
<1>3. WriteBytes(a) = IF a.function = WRITE_MULTIPLE_COILS THEN coils ELSE BytesOf(words)
  BY DEF WriteBytes
<1> HIDE DEF m, n
<1>4. coils \in [1 .. m -> Byte]
  <2>1. \A i \in Nat : (16 + i) % 256 \in Byte
    BY DEF Byte
  <2> QED BY <1>2, <2>1
<1>5. coils \in Seq(Byte) /\ Len(coils) = m
  <2> HIDE DEF coils
  <2> QED BY <1>2, <1>4, SeqOfFunction
<1>6. words \in [1 .. n -> Uint16]
  <2>1. \A i \in Nat : (4096 * i + 7) % 65536 \in Uint16
    BY DEF Uint16
  <2> QED BY <1>1, <2>1
<1> HIDE DEF coils, words
<1>7. words \in Seq(Uint16) /\ Len(words) = n
  BY <1>1, <1>6, SeqOfFunction
<1>8. BytesOf(words) \in Seq(Byte) /\ Len(BytesOf(words)) = 2 * n
  BY <1>7, BytesOfFacts DEF IsBytesOf
<1> QED BY <1>3, <1>5, <1>8 DEF m, n

LEMMA WriteFrameFacts ==
  ASSUME NEW head \in Seq(Byte), NEW bytes \in Seq(Byte), Len(head) >= 6,
         Len(bytes) >= 1, Len(bytes) < 256
  PROVE  \E p \in Seq(Byte) : /\ WriteFrame(head, bytes) = WithCrc(p)
                              /\ Len(p) = Len(head) + Len(bytes) - 1
                              /\ \A i \in 1 .. 6 : p[i] = head[i]
<1> DEFINE l == Len(bytes)
           m == Len(head)
           count == <<l>>
           g == head \o count
           frame == g \o bytes
           p == First(Len(frame) - 2, frame)
<1>1. WriteFrame(head, bytes) = WithCrc(p)
  BY DEF WriteFrame
<1>2. l \in Byte /\ l \in Nat /\ m \in Nat /\ l >= 1 /\ m >= 6
  <2>1. l \in Nat /\ m \in Nat /\ l >= 1 /\ l < 256 /\ m >= 6
    OBVIOUS
  <2> HIDE DEF l, m
  <2> QED BY <2>1 DEF Byte
<1>3. count \in Seq(Byte) /\ Len(count) = 1
  BY <1>2, Tuples
<1> HIDE DEF count
<1>4. g \in Seq(Byte) /\ IsJoin(g, head, count)
  BY <1>3, Joined
<1> HIDE DEF g
<1>5. frame \in Seq(Byte) /\ IsJoin(frame, g, bytes)
  BY <1>4, Joined
<1> HIDE DEF frame
<1>6. Len(g) = m + 1 /\ \A i \in 1 .. m : g[i] = head[i]
  BY <1>3, <1>4 DEF IsJoin
<1>7. Len(frame) = m + 1 + l /\ \A i \in 1 .. m + 1 : frame[i] = g[i]
  BY <1>5, <1>6 DEF IsJoin
<1> DEFINE k == Len(frame) - 2
<1> HIDE DEF l, m
<1>8. k \in Nat /\ k <= Len(frame) /\ k = m + l - 1 /\ k >= 6
  BY <1>2, <1>7
<1> HIDE DEF k
<1>9. p \in Seq(Byte) /\ Len(p) = k /\ \A i \in 1 .. k : p[i] = frame[i]
  BY <1>5, <1>8, FirstFacts DEF k
<1> HIDE DEF p
<1>10. \A i \in 1 .. 6 : p[i] = head[i]
  <2> SUFFICES ASSUME NEW i \in 1 .. 6 PROVE p[i] = head[i]
    OBVIOUS
  <2>1. i \in 1 .. k /\ i \in 1 .. m /\ i \in 1 .. m + 1
    BY <1>2, <1>8
  <2> QED BY <1>6, <1>7, <1>9, <2>1
<1> QED BY <1>1, <1>8, <1>9, <1>10 DEF l, m, p, k

-----------------------------------------------------------------------------
(***************************************************************************)
(* The requests: each frame is the CRC of bytes that begin with the        *)
(* address, the function, the place and the count.                         *)
(***************************************************************************)
Sized(a) == a.function = WRITE_MULTIPLE_COILS \/ a.function = WRITE_MULTIPLE_REGISTERS
            \/ a.function = READ_OR_WRITE_MULTIPLE_REGISTERS

LEMMA FunctionCases ==
  ASSUME NEW a
  PROVE  /\ CutsData(a) <=> Sized(a)
         /\ a.function \in WritesMany \cup {READ_OR_WRITE_MULTIPLE_REGISTERS} <=> Sized(a)
         /\ a.function \in ReadsWords \cup WritesOne => ~ Sized(a)
         /\ a.function \in ReadsBits => ~ Sized(a) /\ a.function \notin ReadsWords \cup WritesOne
         /\ a.function \in WritesMany => Sized(a) /\ a.function # READ_OR_WRITE_MULTIPLE_REGISTERS
         /\ a.function \in Functions =>
              \/ a.function \in ReadsWords \cup WritesOne \/ a.function \in ReadsBits
              \/ a.function \in WritesMany
              \/ a.function = READ_OR_WRITE_MULTIPLE_REGISTERS
BY DEF CutsData, Sized, WritesMany, ReadsWords, ReadsBits, WritesOne, Functions, READ_COILS,
       READ_DISCRETE_INPUTS, READ_HOLDING_REGISTERS, READ_INPUT_REGISTERS, WRITE_SINGLE_COIL,
       WRITE_SINGLE_REGISTER, WRITE_MULTIPLE_COILS, WRITE_MULTIPLE_REGISTERS,
       READ_OR_WRITE_MULTIPLE_REGISTERS

\* What an accepted request writes fits a frame.
LEMMA AcceptedWrites ==
  ASSUME NEW a \in AskType, ~ Refused(a), Sized(a)
  PROVE  Len(WriteBytes(a)) >= 1 /\ Len(WriteBytes(a)) < 256
<1> DEFINE l == Len(WriteBytes(a))
           m == BytesFor(a.n)
           n == a.n
           k == a.nwrite
<1>1. CASE a.function = WRITE_MULTIPLE_COILS
  <2>1. n \in 1 .. 1968
    BY <1>1 DEF Refused
  <2>2. l = m
    BY <1>1, WriteBytesFacts
  <2>3. m = (n + 7) \div 8
    BY DEF BytesFor
  <2> HIDE DEF l, m, n
  <2>4. m >= 1 /\ m < 256
    BY <2>1, <2>3
  <2> QED BY <2>2, <2>4 DEF l
<1>2. CASE a.function = WRITE_MULTIPLE_REGISTERS
  <2>1. n \in 1 .. 123
    BY <1>2 DEF Refused
  <2>2. a.function # WRITE_MULTIPLE_COILS
    BY <1>2 DEF WRITE_MULTIPLE_REGISTERS, WRITE_MULTIPLE_COILS
  <2>3. l = 2 * n
    BY <1>2, <2>2, WriteBytesFacts
  <2> HIDE DEF l, n
  <2>4. l >= 1 /\ l < 256
    BY <2>1, <2>3
  <2> QED BY <2>4 DEF l
<1>3. CASE a.function = READ_OR_WRITE_MULTIPLE_REGISTERS
  <2>1. k \in 1 .. 121
    BY <1>3 DEF Refused
  <2>2. a.function # WRITE_MULTIPLE_COILS /\ a.function # WRITE_MULTIPLE_REGISTERS
    BY <1>3 DEF READ_OR_WRITE_MULTIPLE_REGISTERS, WRITE_MULTIPLE_REGISTERS, WRITE_MULTIPLE_COILS
  <2>3. l = 2 * k
    BY <2>2, WriteBytesFacts
  <2> HIDE DEF l, k
  <2>4. l >= 1 /\ l < 256
    BY <2>1, <2>3
  <2> QED BY <2>4 DEF l
<1> QED BY <1>1, <1>2, <1>3 DEF Sized

\* The bytes of a request before its CRC.
IsBody(p, a, more) == /\ p \in Seq(Byte) /\ Len(p) = 6 + more
                      /\ p[1] = a.address /\ p[2] = a.function
Extra(a) == (IF a.function = READ_OR_WRITE_MULTIPLE_REGISTERS THEN 4 ELSE 0)
            + (IF Sized(a) THEN 1 + Len(WriteBytes(a)) ELSE 0)

LEMMA ExtraFacts ==
  ASSUME NEW a \in AskType
  PROVE  /\ Extra(a) \in Nat /\ (~ Sized(a) => Extra(a) = 0)
         /\ Sized(a) => Extra(a) >= 1 /\ (Len(WriteBytes(a)) >= 1 => Extra(a) >= 2)
<1> DEFINE l == Len(WriteBytes(a))
           e == Extra(a)
           four == IF a.function = READ_OR_WRITE_MULTIPLE_REGISTERS THEN 4 ELSE 0
<1>1. l \in Nat
  BY WriteBytesFacts
<1>2. e = four + (IF Sized(a) THEN 1 + l ELSE 0) /\ four \in {0, 4}
  BY DEF Extra
<1>3. ~ Sized(a) => four = 0
  BY DEF Sized
<1> HIDE DEF l, e, four
<1>4. e \in Nat /\ (~ Sized(a) => e = 0) /\ (Sized(a) => e >= 1 /\ (l >= 1 => e >= 2))
  BY <1>1, <1>2, <1>3
<1> QED BY <1>4 DEF l, e

LEMMA PreparedBody ==
  ASSUME NEW a \in AskType, ~ Refused(a)
  PROVE  IF Sized(a)
         THEN \E p : IsBody(p, a, Extra(a) - 2) /\ Prepared(a) = WithCrc(p)
         ELSE \/ Prepared(a) = WithCrc(Fields(a, a.n)) /\ a.function \in ReadsWords \cup WritesOne
              \/ Prepared(a) = WithCrc(Fields(a, BytesFor(a.n))) /\ a.function \in ReadsBits
<1>1. a.function \in Functions
  BY DEF Refused
<1> DEFINE f == Fields(a, a.n)
           w == WriteBytes(a)
           h == (f \o BE(a.wmemory)) \o BE(a.nwrite)
<1>2. CASE a.function \in ReadsWords \cup WritesOne
  BY <1>2, FunctionCases DEF Prepared
<1>3. CASE a.function \in ReadsBits
  BY <1>3, FunctionCases DEF Prepared
<1>4. /\ f \in Seq(Byte) /\ Len(f) = 6 /\ f[1] = a.address /\ f[2] = a.function
  BY AskFacts, FieldsFacts
<1>5. w \in Seq(Byte) /\ Len(w) \in Nat
  BY WriteBytesFacts
<1>6. ASSUME Sized(a) PROVE Len(w) >= 1 /\ Len(w) < 256
  BY <1>6, AcceptedWrites
<1>7. CASE a.function \in WritesMany
  <2>1. Sized(a) /\ Extra(a) = 1 + Len(w)
    <3>1. Sized(a) /\ a.function # READ_OR_WRITE_MULTIPLE_REGISTERS
      BY <1>7, FunctionCases
    <3>2. 0 + (1 + Len(w)) = 1 + Len(w)
      BY <1>5
    <3> QED BY <3>1, <3>2 DEF Extra
  <2>2. Prepared(a) = WriteFrame(f, w)
    BY <1>7, FunctionCases DEF Prepared
  <2> HIDE DEF f, w
  <2>3. PICK p \in Seq(Byte) : /\ WriteFrame(f, w) = WithCrc(p) /\ Len(p) = Len(f) + Len(w) - 1
                               /\ \A i \in 1 .. 6 : p[i] = f[i]
    <3>1. Len(f) >= 6 /\ Len(w) >= 1 /\ Len(w) < 256
      BY <1>4, <1>6, <2>1 DEF w
    <3> QED BY <1>4, <1>5, <3>1, WriteFrameFacts
  <2>4. IsBody(p, a, Extra(a) - 2)
    BY <1>4, <1>5, <2>1, <2>3 DEF IsBody
  <2> QED BY <2>1, <2>2, <2>3, <2>4
<1>8. CASE a.function = READ_OR_WRITE_MULTIPLE_REGISTERS
  <2>1. Sized(a) /\ Extra(a) = 5 + Len(w)
    BY <1>5, <1>8 DEF Extra, Sized
  <2>2. Prepared(a) = WriteFrame(h, w)
    <3>1. /\ a.function \notin ReadsWords \cup WritesOne /\ a.function \notin ReadsBits
          /\ a.function \notin WritesMany
      BY <1>8, <2>1, FunctionCases
    <3> QED BY <3>1 DEF Prepared
  <2>3. h \in Seq(Byte) /\ Len(h) = 10 /\ \A i \in 1 .. 6 : h[i] = f[i]
    <3> DEFINE x == BE(a.wmemory)
               y == BE(a.nwrite)
               g == f \o x
    <3>1. x \in Seq(Byte) /\ Len(x) = 2 /\ y \in Seq(Byte) /\ Len(y) = 2
      BY AskFacts, BEFacts
    <3> HIDE DEF x, y, f
    <3>2. g \in Seq(Byte) /\ IsJoin(g, f, x)
      BY <1>4, <3>1, Joined
    <3> HIDE DEF g
    <3>3. Len(g) = 8 /\ \A i \in 1 .. 6 : g[i] = f[i]
      BY <1>4, <3>1, <3>2 DEF IsJoin
    <3>4. g \o y \in Seq(Byte) /\ IsJoin(g \o y, g, y)
      BY <3>1, <3>2, Joined
    <3> DEFINE j == g \o y
    <3>5. j \in Seq(Byte) /\ IsJoin(j, g, y)
      BY <3>4
    <3> HIDE DEF j
    <3>6. Len(j) = 10 /\ \A i \in 1 .. 6 : j[i] = g[i]
      BY <3>1, <3>3, <3>5 DEF IsJoin
    <3> QED BY <3>3, <3>5, <3>6 DEF j, g, x, y, f
  <2> HIDE DEF f, w, h
  <2>4. PICK p \in Seq(Byte) : /\ WriteFrame(h, w) = WithCrc(p) /\ Len(p) = Len(h) + Len(w) - 1
                               /\ \A i \in 1 .. 6 : p[i] = h[i]
    <3>1. Len(h) >= 6 /\ Len(w) >= 1 /\ Len(w) < 256
      BY <1>6, <2>1, <2>3 DEF w
    <3> QED BY <1>5, <2>3, <3>1, WriteFrameFacts
  <2>5. IsBody(p, a, Extra(a) - 2)
    BY <1>4, <1>5, <2>1, <2>3, <2>4 DEF IsBody
  <2> QED BY <2>1, <2>2, <2>4, <2>5
<1> QED BY <1>1, <1>2, <1>3, <1>7, <1>8, FunctionCases

LEMMA StandardBody ==
  ASSUME NEW a \in AskType, Sized(a) => Len(WriteBytes(a)) < 256
  PROVE  \E p : /\ IsBody(p, a, Extra(a)) /\ StandardRequest(a) = WithCrc(p)
                /\ ~ Sized(a) => p = Fields(a, a.n)
<1> DEFINE f == Fields(a, a.n)
           w == WriteBytes(a)
           both == READ_OR_WRITE_MULTIPLE_REGISTERS
           data == IF a.function \in WritesMany \cup {both} THEN <<Len(w)>> \o w ELSE <<>>
           write == IF a.function = both THEN BE(a.wmemory) \o BE(a.nwrite) ELSE <<>>
           four == IF a.function = both THEN 4 ELSE 0
           many == IF Sized(a) THEN 1 + Len(w) ELSE 0
           g == f \o write
           p == g \o data
<1>1. /\ f \in Seq(Byte) /\ Len(f) = 6 /\ f[1] = a.address /\ f[2] = a.function
  BY AskFacts, FieldsFacts
<1>2. w \in Seq(Byte) /\ Len(w) \in Nat
  BY WriteBytesFacts
<1>3. write \in Seq(Byte) /\ Len(write) = four /\ (~ Sized(a) => write = <<>>)
  <2> DEFINE x == BE(a.wmemory)
             y == BE(a.nwrite)
             j == x \o y
  <2>1. x \in Seq(Byte) /\ Len(x) = 2 /\ y \in Seq(Byte) /\ Len(y) = 2
    BY AskFacts, BEFacts
  <2>2. write = IF a.function = both THEN j ELSE <<>>
    OBVIOUS
  <2> HIDE DEF x, y, write
  <2>3. j \in Seq(Byte) /\ IsJoin(j, x, y)
    BY <2>1, Joined
  <2> HIDE DEF j
  <2>4. Len(j) = 4
    BY <2>1, <2>3, JoinOfTwoAndTwo
  <2>5. <<>> \in Seq(Byte) /\ Len(<<>>) = 0
    BY EmptySeq
  <2>6. CASE a.function = both
    BY <2>2, <2>3, <2>4, <2>6 DEF Sized
  <2>7. CASE a.function # both
    BY <2>2, <2>5, <2>7
  <2> QED BY <2>6, <2>7
<1>4. data \in Seq(Byte) /\ Len(data) = many /\ (~ Sized(a) => data = <<>>)
  <2> DEFINE l == Len(w)
             c == <<l>>
             j == c \o w
  <2>1. data = IF Sized(a) THEN j ELSE <<>>
    BY FunctionCases
  <2>2. <<>> \in Seq(Byte) /\ Len(<<>>) = 0
    BY EmptySeq
  <2>3. CASE Sized(a)
    <3>1. l \in Byte
      <4>1. l \in Nat /\ l < 256
        BY <1>2, <2>3
      <4> HIDE DEF l
      <4> QED BY <4>1 DEF Byte
    <3>2. c \in Seq(Byte) /\ Len(c) = 1
      BY <3>1, Tuples
    <3> HIDE DEF c, data, w
    <3>3. j \in Seq(Byte) /\ IsJoin(j, c, w)
      BY <1>2, <3>2, Joined
    <3> HIDE DEF j
    <3>4. Len(j) = 1 + Len(w)
      BY <3>2, <3>3 DEF IsJoin
    <3> QED BY <2>1, <2>3, <3>3, <3>4
  <2>4. CASE ~ Sized(a)
    BY <2>1, <2>2, <2>4
  <2> QED BY <2>3, <2>4
<1>5. StandardRequest(a) = StandardCrc(p)
  BY DEF StandardRequest, Fields
<1>6. four + many = Extra(a) /\ four \in Nat /\ many \in Nat /\ Extra(a) \in Nat
  <2>1. Extra(a) = four + many
    BY DEF Extra
  <2>2. four \in Nat /\ Extra(a) \in Nat
    BY ExtraFacts
  <2>3. many \in Nat
    BY <1>2
  <2> QED BY <2>1, <2>2, <2>3
<1> HIDE DEF f, w, data, write, four, many
<1>7. g \in Seq(Byte) /\ IsJoin(g, f, write)
  BY <1>1, <1>3, Joined
<1>8. ~ Sized(a) => g = f
  BY <1>1, <1>3, ConcatEmptySeq
<1> HIDE DEF g
<1>9. Len(g) = 6 + four /\ \A i \in 1 .. 6 : g[i] = f[i]
  BY <1>1, <1>3, <1>7 DEF IsJoin
<1>10. p \in Seq(Byte) /\ IsJoin(p, g, data)
  BY <1>4, <1>7, Joined
<1>11. ~ Sized(a) => p = g
  BY <1>4, <1>7, ConcatEmptySeq
<1> HIDE DEF p
<1>12. Len(p) = 6 + four + many /\ \A i \in 1 .. 6 + four : p[i] = g[i]
  BY <1>4, <1>9, <1>10 DEF IsJoin
<1>13. p[1] = a.address /\ p[2] = a.function
  <2>1. 1 \in 1 .. 6 /\ 2 \in 1 .. 6 /\ 1 \in 1 .. 6 + four /\ 2 \in 1 .. 6 + four
    BY <1>6
  <2> QED BY <1>1, <1>9, <1>12, <2>1
<1>14. IsBody(p, a, Extra(a))
  <2>1. Len(p) = 6 + Extra(a)
    BY <1>6, <1>12
  <2> QED BY <1>10, <1>13, <2>1 DEF IsBody
<1>15. StandardRequest(a) = WithCrc(p)
  BY <1>5, <1>10, WithCrcFacts
<1> QED BY <1>8, <1>11, <1>14, <1>15 DEF f

LEMMA FieldsDiffer ==
  ASSUME NEW a \in AskType, NEW m \in Uint16, NEW n \in Uint16, m # n
  PROVE  WithCrc(Fields(a, m)) # WithCrc(Fields(a, n))
<1> DEFINE p == Fields(a, m)
           q == Fields(a, n)
<1>1. /\ p \in Seq(Byte) /\ Len(p) = 6 /\ p[5] = m \div 256 /\ p[6] = m % 256
      /\ q \in Seq(Byte) /\ Len(q) = 6 /\ q[5] = n \div 256 /\ q[6] = n % 256
  BY FieldsFacts
<1> HIDE DEF p, q
<1>2. WithCrc(p)[5] = p[5] /\ WithCrc(p)[6] = p[6] /\ WithCrc(q)[5] = q[5] /\ WithCrc(q)[6] = q[6]
  <2>1. 5 \in 1 .. 6 /\ 6 \in 1 .. 6
    OBVIOUS
  <2>2. \A i \in 1 .. Len(p) : WithCrc(p)[i] = p[i]
    BY <1>1, WithCrcFacts
  <2>3. \A i \in 1 .. Len(q) : WithCrc(q)[i] = q[i]
    BY <1>1, WithCrcFacts
  <2> QED BY <1>1, <2>1, <2>2, <2>3
<1>3. m \div 256 # n \div 256 \/ m % 256 # n % 256
  BY BytesOfWord
<1>4. WithCrc(p) # WithCrc(q)
  BY <1>1, <1>2, <1>3
<1> QED BY <1>4 DEF p, q

(***************************************************************************)
(* The frame of the master is the frame of the standard in all cases but   *)
(* two.                                                                    *)
(***************************************************************************)
LEMMA PreparedStandard ==
  ASSUME NEW a \in AskType, ~ Refused(a)
  PROVE  Prepared(a) = StandardRequest(a) <=> ~ (CountsBytes(a) \/ CutsData(a))
<1>1. Sized(a) => Len(WriteBytes(a)) >= 1 /\ Len(WriteBytes(a)) < 256
  BY AcceptedWrites
<1>2. PICK p : /\ IsBody(p, a, Extra(a)) /\ StandardRequest(a) = WithCrc(p)
               /\ ~ Sized(a) => p = Fields(a, a.n)
  BY <1>1, StandardBody
<1>3. CASE Sized(a)
  <2>1. PICK q : IsBody(q, a, Extra(a) - 2) /\ Prepared(a) = WithCrc(q)
    BY <1>3, PreparedBody
  <2>2. Len(WithCrc(p)) = (6 + Extra(a)) + 2 /\ Len(WithCrc(q)) = (6 + (Extra(a) - 2)) + 2
    BY <1>2, <2>1, WithCrcFacts DEF IsBody
  <2>3. Extra(a) \in Nat
    BY ExtraFacts
  <2>4. WithCrc(p) # WithCrc(q)
    BY <2>2, <2>3
  <2> QED BY <1>2, <1>3, <2>1, <2>4, FunctionCases
<1>4. CASE ~ Sized(a)
  <2>1. StandardRequest(a) = WithCrc(Fields(a, a.n))
    BY <1>2, <1>4
  <2>2. CASE /\ Prepared(a) = WithCrc(Fields(a, a.n)) /\ a.function \in ReadsWords \cup WritesOne
    <3>1. ~ CountsBytes(a)
      BY <2>2, FunctionCases DEF CountsBytes
    <3> QED BY <1>4, <2>1, <2>2, <3>1, FunctionCases
  <2>3. CASE /\ Prepared(a) = WithCrc(Fields(a, BytesFor(a.n))) /\ a.function \in ReadsBits
    <3> DEFINE n == a.n
               m == BytesFor(a.n)
    <3>1. n \in 1 .. 2000
      BY <2>3 DEF Refused
    <3>2. m = (n + 7) \div 8
      BY DEF BytesFor
    <3> HIDE DEF m, n
    <3>3. n \in Nat /\ n < 65536 /\ m \in Nat /\ m < 65536 /\ (m = n <=> n = 1)
      BY <3>1, <3>2
    <3>4. m \in Uint16 /\ n \in Uint16
      BY <3>3 DEF Uint16
    <3>5. WithCrc(Fields(a, m)) = WithCrc(Fields(a, n)) <=> n = 1
      BY <3>3, <3>4, FieldsDiffer
    <3>6. CountsBytes(a) <=> n # 1
      BY <2>3 DEF CountsBytes, n
    <3> QED BY <1>4, <2>1, <2>3, <3>5, <3>6, FunctionCases DEF m, n
  <2> QED BY <1>4, <2>2, <2>3, PreparedBody
<1> QED BY <1>3, <1>4

\* It refuses what the standard does not allow, and too much in one case.
LEMMA RefusedStandard ==
  ASSUME NEW a \in AskType
  PROVE  Refused(a) <=> ~ StandardAllows(a) \/ TooFewAllowed(a)
<1>1. a.address \in 0 .. 255
  BY AskFacts DEF Byte
<1>2. a.function \in 0 .. 127 /\ a.n \in Nat /\ a.nwrite \in Nat
  BY AskFacts DEF Uint16
<1> QED BY <1>1, <1>2 DEF Refused, StandardAllows, TooFewAllowed, Functions, WritesMany, ReadsWords,
       ReadsBits, WritesOne, READ_COILS,
       READ_DISCRETE_INPUTS, READ_HOLDING_REGISTERS, READ_INPUT_REGISTERS, WRITE_SINGLE_COIL,
       WRITE_SINGLE_REGISTER, WRITE_MULTIPLE_COILS, WRITE_MULTIPLE_REGISTERS,
       READ_OR_WRITE_MULTIPLE_REGISTERS

\* The frame of a request: a body and its CRC.
Carries(f, a) == \E p : /\ p \in Seq(Byte) /\ Len(p) >= 6 /\ f = WithCrc(p)
                        /\ p[1] = a.address /\ p[2] = a.function
                        /\ a.function = READ_HOLDING_REGISTERS => p = Fields(a, a.n)

LEMMA PreparedCarries ==
  ASSUME NEW a \in AskType, ~ Refused(a)
  PROVE  Carries(Prepared(a), a)
<1>1. CASE Sized(a)
  <2>1. PICK p : IsBody(p, a, Extra(a) - 2) /\ Prepared(a) = WithCrc(p)
    BY <1>1, PreparedBody
  <2>2. Extra(a) \in Nat /\ Extra(a) >= 2
    BY <1>1, ExtraFacts, AcceptedWrites
  <2>3. Len(p) = 6 + (Extra(a) - 2)
    BY <2>1 DEF IsBody
  <2>4. Len(p) >= 6
    BY <2>2, <2>3
  <2>5. a.function # READ_HOLDING_REGISTERS
    BY <1>1 DEF Sized, READ_HOLDING_REGISTERS, WRITE_MULTIPLE_COILS, WRITE_MULTIPLE_REGISTERS,
                READ_OR_WRITE_MULTIPLE_REGISTERS
  <2> QED BY <2>1, <2>4, <2>5 DEF IsBody, Carries
<1>2. CASE ~ Sized(a)
  <2>1. a.n \in Uint16
    BY AskFacts
  <2>2. CASE Prepared(a) = WithCrc(Fields(a, a.n))
    <3> DEFINE p == Fields(a, a.n)
    <3>1. p \in Seq(Byte) /\ Len(p) = 6 /\ p[1] = a.address /\ p[2] = a.function
      BY <2>1, FieldsFacts
    <3>2. Len(p) >= 6
      BY <3>1
    <3> QED BY <2>2, <3>1, <3>2 DEF Carries
  <2>3. CASE Prepared(a) = WithCrc(Fields(a, BytesFor(a.n))) /\ a.function \in ReadsBits
    <3> DEFINE n == a.n
               m == BytesFor(n)
               p == Fields(a, m)
    <3>1. n \in Nat /\ n < 65536
      BY <2>1 DEF Uint16
    <3>2. m = (n + 7) \div 8
      BY DEF BytesFor
    <3>3. m \in Uint16
      <4> HIDE DEF m, n
      <4> QED BY <3>1, <3>2 DEF Uint16
    <3> HIDE DEF m
    <3>4. p \in Seq(Byte) /\ Len(p) = 6 /\ p[1] = a.address /\ p[2] = a.function
      BY <3>3, FieldsFacts
    <3>5. Len(p) >= 6
      BY <3>4
    <3>6. a.function # READ_HOLDING_REGISTERS
      BY <2>3 DEF ReadsBits, READ_COILS, READ_DISCRETE_INPUTS, READ_HOLDING_REGISTERS
    <3>7. Prepared(a) = WithCrc(p)
      BY <2>3 DEF m
    <3> QED BY <3>4, <3>5, <3>6, <3>7 DEF Carries
  <2> QED BY <1>2, <2>2, <2>3, PreparedBody
<1> QED BY <1>1, <1>2

LEMMA StandardCarries ==
  ASSUME NEW a \in AskType, Sized(a) => Len(WriteBytes(a)) < 256
  PROVE  Carries(StandardRequest(a), a)
<1>1. PICK p : /\ IsBody(p, a, Extra(a)) /\ StandardRequest(a) = WithCrc(p)
               /\ ~ Sized(a) => p = Fields(a, a.n)
  BY StandardBody
<1>2. Extra(a) \in Nat
  BY ExtraFacts
<1>3. Len(p) = 6 + Extra(a)
  BY <1>1 DEF IsBody
<1>4. Len(p) >= 6
  BY <1>2, <1>3
<1>5. a.function = READ_HOLDING_REGISTERS => ~ Sized(a)
  BY DEF Sized, READ_HOLDING_REGISTERS, WRITE_MULTIPLE_COILS, WRITE_MULTIPLE_REGISTERS,
         READ_OR_WRITE_MULTIPLE_REGISTERS
<1> QED BY <1>1, <1>4, <1>5 DEF IsBody, Carries

LEMMA CarriedFrame ==
  ASSUME NEW a, NEW f, Carries(f, a)
  PROVE  /\ f \in Seq(Byte) /\ Len(f) \in Nat /\ Len(f) >= 8 /\ f # <<>>
         /\ f[1] = a.address /\ f[2] = a.function
<1>1. PICK p : /\ p \in Seq(Byte) /\ Len(p) >= 6 /\ f = WithCrc(p)
               /\ p[1] = a.address /\ p[2] = a.function
  BY DEF Carries
<1>2. f \in Seq(Byte) /\ Len(f) = Len(p) + 2 /\ \A i \in 1 .. Len(p) : f[i] = p[i]
  BY <1>1, WithCrcFacts
<1>3. Len(p) \in Nat
  BY <1>1
<1>4. Len(f) \in Nat /\ Len(f) >= 8 /\ 1 \in 1 .. Len(p) /\ 2 \in 1 .. Len(p)
  BY <1>1, <1>2, <1>3
<1> QED BY <1>1, <1>2, <1>4, EmptySeq

LEMMA CarriedBody ==
  ASSUME NEW a, NEW f, Carries(f, a)
  PROVE  \E p \in Seq(Byte) : /\ f = WithCrc(p) /\ Len(f) = Len(p) + 2 /\ CrcOf(f, Len(p))
                              /\ a.function = READ_HOLDING_REGISTERS => p = Fields(a, a.n)
<1>1. PICK p : /\ p \in Seq(Byte) /\ f = WithCrc(p)
               /\ a.function = READ_HOLDING_REGISTERS => p = Fields(a, a.n)
  BY DEF Carries
<1>2. f \in Seq(Byte) /\ Len(f) = Len(p) + 2
  BY <1>1, WithCrcFacts
<1>3. Starts(f, f)
  BY <1>2 DEF Starts
<1>4. CrcOf(f, Len(p))
  BY <1>1, <1>2, <1>3, CrcOfStart
<1> QED BY <1>1, <1>2, <1>4

LEMMA PreparedNotEmpty ==
  ASSUME NEW a \in AskType, ~ Refused(a)
  PROVE  Prepared(a) # <<>>
BY PreparedCarries, CarriedFrame

\* In each frame on its way the master's request is what it prepared.
RequestInv == phase = "sent" /\ asked \in Asks =>
                request = IF Refused(asked) THEN <<>> ELSE Prepared(asked)

(***************************************************************************)
(* master_send_req refuses what the standard does not allow and sends the  *)
(* frames of the standard, but for the cases that RequestsStandard names:  *)
(* for whatever is asked of it.                                            *)
(***************************************************************************)
THEOREM RequestsAreStandard == Spec => []RequestsStandard
<1>1. Init => RequestInv
  BY DEF Init, RequestInv
<1>2. ASSUME RequestInv, [Next]_vars PROVE RequestInv'
  <2> USE DEF RequestInv
  <2>1. ASSUME NEW a \in Asks, MasterSends(a) PROVE RequestInv'
    BY <2>1 DEF MasterSends
  <2>2. ASSUME NEW a \in OtherAsks, OtherSends(a) PROVE RequestInv'
    BY <2>2, MastersAssumption DEF OtherSends
  <2>3. CASE SlaveHears
    BY <2>3 DEF SlaveHears
  <2>4. CASE SlaveSendResp
    BY <2>4 DEF SlaveSendResp
  <2>5. CASE DeviceAnswers
    BY <2>5 DEF DeviceAnswers
  <2>6. CASE MasterReceives
    BY <2>6 DEF MasterReceives
  <2>7. CASE Ends
    BY <2>7 DEF Ends
  <2>8. CASE UNCHANGED vars
    BY <1>2, <2>8 DEF vars
  <2> QED BY <1>2, <2>1, <2>2, <2>3, <2>4, <2>5, <2>6, <2>7, <2>8 DEF Next
<1>3. RequestInv => RequestsStandard
  <2> SUFFICES ASSUME RequestInv, phase = "sent", asked \in Asks
               PROVE  /\ request = <<>> <=> ~ StandardAllows(asked) \/ TooFewAllowed(asked)
                      /\ request # <<>> =>
                           (request = StandardRequest(asked)
                             <=> ~ (CountsBytes(asked) \/ CutsData(asked)))
    BY DEF RequestsStandard
  <2>1. asked \in AskType
    BY MastersAssumption
  <2>2. CASE Refused(asked)
    BY <2>1, <2>2, RefusedStandard DEF RequestInv
  <2>3. CASE ~ Refused(asked)
    <3>1. request = Prepared(asked)
      BY <2>3 DEF RequestInv
    <3>2. Prepared(asked) # <<>>
      BY <2>1, <2>3, PreparedNotEmpty
    <3> QED BY <2>1, <2>3, <3>1, <3>2, RefusedStandard, PreparedStandard
  <2> QED BY <2>2, <2>3
<1> QED BY <1>1, <1>2, <1>3, PTL DEF Spec

-----------------------------------------------------------------------------
(***************************************************************************)
(* The buffers, and what the slave answers.                                *)
(***************************************************************************)
LEMMA OverFacts ==
  ASSUME NEW b \in Seq(Byte), NEW f \in Seq(Byte)
  PROVE  /\ Over(b, f) \in Seq(Byte) /\ Starts(Over(b, f), f)
         /\ Len(Over(b, f)) >= Len(b) /\ Len(Over(b, f)) >= Len(f)
<1> DEFINE n == IF Len(b) > Len(f) THEN Len(b) ELSE Len(f)
           o == Over(b, f)
<1>1. /\ Len(b) \in Nat /\ Len(f) \in Nat /\ n \in Nat /\ n >= Len(b) /\ n >= Len(f)
      /\ n = Len(b) \/ n = Len(f)
  OBVIOUS
<1>2. o = [i \in 1 .. n |-> IF i <= Len(f) THEN f[i] ELSE b[i]]
  BY DEF Over
<1> HIDE DEF n, o
<1>3. ASSUME NEW i \in 1 .. n PROVE o[i] \in Byte
  <2>1. CASE i <= Len(f)
    <3>1. i \in 1 .. Len(f)
      BY <1>1, <2>1
    <3> QED BY <1>2, <2>1, <3>1
  <2>2. CASE ~ (i <= Len(f))
    <3>1. i \in 1 .. Len(b)
      BY <1>1, <2>2
    <3> QED BY <1>2, <2>2, <3>1
  <2> QED BY <2>1, <2>2
<1>4. o \in [1 .. n -> Byte]
  BY <1>2, <1>3
<1>5. o \in Seq(Byte) /\ Len(o) = n
  BY <1>1, <1>4, SeqOfFunction
<1>6. \A i \in 1 .. Len(f) : o[i] = f[i]
  BY <1>1, <1>2
<1>7. Starts(o, f)
  BY <1>1, <1>5, <1>6 DEF Starts
<1> QED BY <1>1, <1>5, <1>7 DEF o

LEMMA HeardFacts ==
  ASSUME NEW f \in Seq(Byte), NEW h \in {f} \cup Heard(f)
  PROVE  h \in Seq(Byte)
<1>1. CASE h = f
  BY <1>1
<1>2. ASSUME NEW k \in Places, k < Len(f), h = First(k, f) PROVE h \in Seq(Byte)
  <2>1. k \in Nat /\ k <= Len(f)
    BY <1>2, NoiseAssumption
  <2> QED BY <1>2, <2>1, FirstFacts
<1>3. ASSUME NEW k \in Places, k < Len(f), NEW d \in Damages,
             h = [f EXCEPT ![k + 1] = (@ + d) % 256]
      PROVE  h \in Seq(Byte)
  <2> DEFINE j == k + 1
             y == f[j]
             x == (y + d) % 256
  <2>1. k \in Nat /\ d \in Nat /\ j \in 1 .. Len(f)
    BY <1>3, NoiseAssumption
  <2>2. y \in Byte
    BY <2>1
  <2>4. h = [f EXCEPT ![j] = x]
    BY <1>3
  <2> HIDE DEF j, y
  <2>3. x \in Byte
    BY <2>1, <2>2 DEF Byte
  <2> HIDE DEF x
  <2> QED BY <2>1, <2>3, <2>4, ExceptSeq
<1>4. CASE h \in Heard(f)
  BY <1>2, <1>3, <1>4 DEF Heard
<1> QED BY <1>1, <1>4

IsBuffer(b) == b \in Seq(Byte) /\ Len(b) = 8
LEMMA SlaveBufferFacts ==
  ASSUME NEW b, IsBuffer(b), NEW f \in Seq(Byte)
  PROVE  LET n == First(8, Over(b, f))
         IN  IsBuffer(n) /\ (Len(f) >= 8 => \A i \in 1 .. 8 : n[i] = f[i])
<1> DEFINE o == Over(b, f)
           n == First(8, o)
<1>1. b \in Seq(Byte) /\ Len(b) = 8 /\ Len(f) \in Nat
  BY DEF IsBuffer
<1>2. o \in Seq(Byte) /\ Starts(o, f) /\ Len(o) >= 8
  BY <1>1, OverFacts
<1> HIDE DEF o
<1>3. n \in Seq(Byte) /\ Len(n) = 8 /\ \A i \in 1 .. 8 : n[i] = o[i]
  BY <1>2, FirstFacts
<1> HIDE DEF n
<1>4. ASSUME Len(f) >= 8, NEW i \in 1 .. 8 PROVE n[i] = f[i]
  <2>1. i \in 1 .. Len(f)
    BY <1>1, <1>4
  <2> QED BY <1>2, <1>3, <2>1 DEF Starts
<1>5. IsBuffer(n) /\ (Len(f) >= 8 => \A i \in 1 .. 8 : n[i] = f[i])
  BY <1>3, <1>4 DEF IsBuffer
<1> QED BY <1>5 DEF n, o

\* The first eight bytes of a frame decide about its first CRC.
LEMMA SameCrc ==
  ASSUME NEW b \in Seq(Byte), NEW f \in Seq(Byte), Len(b) >= 8, Len(f) >= 8,
         \A i \in 1 .. 8 : b[i] = f[i]
  PROVE  CrcOf(b, 6) <=> CrcOf(f, 6)
<1>1. /\ First(6, b) \in Seq(Byte) /\ Len(First(6, b)) = 6
      /\ \A i \in 1 .. 6 : First(6, b)[i] = b[i]
      /\ First(6, f) \in Seq(Byte) /\ Len(First(6, f)) = 6
      /\ \A i \in 1 .. 6 : First(6, f)[i] = f[i]
  <2>1. Len(b) \in Nat /\ Len(f) \in Nat /\ 6 \in Nat /\ 6 <= Len(b) /\ 6 <= Len(f)
    OBVIOUS
  <2> QED BY <2>1, FirstFacts
<1>2. /\ First(8, b) \in Seq(Byte) /\ Len(First(8, b)) = 8
      /\ \A i \in 1 .. 8 : First(8, b)[i] = b[i]
      /\ First(8, f) \in Seq(Byte) /\ Len(First(8, f)) = 8
      /\ \A i \in 1 .. 8 : First(8, f)[i] = f[i]
  <2>1. Len(b) \in Nat /\ Len(f) \in Nat /\ 8 \in Nat /\ 8 <= Len(b) /\ 8 <= Len(f)
    OBVIOUS
  <2> QED BY <2>1, FirstFacts
<1> DEFINE s6 == First(6, b)
           t6 == First(6, f)
           s8 == First(8, b)
           t8 == First(8, f)
<1> HIDE DEF s6, t6, s8, t8
<1>3. s6 = t6
  <2>1. s6 \in Seq(Byte) /\ t6 \in Seq(Byte) /\ Len(s6) = Len(t6)
    BY <1>1 DEF s6, t6
  <2>l. Len(s6) = 6
    BY <1>1 DEF s6
  <2>2. \A i \in 1 .. Len(s6) : i \in 1 .. 6 /\ i \in 1 .. 8
    BY <2>l
  <2>3. \A i \in 1 .. Len(s6) : s6[i] = t6[i]
    BY <1>1, <2>2 DEF s6, t6
  <2> QED BY <2>1, <2>3, SeqEqual
<1>4. s8 = t8
  <2>1. s8 \in Seq(Byte) /\ t8 \in Seq(Byte) /\ Len(s8) = Len(t8)
    BY <1>2 DEF s8, t8
  <2>l. Len(s8) = 8
    BY <1>2 DEF s8
  <2>2. \A i \in 1 .. Len(s8) : i \in 1 .. 8
    BY <2>l
  <2>3. \A i \in 1 .. Len(s8) : s8[i] = t8[i]
    BY <1>2, <2>2 DEF s8, t8
  <2> QED BY <2>1, <2>3, SeqEqual
<1>5. 6 + 2 = 8
  OBVIOUS
<1> QED BY <1>3, <1>4, <1>5 DEF CrcOf, s6, t6, s8, t8

\* An exception of three bytes and its CRC.
LEMMA ExceptionFacts ==
  ASSUME NEW a \in AskType, NEW c \in Byte
  PROVE  LET q == <<a.address, 128 + a.function, c>>
         IN  /\ q \in Seq(Byte) /\ Len(q) = 3
             /\ q[1] = a.address /\ q[2] = 128 + a.function /\ q[3] = c
             /\ StandardException(a, c) = WithCrc(q)
             /\ (128 + a.function) % 256 = 128 + a.function
<1>1. a.address \in Byte /\ a.function \in 0 .. 127
  BY AskFacts
<1>2. 128 + a.function \in Byte /\ (128 + a.function) % 256 = 128 + a.function
  BY <1>1 DEF Byte
<1> DEFINE q == <<a.address, 128 + a.function, c>>
<1>3. /\ q \in Seq(Byte) /\ Len(q) = 3
      /\ q[1] = a.address /\ q[2] = 128 + a.function /\ q[3] = c
  BY <1>1, <1>2, Tuples
<1>4. StandardException(a, c) = WithCrc(q)
  BY <1>3, WithCrcFacts DEF StandardException
<1> QED BY <1>2, <1>3, <1>4

\* The registers that an answer carries.
LEMMA ReadFacts ==
  ASSUME NEW a \in AskType, NEW bytes \in Seq(Byte), Len(bytes) < 256
  PROVE  LET q == <<a.address, a.function, Len(bytes)>> \o bytes
         IN  /\ q \in Seq(Byte) /\ Len(q) = 3 + Len(bytes)
             /\ q[1] = a.address /\ q[2] = a.function /\ q[3] = Len(bytes)
             /\ \A i \in 1 .. Len(bytes) : q[3 + i] = bytes[i]
             /\ StandardRead(a, bytes) = WithCrc(q)
<1> DEFINE n == Len(bytes)
           h == <<a.address, a.function, n>>
           q == h \o bytes
<1>1. n \in Nat /\ n < 256
  OBVIOUS
<1> HIDE DEF n
<1>2. n \in Byte
  BY <1>1 DEF Byte
<1>3. h \in Seq(Byte) /\ Len(h) = 3 /\ h[1] = a.address /\ h[2] = a.function /\ h[3] = n
  BY <1>2, AskFacts, Tuples
<1>4. StandardRead(a, bytes) = StandardCrc(q)
  BY DEF StandardRead, n
<1> HIDE DEF h
<1>5. q \in Seq(Byte) /\ IsJoin(q, h, bytes)
  BY <1>3, Joined
<1> HIDE DEF q
<1>6. /\ Len(q) = 3 + n /\ (\A i \in 1 .. 3 : q[i] = h[i])
      /\ \A i \in 1 .. n : q[3 + i] = bytes[i]
  BY <1>3, <1>5 DEF IsJoin, n
<1>7. q[1] = h[1] /\ q[2] = h[2] /\ q[3] = h[3]
  BY <1>6
<1>8. StandardRead(a, bytes) = WithCrc(q)
  BY <1>4, <1>5, WithCrcFacts
<1> QED BY <1>3, <1>5, <1>6, <1>7, <1>8 DEF q, h, n

\* The words of a request, read back from its frame.
LEMMA WordsOfFrame ==
  ASSUME NEW a \in AskType, NEW f, f = WithCrc(Fields(a, a.n))
  PROVE  /\ f \in Seq(Byte) /\ Len(f) = 8 /\ f[1] = a.address /\ f[2] = a.function
         /\ Word(f, 3) = a.memory /\ Word(f, 5) = a.n
<1> DEFINE p == Fields(a, a.n)
           m == a.memory
           n == a.n
<1>1. m \in Uint16 /\ n \in Uint16
  BY AskFacts
<1>2. /\ p \in Seq(Byte) /\ Len(p) = 6 /\ p[1] = a.address /\ p[2] = a.function
      /\ p[3] = m \div 256 /\ p[4] = m % 256 /\ p[5] = n \div 256 /\ p[6] = n % 256
  BY <1>1, FieldsFacts
<1>3. f = WithCrc(p)
  OBVIOUS
<1> HIDE DEF p, m, n
<1>4. f \in Seq(Byte) /\ Len(f) = Len(p) + 2 /\ \A i \in 1 .. Len(p) : f[i] = p[i]
  BY <1>2, <1>3, WithCrcFacts
<1>5. Len(f) = 8 /\ \A i \in 1 .. 6 : f[i] = p[i]
  BY <1>2, <1>4
<1>6. /\ f[1] = p[1] /\ f[2] = p[2] /\ f[3] = p[3] /\ f[4] = p[4] /\ f[5] = p[5] /\ f[6] = p[6]
  BY <1>5
<1>7. m = 256 * (m \div 256) + (m % 256) /\ n = 256 * (n \div 256) + (n % 256)
  BY <1>1, BytesOfWord
<1>8. Word(f, 3) = 256 * f[3] + f[4] /\ Word(f, 5) = 256 * f[5] + f[6]
  <2>1. 3 + 1 = 4 /\ 5 + 1 = 6
    OBVIOUS
  <2> QED BY <2>1 DEF Word
<1>9. Word(f, 3) = m /\ Word(f, 5) = n
  BY <1>2, <1>6, <1>7, <1>8
<1> QED BY <1>2, <1>4, <1>5, <1>6, <1>9 DEF m, n

BankPart(m, n) == SubSeq(bank, m - \h4000 + 1, m - \h4000 + n)
LEMMA BankFacts ==
  ASSUME bank \in Banks, NEW m \in Nat, NEW n \in Nat,
         m >= \h4000, m + n <= \h4008
  PROVE  /\ BankPart(m, n) \in Seq(Uint16) /\ Len(BankPart(m, n)) = n /\ n <= 8
         /\ BytesOf(BankPart(m, n)) \in Seq(Byte) /\ Len(BytesOf(BankPart(m, n))) = 2 * n
<1> DEFINE i == m - \h4000 + 1
           k == m - \h4000 + n
           part == SubSeq(bank, i, k)
<1>1. i \in Int /\ k \in Int /\ i >= 1 /\ k <= 8 /\ k = i + n - 1 /\ n <= 8
  OBVIOUS
<1>2. bank \in [1 .. 8 -> Uint16]
  BY SlaveAssumption
<1> HIDE DEF i, k
<1>3. \A j \in i .. k : bank[j] \in Uint16
  <2> SUFFICES ASSUME NEW j \in i .. k PROVE bank[j] \in Uint16
    OBVIOUS
  <2>1. j \in 1 .. 8
    BY <1>1
  <2> QED BY <1>2, <2>1
<1>4. part \in Seq(Uint16) /\ Len(part) = IF i <= k THEN k - i + 1 ELSE 0
  BY <1>1, <1>3, SubSeqProperties
<1> HIDE DEF part
<1>5. Len(part) = n
  BY <1>1, <1>4
<1>6. BytesOf(part) \in Seq(Byte) /\ Len(BytesOf(part)) = 2 * n
  BY <1>4, <1>5, BytesOfFacts DEF IsBytesOf
<1> QED BY <1>1, <1>4, <1>5, <1>6 DEF BankPart, part, i, k

(***************************************************************************)
(* The slave's answer to a request that it has read whole.                 *)
(***************************************************************************)
LEMMA CarriedRead ==
  ASSUME NEW a \in AskType, NEW f, Carries(f, a), a.function = READ_HOLDING_REGISTERS
  PROVE  f = WithCrc(Fields(a, a.n))
BY CarriedBody

LEMMA CarriedCrc ==
  ASSUME NEW a \in AskType, NEW f, Carries(f, a)
  PROVE  \E p \in Seq(Byte) : Len(f) = Len(p) + 2 /\ CrcOf(f, Len(p))
BY CarriedBody

LEMMA AnswerOfWhole ==
  ASSUME NEW a \in AskType, bank \in Banks, Addressed(a),
         NEW f, Carries(f, a), Len(f) = 8
  PROVE  SlaveAnswer(f) = SlaveStandard(a)
<1>2. f \in Seq(Byte) /\ f[1] = a.address /\ f[2] = a.function
  BY CarriedFrame
<1>3. CrcOf(f, 6)
  <2>1. PICK p \in Seq(Byte) : Len(f) = Len(p) + 2 /\ CrcOf(f, Len(p))
    BY CarriedCrc
  <2> DEFINE l == Len(p)
             k == Len(f)
  <2>2. l \in Nat /\ k = 8
    BY LenProperties
  <2>3. k = l + 2
    BY <2>1
  <2>4. CrcOf(f, l)
    BY <2>1
  <2> HIDE DEF l, k
  <2>5. l = 6
    BY <2>2, <2>3
  <2> QED BY <2>4, <2>5
<1>4. a.address \in Byte /\ a.function \in Byte /\ a.memory \in Uint16 /\ a.n \in Uint16
  BY AskFacts
<1>5. a.address = SlaveAddress
  BY DEF Addressed
<1>6. ASSUME NEW c \in Byte PROVE Exception(f, c) = StandardException(a, c)
  <2> DEFINE q == <<a.address, 128 + a.function, c>>
  <2>1. StandardException(a, c) = WithCrc(q) /\ (128 + a.function) % 256 = 128 + a.function
    BY ExceptionFacts
  <2>2. Exception(f, c) = WithCrc(q)
    BY <1>2, <2>1 DEF Exception
  <2> QED BY <2>1, <2>2
<1>7. 1 \in Byte /\ 2 \in Byte /\ 3 \in Byte
  BY DEF Byte
<1>8. CASE a.function # READ_HOLDING_REGISTERS
  BY <1>2, <1>3, <1>5, <1>6, <1>7, <1>8 DEF SlaveAnswer, SlaveStandard
<1>9. CASE a.function = READ_HOLDING_REGISTERS
  <2> DEFINE m == a.memory
             n == a.n
             w3 == Word(f, 3)
             w5 == Word(f, 5)
             start == w3 - \h4000
             read == WithCrc(<<f[1], f[2], 2 * w5>> \o BytesOf(SubSeq(bank, start + 1, start + w5)))
  <2>1. w3 = m /\ w5 = n
    <3>1. f = WithCrc(Fields(a, a.n))
      BY <1>9, CarriedRead
    <3> QED BY <3>1, WordsOfFrame
  <2>2. SlaveAnswer(f) = IF w5 \notin 1 .. 125 THEN Exception(f, 3)
                         ELSE IF w3 < \h4000 \/ w3 + w5 > \h4008 THEN Exception(f, 2)
                         ELSE read
    BY <1>2, <1>3, <1>5, <1>9 DEF SlaveAnswer
  <2>3. SlaveStandard(a) = IF n \notin 1 .. 125 THEN StandardException(a, 3)
                           ELSE IF ~ (m >= \h4000 /\ m + n <= \h4008) THEN StandardException(a, 2)
                           ELSE StandardRead(a, BytesOf(BankPart(m, n)))
    BY <1>9 DEF SlaveStandard, BankPart
  <2>4. m \in Nat /\ n \in Nat
    BY <1>4 DEF Uint16
  <2> HIDE DEF m, n, w3, w5
  <2>5. ASSUME m >= \h4000, m + n <= \h4008
        PROVE  read = StandardRead(a, BytesOf(BankPart(m, n)))
    <3> DEFINE bytes == BytesOf(BankPart(m, n))
    <3>1. start + 1 = m - \h4000 + 1 /\ start + w5 = m - \h4000 + n /\ 2 * w5 = 2 * n
      BY <2>1
    <3>2. bytes \in Seq(Byte) /\ Len(bytes) = 2 * n /\ n <= 8
      BY <2>4, <2>5, BankFacts
    <3>a. bytes = BytesOf(SubSeq(bank, start + 1, start + w5))
      BY <3>1 DEF BankPart
    <3> HIDE DEF bytes
    <3>b. read = WithCrc(<<a.address, a.function, 2 * n>> \o bytes)
      BY <1>2, <3>1, <3>a
    <3>3. read = WithCrc(<<a.address, a.function, Len(bytes)>> \o bytes)
      BY <3>2, <3>b
    <3>4. Len(bytes) < 256
      BY <2>4, <3>2
    <3> HIDE DEF bytes, read
    <3>5. StandardRead(a, bytes) = WithCrc(<<a.address, a.function, Len(bytes)>> \o bytes)
      BY <3>2, <3>4, ReadFacts
    <3> QED BY <3>3, <3>5 DEF bytes
  <2> HIDE DEF m, n, w3, w5, read
  <2>6. w3 < \h4000 \/ w3 + w5 > \h4008 <=> ~ (m >= \h4000 /\ m + n <= \h4008)
    BY <2>1, <2>4
  <2> QED BY <1>6, <1>7, <2>1, <2>2, <2>3, <2>5, <2>6
<1> QED BY <1>8, <1>9

LEMMA SlaveAnswered ==
  ASSUME NEW a \in AskType, bank \in Banks, NEW f, Carries(f, a), Addressed(a) => ~ ByChance(f),
         NEW b, IsBuffer(b), \A i \in 1 .. 8 : b[i] = f[i]
  PROVE  SlaveAnswer(b) = IF Addressed(a) /\ Len(f) = 8 THEN SlaveStandard(a) ELSE <<>>
<1>1. b \in Seq(Byte) /\ Len(b) = 8
  BY DEF IsBuffer
<1>2. f \in Seq(Byte) /\ Len(f) \in Nat /\ Len(f) >= 8 /\ f[1] = a.address
  BY CarriedFrame
<1>3. b[1] = a.address
  <2>1. 1 \in 1 .. 8
    OBVIOUS
  <2> QED BY <1>2, <2>1
<1>4. CASE ~ Addressed(a)
  BY <1>3, <1>4 DEF SlaveAnswer, Addressed
<1>5. CASE Addressed(a) /\ Len(f) # 8
  <2>1. Len(f) > 8
    <3> DEFINE l == Len(f)
    <3>1. l \in Nat /\ l >= 8 /\ l # 8
      BY <1>2, <1>5
    <3> HIDE DEF l
    <3>2. l > 8
      BY <3>1
    <3> QED BY <3>2 DEF l
  <2>2. ~ CrcOf(f, 6)
    BY <1>5, <2>1 DEF ByChance, CrcOf
  <2>3. ~ CrcOf(b, 6)
    BY <1>1, <1>2, <2>2, SameCrc
  <2> QED BY <1>5, <2>3 DEF SlaveAnswer
<1>6. CASE Addressed(a) /\ Len(f) = 8
  <2>1. \A i \in 1 .. Len(b) : b[i] = f[i]
    BY <1>1
  <2>2. b = f
    BY <1>1, <1>2, <1>6, <2>1, SeqEqual
  <2> QED BY <1>6, <2>2, AnswerOfWhole
<1> QED BY <1>4, <1>5, <1>6

\* Whatever the slave has read, it answers bytes.
LEMMA SlaveAnswerIsBytes ==
  ASSUME bank \in Banks, NEW b, IsBuffer(b)
  PROVE  SlaveAnswer(b) \in Seq(Byte)
<1>1. b \in Seq(Byte) /\ Len(b) = 8
  BY DEF IsBuffer
<1>2. b[1] \in Byte /\ b[2] \in Byte /\ b[3] \in Byte /\ b[4] \in Byte /\ b[5] \in Byte /\ b[6] \in Byte
  <2>1. \A i \in 1 .. Len(b) : b[i] \in Byte
    BY <1>1, ElementOfSeq
  <2>2. \A i \in 1 .. 8 : b[i] \in Byte
    BY <1>1, <2>1
  <2> QED BY <2>2
<1>3. <<>> \in Seq(Byte)
  BY EmptySeq
<1>4. \A c \in {1, 2, 3} : Exception(b, c) \in Seq(Byte)
  <2> SUFFICES ASSUME NEW c \in {1, 2, 3} PROVE Exception(b, c) \in Seq(Byte)
    OBVIOUS
  <2> DEFINE x == b[1]
             y == b[2]
             z == (128 + y) % 256
  <2>1. x \in Byte /\ y \in Byte /\ c \in Byte
    BY <1>2 DEF Byte
  <2> HIDE DEF x, y
  <2>2. z \in Byte
    BY <2>1 DEF Byte
  <2> HIDE DEF z
  <2>3. <<x, z, c>> \in Seq(Byte)
    BY <2>1, <2>2, Tuples
  <2>4. Exception(b, c) = WithCrc(<<x, z, c>>)
    BY DEF Exception, x, y, z
  <2> QED BY <2>3, <2>4, WithCrcFacts
<1> DEFINE m == Word(b, 3)
           n == Word(b, 5)
           start == m - \h4000
           head == <<b[1], b[2], 2 * n>>
           bytes == BytesOf(SubSeq(bank, start + 1, start + n))
<1>5. m \in Nat /\ n \in Nat
  <2>1. m = 256 * b[3] + b[4] /\ n = 256 * b[5] + b[6]
    <3>1. 3 + 1 = 4 /\ 5 + 1 = 6
      OBVIOUS
    <3> QED BY <3>1 DEF Word
  <2>2. b[3] \in Nat /\ b[4] \in Nat /\ b[5] \in Nat /\ b[6] \in Nat
    BY <1>2 DEF Byte
  <2> HIDE DEF m, n
  <2> QED BY <2>1, <2>2
<1>6. ASSUME m >= \h4000, m + n <= \h4008 PROVE WithCrc(head \o bytes) \in Seq(Byte)
  <2> HIDE DEF m, n
  <2>1. bytes = BytesOf(BankPart(m, n))
    BY DEF BankPart
  <2>2. bytes \in Seq(Byte) /\ n <= 8
    BY <1>5, <1>6, <2>1, BankFacts
  <2>3. 2 * n \in Byte
    BY <1>5, <2>2 DEF Byte
  <2>4. head \in Seq(Byte)
    BY <1>2, <2>3, Tuples
  <2> HIDE DEF head, bytes
  <2>5. head \o bytes \in Seq(Byte)
    BY <2>2, <2>4, Joined
  <2> QED BY <2>5, WithCrcFacts
<1>7. \/ SlaveAnswer(b) = <<>> \/ \E c \in {1, 2, 3} : SlaveAnswer(b) = Exception(b, c)
      \/ m >= \h4000 /\ m + n <= \h4008 /\ SlaveAnswer(b) = WithCrc(head \o bytes)
  <2> DEFINE low == m < \h4000 \/ m + n > \h4008
  <2>1. ~ low => m >= \h4000 /\ m + n <= \h4008
    <3> HIDE DEF m, n
    <3> QED BY <1>5
  <2>2. SlaveAnswer(b) =
          IF b[1] # SlaveAddress \/ ~ CrcOf(b, 6) THEN <<>>
          ELSE IF b[2] # READ_HOLDING_REGISTERS THEN Exception(b, 1)
          ELSE IF n \notin 1 .. 125 THEN Exception(b, 3)
          ELSE IF low THEN Exception(b, 2)
          ELSE WithCrc(head \o bytes)
    BY DEF SlaveAnswer
  <2> HIDE DEF m, n, low, head, bytes
  <2> QED BY <2>1, <2>2
<1>8. CASE SlaveAnswer(b) = <<>>
  BY <1>3, <1>8
<1>9. CASE \E c \in {1, 2, 3} : SlaveAnswer(b) = Exception(b, c)
  BY <1>4, <1>9
<1>10. CASE m >= \h4000 /\ m + n <= \h4008 /\ SlaveAnswer(b) = WithCrc(head \o bytes)
  BY <1>6, <1>10
<1> QED BY <1>7, <1>8, <1>9, <1>10

-----------------------------------------------------------------------------
(***************************************************************************)
(* The master's check of a frame that its buffer starts with.              *)
(***************************************************************************)
\* What is asked of master_send_req and not refused is one of nine functions.
LEMMA FunctionRange ==
  ASSUME NEW a \in AskType, ~ Refused(a)
  PROVE  a.function \in Functions /\ a.function \in 1 .. 23
BY DEF Refused, Functions, ReadsBits, ReadsWords, WritesOne, WritesMany, READ_COILS,
       READ_DISCRETE_INPUTS, READ_HOLDING_REGISTERS, READ_INPUT_REGISTERS, WRITE_SINGLE_COIL,
       WRITE_SINGLE_REGISTER, WRITE_MULTIPLE_COILS, WRITE_MULTIPLE_REGISTERS,
       READ_OR_WRITE_MULTIPLE_REGISTERS

LEMMA FirstFourDiffer ==
  ASSUME NEW b \in Seq(Byte), Len(b) >= 4, b[2] # 0
  PROVE  First(4, b) # <<0, 0, 0, 0>>
<1>1. 4 \in Nat /\ 4 <= Len(b)
  OBVIOUS
<1>2. \A i \in 1 .. 4 : First(4, b)[i] = b[i]
  BY <1>1, FirstFacts
<1>3. First(4, b)[2] = b[2]
  BY <1>2
<1>4. <<0, 0, 0, 0>>[2] = 0
  OBVIOUS
<1> QED BY <1>3, <1>4

LEMMA HeardHead ==
  ASSUME NEW p \in Seq(Byte), Len(p) >= 3, p[2] # 0,
         NEW b \in Seq(Byte), Starts(b, WithCrc(p))
  PROVE  /\ First(4, b) # <<0, 0, 0, 0>> /\ b[1] = p[1] /\ b[2] = p[2] /\ b[3] = p[3]
         /\ CrcOf(b, Len(p)) /\ Starts(b, p)
<1>1. CrcOf(b, Len(p)) /\ Starts(b, p)
  BY CrcOfStart
<1>2. \A i \in 1 .. Len(p) : b[i] = p[i]
  BY <1>1 DEF Starts
<1>3. b[1] = p[1] /\ b[2] = p[2] /\ b[3] = p[3]
  BY <1>2
<1>4. Len(b) >= 4
  <2> DEFINE w == WithCrc(p)
             l == Len(p)
             m == Len(w)
             n == Len(b)
  <2>1. l >= 3 /\ l \in Nat
    BY LenProperties
  <2>2. m = l + 2
    BY WithCrcFacts
  <2>3. n >= m
    BY DEF Starts
  <2>4. n \in Nat
    BY LenProperties
  <2> HIDE DEF l, m, n
  <2>5. n >= 4
    BY <2>1, <2>2, <2>3, <2>4
  <2> QED BY <2>5 DEF n
<1>5. First(4, b) # <<0, 0, 0, 0>>
  BY <1>3, <1>4, FirstFourDiffer
<1> QED BY <1>1, <1>3, <1>5

LEMMA PairOf ==
  ASSUME NEW s \in Seq(Byte), Len(s) >= 3
  PROVE  SubSeq(s, 2, 3) = <<s[2], s[3]>>
<1> DEFINE t == SubSeq(s, 2, 3)
           u == <<s[2], s[3]>>
<1>1. \A i \in 2 .. 3 : s[i] \in Byte
  <2>1. \A i \in 2 .. 3 : i \in 1 .. Len(s)
    OBVIOUS
  <2>2. \A i \in 1 .. Len(s) : s[i] \in Byte
    BY ElementOfSeq
  <2> QED BY <2>1, <2>2
<1>2. t \in Seq(Byte) /\ Len(t) = 2 /\ \A i \in 1 .. 2 : t[i] = s[2 + i - 1]
  BY <1>1, SubSeqProperties
<1>3. s[2] \in Byte /\ s[3] \in Byte
  BY <1>1
<1>4. u \in Seq(Byte) /\ Len(u) = 2 /\ u[1] = s[2] /\ u[2] = s[3]
  BY <1>3, Tuples
<1>5. t[1] = s[2] /\ t[2] = s[3]
  BY <1>2
<1> HIDE DEF t, u
<1>6. \A i \in 1 .. Len(t) : t[i] = u[i]
  BY <1>2, <1>4, <1>5
<1>7. t = u
  BY <1>2, <1>4, <1>6, SeqEqual
<1> QED BY <1>7 DEF t, u

\* What the driver gets of a frame that carried the data of request a.
Read(a, f) == [to |-> a, frame |-> f]

LEMMA ExceptionTaken ==
  ASSUME NEW a \in AskType, ~ Refused(a), NEW c \in 1 .. 4,
         NEW b \in Seq(Byte), Starts(b, StandardException(a, c))
  PROVE  Checked(b, a) = Content(Read(a, StandardException(a, c)))
<1> DEFINE q == <<a.address, 128 + a.function, c>>
           f == StandardException(a, c)
<1>1. c \in Byte
  BY DEF Byte
<1>2. /\ q \in Seq(Byte) /\ Len(q) = 3 /\ q[1] = a.address /\ q[2] = 128 + a.function
      /\ q[3] = c /\ f = WithCrc(q)
  BY <1>1, ExceptionFacts
<1>3. a.function \in 1 .. 23
  BY FunctionRange
<1> DEFINE x == 128 + a.function
<1>x. x # 0 /\ x > 128 /\ x # a.function /\ a.function + 128 = x
  <2> DEFINE y == a.function
  <2>1. y \in 1 .. 23
    BY <1>3
  <2> HIDE DEF y
  <2>2. 128 + y # 0 /\ 128 + y > 128 /\ 128 + y # y /\ y + 128 = 128 + y
    BY <2>1
  <2> QED BY <2>2 DEF y
<1>y. q[2] = x
  BY <1>2
<1> HIDE DEF q, f, x
<1>4. /\ f \in Seq(Byte) /\ Len(f) = Len(q) + 2
      /\ \A i \in 1 .. Len(q) : f[i] = q[i]
  BY <1>2, WithCrcFacts
<1>5. f[2] = x /\ f[3] = c /\ Len(f) >= 3
  BY <1>2, <1>y, <1>4
<1>6. /\ First(4, b) # <<0, 0, 0, 0>> /\ b[1] = a.address /\ b[2] = x
      /\ b[3] = c /\ CrcOf(b, 3)
  <2>1. Starts(b, WithCrc(q))
    BY <1>2 DEF f
  <2>2. Len(q) >= 3 /\ q[2] # 0
    BY <1>2, <1>x, <1>y
  <2>3. /\ First(4, b) # <<0, 0, 0, 0>> /\ b[1] = q[1] /\ b[2] = q[2] /\ b[3] = q[3]
        /\ CrcOf(b, Len(q))
    BY <1>2, <2>1, <2>2, HeardHead
  <2>4. CrcOf(b, 3)
    BY <1>2, <2>3
  <2> QED BY <1>2, <1>y, <2>3, <2>4
<1>7. Checked(b, a) = Accepts("exception", <<x, c>>)
  <2>1. Checked(b, a) = CheckedException(b)
    BY <1>x, <1>6 DEF Checked
  <2> QED BY <1>6, <2>1 DEF CheckedException
<1>8. Content(Read(a, f)) = Accepts("exception", SubSeq(f, 2, 3))
  BY <1>x, <1>5 DEF Content, Read
<1>9. SubSeq(f, 2, 3) = <<f[2], f[3]>>
  BY <1>4, <1>5, PairOf
<1> QED BY <1>5, <1>7, <1>8, <1>9 DEF f

LEMMA WriteTaken ==
  ASSUME NEW a \in AskType, ~ Refused(a), a.function \in WritesOne \cup WritesMany,
         NEW b \in Seq(Byte), Starts(b, WithCrc(Fields(a, a.n)))
  PROVE  Checked(b, a) = Content(Read(a, WithCrc(Fields(a, a.n))))
<1> DEFINE p == Fields(a, a.n)
           f == WithCrc(p)
<1>1. p \in Seq(Byte) /\ Len(p) = 6 /\ p[1] = a.address /\ p[2] = a.function
  <2>1. a.n \in Uint16
    BY AskFacts
  <2> QED BY <2>1, FieldsFacts
<1>2. /\ f \in Seq(Byte) /\ Len(f) = 8 /\ f[1] = a.address /\ f[2] = a.function
      /\ Word(f, 3) = a.memory /\ Word(f, 5) = a.n
  BY WordsOfFrame
<1>3. a.function \in 1 .. 23
  BY FunctionRange
<1>4. a.function # a.function + 128 /\ ~ (a.function > 128) /\ a.function # 0
  <2> DEFINE y == a.function
  <2>1. y \in 1 .. 23
    BY <1>3
  <2> HIDE DEF y
  <2>2. y # y + 128 /\ ~ (y > 128) /\ y # 0
    BY <2>1
  <2> QED BY <2>2 DEF y
<1>n. a.function \notin ReadsBits
  BY FunctionCases
<1> HIDE DEF p, f
<1>5. /\ First(4, b) # <<0, 0, 0, 0>> /\ b[1] = p[1] /\ b[2] = p[2]
      /\ CrcOf(b, Len(p))
  <2>1. Starts(b, WithCrc(p))
    BY DEF p
  <2>2. Len(p) >= 3 /\ p[2] # 0
    BY <1>1, <1>4
  <2> QED BY <1>1, <2>1, <2>2, HeardHead
<1>6. CrcOf(b, 6)
  BY <1>1, <1>5
<1>7. Word(b, 3) = a.memory /\ Word(b, 5) = a.n
  <2>1. \A i \in 1 .. Len(f) : b[i] = f[i]
    BY DEF Starts, f, p
  <2>2. \A i \in 1 .. 8 : b[i] = f[i]
    BY <1>2, <2>1
  <2>3. b[3] = f[3] /\ b[4] = f[4] /\ b[5] = f[5] /\ b[6] = f[6]
    BY <2>2
  <2>4. 3 + 1 = 4 /\ 5 + 1 = 6
    OBVIOUS
  <2> QED BY <1>2, <2>3, <2>4 DEF Word
<1>8. Checked(b, a) = Accepts("success", <<a.n>>)
  <2> DEFINE y == a.function
  <2>a. y \in WritesOne \cup WritesMany /\ y # y + 128 /\ y \notin ReadsBits
    BY <1>4, <1>n
  <2>b. First(4, b) # <<0, 0, 0, 0>> /\ b[1] = a.address /\ b[2] = y
    BY <1>1, <1>5
  <2> HIDE DEF y
  <2>1. Checked(b, a) = CheckedWrite(b, a)
    BY <2>a, <2>b DEF Checked, y
  <2> QED BY <1>6, <1>7, <2>1 DEF CheckedWrite
<1>9. Content(Read(a, f)) = Accepts("success", <<a.n>>)
  BY <1>2, <1>4 DEF Content, Read
<1> QED BY <1>8, <1>9 DEF f, p

\* The data of an answer, whole in the buffer or in the frame.
LEMMA DataOf ==
  ASSUME NEW q \in Seq(Byte), NEW n \in 1 .. 250, Len(q) = 3 + n,
         NEW b \in Seq(Byte), Starts(b, WithCrc(q))
  PROVE  SubSeq(b, 4, 3 + n) = SubSeq(WithCrc(q), 4, Len(WithCrc(q)) - 2)
<1> DEFINE f == WithCrc(q)
           l == Len(q)
           k == Len(f)
           s == SubSeq(b, 4, l)
           t == SubSeq(f, 4, l)
<1>1. f \in Seq(Byte) /\ k = l + 2 /\ Starts(b, f) /\ l = 3 + n /\ l \in Nat
  BY WithCrcFacts
<1>2. k - 2 = l /\ k >= l /\ l >= 4
  <2> HIDE DEF k, l
  <2> QED BY <1>1
<1>3. \A i \in 4 .. l : f[i] \in Byte /\ b[i] = f[i]
  <2>1. \A i \in 1 .. k : f[i] \in Byte
    BY <1>1, ElementOfSeq
  <2>2. \A i \in 1 .. k : b[i] = f[i]
    BY <1>1 DEF Starts
  <2> HIDE DEF k, l, f
  <2>3. \A i \in 4 .. l : i \in 1 .. k
    <3>1. k \in Int /\ l \in Int
      BY <1>1
    <3> QED BY <1>2, <3>1
  <2> QED BY <2>1, <2>2, <2>3
<1> HIDE DEF f, l, k
<1>4. 4 \in Int /\ l \in Int /\ \A i \in 4 .. l : b[i] \in Byte
  BY <1>1, <1>3
<1>5. /\ s \in Seq(Byte) /\ Len(s) = (IF 4 <= l THEN l - 4 + 1 ELSE 0)
      /\ \A i \in 1 .. l - 4 + 1 : s[i] = b[4 + i - 1]
  BY <1>4, SubSeqProperties
<1>6. /\ t \in Seq(Byte) /\ Len(t) = (IF 4 <= l THEN l - 4 + 1 ELSE 0)
      /\ \A i \in 1 .. l - 4 + 1 : t[i] = f[4 + i - 1]
  BY <1>3, <1>4, SubSeqProperties
<1> HIDE DEF s, t
<1>7. Len(s) = l - 4 + 1 /\ Len(t) = l - 4 + 1
  BY <1>2, <1>5, <1>6
<1>8. \A i \in 1 .. l - 4 + 1 : s[i] = t[i]
  <2>1. \A i \in 1 .. l - 4 + 1 : 4 + i - 1 \in 4 .. l
    BY <1>4
  <2> QED BY <1>3, <1>5, <1>6, <2>1
<1>9. s = t
  BY <1>5, <1>6, <1>7, <1>8, SeqEqual
<1> QED BY <1>1, <1>2, <1>9 DEF s, t, f, k, l

LEMMA ReadTaken ==
  ASSUME NEW a \in AskType, ~ Refused(a), a.function \notin WritesOne \cup WritesMany,
         NEW bytes \in Seq(Byte), Len(bytes) \in 1 .. 250,
         a.function \in ReadsBits \/ Len(bytes) >= 2,
         NEW b \in Seq(Byte), Starts(b, StandardRead(a, bytes))
  PROVE  Checked(b, a) = Content(Read(a, StandardRead(a, bytes)))
<1> DEFINE n == Len(bytes)
           q == <<a.address, a.function, n>> \o bytes
           f == WithCrc(q)
           y == a.function
           data == SubSeq(b, 4, 3 + n)
<1>1. n \in 1 .. 250 /\ n < 256
  <2>1. n \in 1 .. 250
    OBVIOUS
  <2> HIDE DEF n
  <2>2. n < 256
    BY <2>1
  <2> QED BY <2>1, <2>2
<1>2. /\ q \in Seq(Byte) /\ Len(q) = 3 + n /\ q[1] = a.address /\ q[2] = y /\ q[3] = n
      /\ StandardRead(a, bytes) = f
  BY <1>1, ReadFacts
<1>3. y \in 1 .. 23 /\ y \in Functions
  BY FunctionRange
<1>4. y \notin WritesOne /\ y \notin WritesMany /\ (y \in ReadsBits \/ n >= 2)
  OBVIOUS
<1>5. Starts(b, f)
  BY <1>2
<1> HIDE DEF n, q, y
<1>6. y # y + 128 /\ ~ (y > 128) /\ y # 0
  BY <1>3
<1>7. /\ First(4, b) # <<0, 0, 0, 0>> /\ b[1] = q[1] /\ b[2] = q[2] /\ b[3] = q[3]
      /\ CrcOf(b, Len(q))
  <2>1. Len(q) >= 3
    BY <1>1, <1>2
  <2>2. q[2] # 0
    BY <1>2, <1>6
  <2> QED BY <1>2, <1>5, <2>1, <2>2, HeardHead
<1>8. CrcOf(b, 3 + n)
  BY <1>2, <1>7
<1>9. f \in Seq(Byte) /\ f[2] = y
  <2>1. f \in Seq(Byte) /\ \A i \in 1 .. Len(q) : f[i] = q[i]
    BY <1>2, WithCrcFacts
  <2>2. 2 \in 1 .. Len(q)
    BY <1>1, <1>2
  <2> QED BY <1>2, <2>1, <2>2
<1>10. data = SubSeq(f, 4, Len(f) - 2)
  BY <1>1, <1>2, <1>5, DataOf
<1> HIDE DEF f, data
<1>11. Content(Read(a, f)) = Accepts("success", IF y \in ReadsBits THEN data ELSE Words(data))
  BY <1>4, <1>6, <1>9, <1>10 DEF Content, Read, y
<1>12. CASE y \in ReadsBits
  <2>1. Checked(b, a) = CheckedBits(b)
    BY <1>2, <1>4, <1>6, <1>7, <1>12 DEF Checked, y
  <2>2. b[3] \in 1 .. 251
    BY <1>1, <1>2, <1>7
  <2>3. CheckedBits(b) = Accepts("success", data)
    BY <1>2, <1>7, <1>8, <2>2 DEF CheckedBits, data
  <2> QED BY <1>2, <1>11, <1>12, <2>1, <2>3
<1>13. CASE y \notin ReadsBits
  <2>1. Checked(b, a) = CheckedWords(b)
    BY <1>2, <1>4, <1>6, <1>7, <1>13 DEF Checked, y
  <2>2. b[3] \in 2 .. 250
    BY <1>1, <1>2, <1>4, <1>7, <1>13
  <2>3. CheckedWords(b) = Accepts("success", Words(data))
    BY <1>2, <1>7, <1>8, <2>2 DEF CheckedWords, data
  <2> QED BY <1>2, <1>11, <1>13, <2>1, <2>3
<1> QED BY <1>12, <1>13

\* What a slave or a device may reply to the request a.
Carried(bytes, a) == /\ Len(bytes) \in 1 .. 250
                     /\ a.function \in ReadsBits \/ Len(bytes) >= 2
IsReply(f, a) ==
  \/ \E c \in 1 .. 4 : f = StandardException(a, c)
  \/ a.function \in WritesOne \cup WritesMany /\ f = WithCrc(Fields(a, a.n))
  \/ /\ a.function \notin WritesOne \cup WritesMany
     /\ \E bytes \in Seq(Byte) : Carried(bytes, a) /\ f = StandardRead(a, bytes)

LEMMA ReplyTaken ==
  ASSUME NEW a \in AskType, ~ Refused(a), NEW f, IsReply(f, a),
         NEW b \in Seq(Byte), Starts(b, f)
  PROVE  Checked(b, a) = Content(Read(a, f))
<1>1. CASE \E c \in 1 .. 4 : f = StandardException(a, c)
  <2>1. PICK c \in 1 .. 4 : f = StandardException(a, c)
    BY <1>1
  <2> QED BY <2>1, ExceptionTaken
<1>2. CASE a.function \in WritesOne \cup WritesMany /\ f = WithCrc(Fields(a, a.n))
  BY <1>2, WriteTaken
<1>3. CASE /\ a.function \notin WritesOne \cup WritesMany
           /\ \E bytes \in Seq(Byte) : Carried(bytes, a) /\ f = StandardRead(a, bytes)
  <2>1. PICK bytes \in Seq(Byte) : Carried(bytes, a) /\ f = StandardRead(a, bytes)
    BY <1>3
  <2>2. Len(bytes) \in 1 .. 250 /\ (a.function \in ReadsBits \/ Len(bytes) >= 2)
    BY <2>1 DEF Carried
  <2>3. Starts(b, StandardRead(a, bytes))
    BY <2>1
  <2>4. Checked(b, a) = Content(Read(a, StandardRead(a, bytes)))
    BY ONLY a \in AskType, ~ Refused(a), <1>3, <2>2, <2>3, b \in Seq(Byte), ReadTaken
  <2> QED BY <2>1, <2>4
<1> QED BY <1>1, <1>2, <1>3 DEF IsReply

LEMMA ReplyIsBytes ==
  ASSUME NEW a \in AskType, NEW f, IsReply(f, a)
  PROVE  f \in Seq(Byte)
<1>1. ASSUME NEW c \in 1 .. 4, f = StandardException(a, c) PROVE f \in Seq(Byte)
  <2>1. c \in Byte
    BY DEF Byte
  <2> DEFINE q == <<a.address, 128 + a.function, c>>
  <2>2. q \in Seq(Byte) /\ f = WithCrc(q)
    BY <1>1, <2>1, ExceptionFacts
  <2> HIDE DEF q
  <2> QED BY <2>2, WithCrcFacts
<1>2. CASE f = WithCrc(Fields(a, a.n))
  <2>1. a.n \in Uint16
    BY AskFacts
  <2>2. Fields(a, a.n) \in Seq(Byte)
    BY <2>1, FieldsFacts
  <2> QED BY <1>2, <2>2, WithCrcFacts
<1>3. ASSUME NEW bytes \in Seq(Byte), Carried(bytes, a), f = StandardRead(a, bytes)
      PROVE  f \in Seq(Byte)
  <2> DEFINE q == <<a.address, a.function, Len(bytes)>> \o bytes
  <2>1. Len(bytes) < 256
    <3> DEFINE l == Len(bytes)
    <3>1. l \in 1 .. 250
      BY <1>3 DEF Carried
    <3> HIDE DEF l
    <3>2. l < 256
      BY <3>1
    <3> QED BY <3>2 DEF l
  <2>2. q \in Seq(Byte) /\ f = WithCrc(q)
    BY <1>3, <2>1, ReadFacts
  <2> HIDE DEF q
  <2> QED BY <2>2, WithCrcFacts
<1> QED BY <1>1, <1>2, <1>3 DEF IsReply

LEMMA WordsReply ==
  ASSUME NEW a \in AskType, a.function \notin WritesOne \cup WritesMany,
         NEW words \in Seq(Uint16), Len(words) \in 1 .. 125
  PROVE  IsReply(StandardRead(a, BytesOf(words)), a)
<1> DEFINE bytes == BytesOf(words)
           l == Len(words)
           k == Len(bytes)
<1>1. bytes \in Seq(Byte) /\ k = 2 * l
  BY BytesOfFacts DEF IsBytesOf
<1>2. l \in 1 .. 125
  OBVIOUS
<1> HIDE DEF l, k
<1>3. k \in 1 .. 250 /\ k >= 2
  BY <1>1, <1>2
<1>4. Carried(bytes, a)
  BY <1>3 DEF Carried, k
<1> HIDE DEF bytes
<1>5. IsReply(StandardRead(a, bytes), a)
  BY <1>1, <1>4 DEF IsReply
<1> QED BY <1>5 DEF bytes

LEMMA SlaveIsReply ==
  ASSUME NEW a \in AskType, bank \in Banks
  PROVE  IsReply(SlaveStandard(a), a)
<1>1. \A c \in 1 .. 4 : IsReply(StandardException(a, c), a)
  BY DEF IsReply
<1>2. CASE a.function # READ_HOLDING_REGISTERS
  BY <1>1, <1>2 DEF SlaveStandard
<1>3. CASE a.function = READ_HOLDING_REGISTERS
  <2> DEFINE m == a.memory
             n == a.n
             read == StandardRead(a, BytesOf(BankPart(m, n)))
  <2>1. SlaveStandard(a) = IF n \notin 1 .. 125 THEN StandardException(a, 3)
                           ELSE IF ~ (m >= \h4000 /\ m + n <= \h4008) THEN StandardException(a, 2)
                           ELSE read
    BY <1>3 DEF SlaveStandard, BankPart
  <2>2. m \in Nat /\ n \in Nat
    BY AskFacts DEF Uint16
  <2>3. a.function \notin WritesOne \cup WritesMany
    BY <1>3 DEF WritesOne, WritesMany, READ_HOLDING_REGISTERS, WRITE_SINGLE_COIL,
                WRITE_SINGLE_REGISTER, WRITE_MULTIPLE_COILS, WRITE_MULTIPLE_REGISTERS
  <2> HIDE DEF m, n
  <2>4. ASSUME n \in 1 .. 125, m >= \h4000, m + n <= \h4008 PROVE IsReply(read, a)
    <3>1. BankPart(m, n) \in Seq(Uint16) /\ Len(BankPart(m, n)) = n
      BY <2>2, <2>4, BankFacts
    <3> DEFINE words == BankPart(m, n)
    <3>2. words \in Seq(Uint16) /\ Len(words) \in 1 .. 125
      BY <2>4, <3>1
    <3> HIDE DEF words
    <3>3. IsReply(StandardRead(a, BytesOf(words)), a)
      BY <2>3, <3>2, WordsReply
    <3> QED BY <3>3 DEF words
  <2> HIDE DEF read
  <2> QED BY <1>1, <2>1, <2>4
<1> QED BY <1>2, <1>3

LEMMA DeviceIsReply ==
  ASSUME NEW a \in AskType, ~ Refused(a), bank \in Banks
  PROVE  IsReply(DeviceReply(a), a)
<1>0. a.n \in Uint16
  BY AskFacts
<1>1. CASE a.function \in WritesOne \cup WritesMany
  <2>1. Fields(a, a.n) \in Seq(Byte)
    BY <1>0, FieldsFacts
  <2>2. StandardCrc(Fields(a, a.n)) = WithCrc(Fields(a, a.n))
    BY <2>1, WithCrcFacts
  <2>3. a.function \notin ReadsBits
    BY <1>1, FunctionCases
  <2>4. DeviceReply(a) = StandardCrc(Fields(a, a.n))
    BY <1>1, <2>3 DEF DeviceReply, Fields
  <2> QED BY <1>1, <2>2, <2>4 DEF IsReply
<1>2. CASE a.function \notin WritesOne \cup WritesMany /\ a.function \in ReadsBits
  <2> DEFINE n == BytesFor(a.n)
             bytes == [i \in 1 .. n |-> 255]
  <2>1. n \in 1 .. 250
    <3> DEFINE k == a.n
    <3>1. k \in Nat /\ k \in 1 .. 2000
      BY <1>0, <1>2 DEF Refused, Uint16
    <3> HIDE DEF k
    <3>2. (k + 7) \div 8 \in 1 .. 250
      BY <3>1
    <3> QED BY <3>2 DEF BytesFor, k
  <2> HIDE DEF n
  <2>2. 255 \in Byte
    BY DEF Byte
  <2>3. bytes \in [1 .. n -> Byte]
    BY <2>2
  <2>4. bytes \in Seq(Byte) /\ Len(bytes) = n
    BY <2>1, <2>3, SeqOfFunction
  <2>5. DeviceReply(a) = StandardRead(a, bytes)
    BY <1>2 DEF DeviceReply, n
  <2> HIDE DEF bytes
  <2>6. Carried(bytes, a)
    BY <1>2, <2>1, <2>4 DEF Carried
  <2> QED BY <1>2, <2>4, <2>5, <2>6 DEF IsReply
<1>3. CASE a.function \notin WritesOne \cup WritesMany /\ a.function \notin ReadsBits
  <2> DEFINE n == a.n
             words == [i \in 1 .. n |-> bank[((i - 1) % 8) + 1]]
  <2>1. n \in 1 .. 125
    <3>1. a.function \in Functions
      BY FunctionRange
    <3>2. a.function \in ReadsWords \/ a.function = READ_OR_WRITE_MULTIPLE_REGISTERS
      BY <1>3, <3>1 DEF Functions
    <3>3. n \in 1 .. 125 \/ n \in 1 .. 123
      BY <3>2 DEF Refused
    <3> HIDE DEF n
    <3> QED BY <3>3
  <2> HIDE DEF n
  <2>2. \A i \in 1 .. n : bank[((i - 1) % 8) + 1] \in Uint16
    <3>1. bank \in [1 .. 8 -> Uint16]
      BY SlaveAssumption
    <3>2. \A i \in 1 .. n : ((i - 1) % 8) + 1 \in 1 .. 8
      BY <2>1
    <3> QED BY <3>1, <3>2
  <2>3. words \in [1 .. n -> Uint16]
    BY <2>2
  <2>4. words \in Seq(Uint16) /\ Len(words) = n
    BY <2>1, <2>3, SeqOfFunction
  <2>5. DeviceReply(a) = StandardRead(a, BytesOf(words))
    BY <1>3 DEF DeviceReply, n
  <2> HIDE DEF words
  <2> QED BY <1>3, <2>1, <2>4, <2>5, WordsReply
<1> QED BY <1>1, <1>2, <1>3

-----------------------------------------------------------------------------
(***************************************************************************)
(* The exchanges.                                                          *)
(***************************************************************************)
SoundRequest(f, a) == /\ a \in Asks \cup OtherAsks /\ Carries(f, a)
                      /\ a \in Asks => ~ Refused(a)
                      /\ Addressed(a) => ~ ByChance(f)

BufferInv == /\ bank \in Banks /\ IsBuffer(modbus_slave_buffer)
             /\ modbus_master_buffer \in Seq(Byte) /\ reply \in Seq(Byte)
SentInv == /\ phase = "sent" => request = <<>> \/ SoundRequest(request, asked)
           /\ phase \in {"heard", "answered", "device", "checked"} => SoundRequest(request, asked)
HeardInv == phase = "heard" /\ wholeRequest =>
              \A i \in 1 .. 8 : modbus_slave_buffer[i] = request[i]
ReplyInv == /\ phase \in {"answered", "device", "checked"} /\ wholeRequest
                 /\ asked \in Asks /\ reply # <<>> => IsReply(reply, asked)
            /\ phase = "checked" => asked \in Asks /\ reply # <<>>
ExchangeInv == /\ BufferInv /\ SentInv /\ HeardInv /\ ReplyInv
               /\ WholeAnswered /\ WholeTaken

LEMMA ExchangeInit == Init => ExchangeInv
<1> SUFFICES ASSUME Init PROVE ExchangeInv
  OBVIOUS
<1>1. phase = "idle" /\ bank \in Banks /\ reply = <<>> /\ modbus_master_buffer = <<>>
      /\ modbus_slave_buffer = [i \in 1 .. 8 |-> 0]
  BY DEF Init
<1>2. <<>> \in Seq(Byte)
  BY EmptySeq
<1>3. IsBuffer([i \in 1 .. 8 |-> 0])
  <2> DEFINE zeros == [i \in 1 .. 8 |-> 0]
  <2>1. 0 \in Byte /\ 8 \in Nat
    BY DEF Byte
  <2>2. zeros \in [1 .. 8 -> Byte]
    BY <2>1
  <2> HIDE DEF zeros
  <2>3. zeros \in Seq(Byte) /\ Len(zeros) = 8
    BY <2>1, <2>2, SeqOfFunction
  <2> QED BY <2>3 DEF IsBuffer, zeros
<1>4. BufferInv
  BY <1>1, <1>2, <1>3 DEF BufferInv
<1>5. SentInv /\ HeardInv /\ ReplyInv /\ WholeAnswered /\ WholeTaken
  BY <1>1 DEF SentInv, HeardInv, ReplyInv, WholeAnswered, WholeTaken
<1> QED BY <1>4, <1>5 DEF ExchangeInv

LEMMA AskedIsSound ==
  ASSUME NothingByChance
  PROVE  /\ \A a \in Asks : ~ Refused(a) => SoundRequest(Prepared(a), a)
         /\ \A a \in OtherAsks : SoundRequest(StandardRequest(a), a)
<1>1. ASSUME NEW a \in Asks, ~ Refused(a) PROVE SoundRequest(Prepared(a), a)
  <2>1. a \in AskType
    BY MastersAssumption
  <2>2. Carries(Prepared(a), a)
    BY <1>1, <2>1, PreparedCarries
  <2>3. Addressed(a) => ~ ByChance(Prepared(a))
    BY <1>1 DEF NothingByChance
  <2> QED BY <1>1, <2>2, <2>3 DEF SoundRequest
<1>2. ASSUME NEW a \in OtherAsks PROVE SoundRequest(StandardRequest(a), a)
  <2>1. a \in AskType /\ a \notin Asks
    BY MastersAssumption
  <2>2. Sized(a) => Len(WriteBytes(a)) < 256
    BY FrameAssumption, FunctionCases
  <2>3. Carries(StandardRequest(a), a)
    BY <2>1, <2>2, StandardCarries
  <2>4. Addressed(a) => ~ ByChance(StandardRequest(a))
    BY DEF NothingByChance
  <2> QED BY <2>1, <2>3, <2>4 DEF SoundRequest
<1> QED BY <1>1, <1>2

LEMMA MasterSendsKeeps ==
  ASSUME NothingByChance, ExchangeInv, NEW a \in Asks, MasterSends(a)
  PROVE  ExchangeInv'
<1>1. /\ phase' = "sent" /\ asked' = a /\ bank' \in Banks
      /\ request' = IF Refused(a) THEN <<>> ELSE Prepared(a)
      /\ modbus_master_buffer' = Over(modbus_master_buffer, request')
      /\ modbus_slave_buffer' = modbus_slave_buffer /\ reply' = reply
  BY DEF MasterSends
<1>2. a \in AskType
  BY MastersAssumption
<1>3. request' = <<>> \/ SoundRequest(request', a)
  BY <1>1, AskedIsSound
<1>4. request' \in Seq(Byte)
  BY <1>3, CarriedFrame, EmptySeq DEF SoundRequest
<1>5. modbus_master_buffer' \in Seq(Byte)
  BY <1>1, <1>4, OverFacts DEF ExchangeInv, BufferInv
<1>6. BufferInv'
  BY <1>1, <1>5 DEF ExchangeInv, BufferInv
<1>7. SentInv'
  BY <1>1, <1>3 DEF SentInv
<1>8. HeardInv' /\ ReplyInv' /\ WholeAnswered' /\ WholeTaken'
  BY <1>1 DEF HeardInv, ReplyInv, WholeAnswered, WholeTaken
<1> QED BY <1>6, <1>7, <1>8 DEF ExchangeInv

LEMMA OtherSendsKeeps ==
  ASSUME NothingByChance, ExchangeInv, NEW a \in OtherAsks, OtherSends(a)
  PROVE  ExchangeInv'
<1>1. /\ phase' = "sent" /\ asked' = a /\ bank' \in Banks /\ request' = StandardRequest(a)
      /\ modbus_master_buffer' = modbus_master_buffer
      /\ modbus_slave_buffer' = modbus_slave_buffer /\ reply' = reply
  BY DEF OtherSends
<1>2. SoundRequest(request', a)
  BY <1>1, AskedIsSound
<1>3. BufferInv'
  BY <1>1 DEF ExchangeInv, BufferInv
<1>4. SentInv'
  BY <1>1, <1>2 DEF SentInv
<1>5. HeardInv' /\ ReplyInv' /\ WholeAnswered' /\ WholeTaken'
  BY <1>1 DEF HeardInv, ReplyInv, WholeAnswered, WholeTaken
<1> QED BY <1>3, <1>4, <1>5 DEF ExchangeInv

LEMMA SlaveHearsKeeps ==
  ASSUME ExchangeInv, SlaveHears
  PROVE  ExchangeInv'
<1>1. PICK heard \in {request} \cup Heard(request) :
        /\ modbus_slave_buffer' = First(8, Over(modbus_slave_buffer, heard))
        /\ wholeRequest' = (heard = request)
        /\ phase' = IF heard = <<>> THEN "answered" ELSE "heard"
  BY DEF SlaveHears
<1>a. phase' \in {"heard", "answered"} /\ (phase' = "answered" => heard = <<>>)
  BY <1>1
<1>2. /\ phase = "sent" /\ request # <<>> /\ asked' = asked /\ bank' = bank
      /\ request' = request /\ reply' = reply /\ modbus_master_buffer' = modbus_master_buffer
  BY DEF SlaveHears
<1>3. SoundRequest(request, asked)
  BY <1>2 DEF ExchangeInv, SentInv
<1>4. request \in Seq(Byte) /\ Len(request) >= 8
  BY <1>3, CarriedFrame DEF SoundRequest
<1>5. heard \in Seq(Byte)
  BY <1>4, HeardFacts
<1>6. /\ IsBuffer(modbus_slave_buffer')
      /\ Len(heard) >= 8 => \A i \in 1 .. 8 : modbus_slave_buffer'[i] = heard[i]
  BY <1>1, <1>5, SlaveBufferFacts DEF ExchangeInv, BufferInv
<1>7. BufferInv'
  BY <1>2, <1>6 DEF ExchangeInv, BufferInv
<1>8. SentInv'
  BY <1>2, <1>3, <1>a DEF SentInv
<1>9. HeardInv'
  BY <1>1, <1>2, <1>4, <1>6 DEF HeardInv
<1>b. phase' = "answered" => ~ wholeRequest'
  BY <1>1, <1>2, <1>a
<1>10. ReplyInv' /\ WholeAnswered' /\ WholeTaken'
  BY <1>2, <1>a, <1>b DEF ReplyInv, WholeAnswered, WholeTaken
<1> QED BY <1>7, <1>8, <1>9, <1>10 DEF ExchangeInv

LEMMA SlaveSendRespKeeps ==
  ASSUME ExchangeInv, SlaveSendResp
  PROVE  ExchangeInv'
<1>1. /\ phase = "heard" /\ reply' = SlaveAnswer(modbus_slave_buffer)
      /\ modbus_slave_buffer' = First(8, Over(modbus_slave_buffer, reply'))
      /\ phase' = "answered" /\ asked' = asked /\ bank' = bank /\ request' = request
      /\ modbus_master_buffer' = modbus_master_buffer /\ wholeRequest' = wholeRequest
  BY DEF SlaveSendResp
<1>2. SoundRequest(request, asked) /\ bank \in Banks /\ IsBuffer(modbus_slave_buffer)
  BY <1>1 DEF ExchangeInv, SentInv, BufferInv
<1>3. asked \in AskType
  BY <1>2, MastersAssumption DEF SoundRequest
<1>4. reply' \in Seq(Byte)
  BY <1>1, <1>2, SlaveAnswerIsBytes
<1>5. IsBuffer(modbus_slave_buffer')
  BY <1>1, <1>2, <1>4, SlaveBufferFacts
<1>6. BufferInv'
  BY <1>1, <1>4, <1>5 DEF ExchangeInv, BufferInv
<1>7. SentInv'
  BY <1>1, <1>2 DEF SentInv
<1>8. wholeRequest =>
        reply' = IF Addressed(asked) /\ Len(request) = 8 THEN SlaveStandard(asked) ELSE <<>>
  <2> SUFFICES ASSUME wholeRequest
               PROVE  reply' = IF Addressed(asked) /\ Len(request) = 8
                               THEN SlaveStandard(asked) ELSE <<>>
    OBVIOUS
  <2>1. \A i \in 1 .. 8 : modbus_slave_buffer[i] = request[i]
    BY <1>1 DEF ExchangeInv, HeardInv
  <2>2. Carries(request, asked) /\ (Addressed(asked) => ~ ByChance(request))
    BY <1>2 DEF SoundRequest
  <2> QED BY <1>1, <1>2, <1>3, <2>1, <2>2, SlaveAnswered
<1>9. SlaveStandard(asked)' = SlaveStandard(asked)
  BY <1>1 DEF SlaveStandard
<1>10. WholeAnswered'
  BY <1>1, <1>8, <1>9 DEF WholeAnswered
<1>11. ReplyInv'
  BY <1>1, <1>2, <1>3, <1>8, SlaveIsReply DEF ReplyInv
<1>12. HeardInv' /\ WholeTaken'
  BY <1>1 DEF HeardInv, WholeTaken
<1> QED BY <1>6, <1>7, <1>10, <1>11, <1>12 DEF ExchangeInv

LEMMA DeviceAnswersKeeps ==
  ASSUME ExchangeInv, DeviceAnswers
  PROVE  ExchangeInv'
<1>1. /\ phase = "answered" /\ asked \in Asks /\ phase' = "device" /\ asked' = asked
      /\ bank' = bank /\ request' = request
      /\ modbus_slave_buffer' = First(8, Over(modbus_slave_buffer, reply'))
      /\ modbus_master_buffer' = modbus_master_buffer /\ wholeRequest' = wholeRequest
      /\ reply' \in {DeviceReply(asked)} \cup {StandardException(asked, c) : c \in 1 .. 4}
  BY DEF DeviceAnswers
<1>2. SoundRequest(request, asked) /\ bank \in Banks /\ IsBuffer(modbus_slave_buffer)
  BY <1>1 DEF ExchangeInv, SentInv, BufferInv
<1>3. asked \in AskType /\ ~ Refused(asked)
  BY <1>1, <1>2, MastersAssumption DEF SoundRequest
<1>4. IsReply(reply', asked)
  <2>1. CASE reply' = DeviceReply(asked)
    BY <1>2, <1>3, <2>1, DeviceIsReply
  <2>2. CASE \E c \in 1 .. 4 : reply' = StandardException(asked, c)
    BY <2>2 DEF IsReply
  <2> QED BY <1>1, <2>1, <2>2
<1>5. reply' \in Seq(Byte)
  BY <1>3, <1>4, ReplyIsBytes
<1>a. IsBuffer(modbus_slave_buffer')
  BY <1>1, <1>2, <1>5, SlaveBufferFacts
<1>6. BufferInv'
  BY <1>1, <1>5, <1>a DEF ExchangeInv, BufferInv
<1>7. SentInv'
  BY <1>1, <1>2 DEF SentInv
<1>8. ReplyInv'
  BY <1>1, <1>4 DEF ReplyInv
<1>9. HeardInv' /\ WholeAnswered' /\ WholeTaken'
  BY <1>1 DEF HeardInv, WholeAnswered, WholeTaken
<1> QED BY <1>6, <1>7, <1>8, <1>9 DEF ExchangeInv

LEMMA MasterReceivesKeeps ==
  ASSUME ExchangeInv, MasterReceives
  PROVE  ExchangeInv'
<1>1. PICK heard \in {reply} \cup Heard(reply) :
        /\ wholeReply' = (heard = reply)
        /\ modbus_master_buffer' = Over(Over(modbus_master_buffer, <<0, 0, 0, 0>>), heard)
        /\ result' = Checked(modbus_master_buffer', asked)
  BY DEF MasterReceives
<1>2. /\ phase \in {"answered", "device"} /\ asked \in Asks /\ reply # <<>>
      /\ phase' = "checked" /\ asked' = asked /\ bank' = bank /\ request' = request
      /\ modbus_slave_buffer' = modbus_slave_buffer /\ reply' = reply
      /\ wholeRequest' = wholeRequest
  BY DEF MasterReceives
<1>3. SoundRequest(request, asked)
  BY <1>2 DEF ExchangeInv, SentInv
<1>4. asked \in AskType /\ ~ Refused(asked)
  BY <1>2, <1>3, MastersAssumption DEF SoundRequest
<1>5. reply \in Seq(Byte) /\ modbus_master_buffer \in Seq(Byte)
  BY DEF ExchangeInv, BufferInv
<1>6. heard \in Seq(Byte)
  BY <1>5, HeardFacts
<1>7. <<0, 0, 0, 0>> \in Seq(Byte)
  BY DEF Byte
<1>8. Over(modbus_master_buffer, <<0, 0, 0, 0>>) \in Seq(Byte)
  BY <1>5, <1>7, OverFacts
<1>9. modbus_master_buffer' \in Seq(Byte) /\ Starts(modbus_master_buffer', heard)
  <2> DEFINE cleared == Over(modbus_master_buffer, <<0, 0, 0, 0>>)
  <2>1. cleared \in Seq(Byte) /\ modbus_master_buffer' = Over(cleared, heard)
    BY <1>1, <1>8
  <2> HIDE DEF cleared
  <2> QED BY <1>6, <2>1, OverFacts
<1>10. BufferInv'
  BY <1>2, <1>9 DEF ExchangeInv, BufferInv
<1>11. SentInv'
  BY <1>2, <1>3 DEF SentInv
<1>12. wholeRequest => IsReply(reply, asked)
  BY <1>2 DEF ExchangeInv, ReplyInv
<1>13. ReplyInv'
  BY <1>2, <1>12 DEF ReplyInv
<1>14. wholeRequest /\ wholeReply' => result' = Content(Read(asked, reply))
  BY <1>1, <1>4, <1>9, <1>12, ReplyTaken
<1>15. WholeTaken'
  BY <1>2, <1>14 DEF WholeTaken, Read
<1>16. HeardInv' /\ WholeAnswered'
  BY <1>2 DEF HeardInv, WholeAnswered
<1> QED BY <1>10, <1>11, <1>13, <1>15, <1>16 DEF ExchangeInv

LEMMA EndsKeeps ==
  ASSUME ExchangeInv, Ends
  PROVE  ExchangeInv'
<1>1. /\ phase' = "idle" /\ reply' = <<>> /\ bank' = bank
      /\ modbus_slave_buffer' = modbus_slave_buffer
      /\ modbus_master_buffer' = modbus_master_buffer
  BY DEF Ends
<1>2. BufferInv'
  BY <1>1, EmptySeq DEF ExchangeInv, BufferInv
<1>3. SentInv' /\ HeardInv' /\ ReplyInv' /\ WholeAnswered' /\ WholeTaken'
  BY <1>1 DEF SentInv, HeardInv, ReplyInv, WholeAnswered, WholeTaken
<1> QED BY <1>2, <1>3 DEF ExchangeInv

LEMMA ExchangeStutters ==
  ASSUME ExchangeInv, UNCHANGED vars
  PROVE  ExchangeInv'
<1>1. /\ phase' = phase /\ asked' = asked /\ bank' = bank /\ request' = request
      /\ modbus_slave_buffer' = modbus_slave_buffer /\ reply' = reply
      /\ modbus_master_buffer' = modbus_master_buffer /\ result' = result
      /\ wholeRequest' = wholeRequest /\ wholeReply' = wholeReply
  BY DEF vars
<1>2. BufferInv' /\ SentInv' /\ HeardInv' /\ ReplyInv'
  BY <1>1 DEF ExchangeInv, BufferInv, SentInv, HeardInv, ReplyInv
<1>3. SlaveStandard(asked)' = SlaveStandard(asked)
  BY <1>1 DEF SlaveStandard
<1>4. WholeAnswered' /\ WholeTaken'
  BY <1>1, <1>3 DEF ExchangeInv, WholeAnswered, WholeTaken
<1> QED BY <1>2, <1>4 DEF ExchangeInv

LEMMA ExchangeStep ==
  ASSUME NothingByChance, ExchangeInv, [Next]_vars
  PROVE  ExchangeInv'
BY MasterSendsKeeps, OtherSendsKeeps, SlaveHearsKeeps, SlaveSendRespKeeps, DeviceAnswersKeeps,
   MasterReceivesKeeps, EndsKeeps, ExchangeStutters DEF Next

(***************************************************************************)
(* Whatever noise reached the bus before, a request that reaches the slave *)
(* whole is answered as the standard wants, and a reply that reaches the   *)
(* master whole gives the driver what it carried.                          *)
(***************************************************************************)
THEOREM WholeExchanges ==
  ASSUME NothingByChance
  PROVE  Spec => [](WholeAnswered /\ WholeTaken)
<1>1. ExchangeInv => WholeAnswered /\ WholeTaken
  BY DEF ExchangeInv
<1>2. ExchangeInv /\ [Next]_vars => ExchangeInv'
  BY ExchangeStep
<1> QED BY <1>1, <1>2, ExchangeInit, PTL DEF Spec

-----------------------------------------------------------------------------
(***************************************************************************)
(* The bus until the first noise.                                          *)
(***************************************************************************)
QuietInv == /\ faults \in Nat
            /\ faults = 0 =>
                 /\ wholeRequest /\ wholeReply
                 /\ phase = "checked" => Read(asked, reply) \in earlier.replies

LEMMA QuietInit == Init => QuietInv
BY DEF Init, QuietInv

LEMMA QuietStep ==
  ASSUME QuietInv, [Next]_vars
  PROVE  QuietInv'
<1>1. ASSUME NEW a \in Asks, MasterSends(a) PROVE QuietInv'
  BY <1>1 DEF MasterSends, QuietInv
<1>2. ASSUME NEW a \in OtherAsks, OtherSends(a) PROVE QuietInv'
  BY <1>2 DEF OtherSends, QuietInv
<1>3. CASE SlaveHears
  <2>1. PICK heard : Noise(request, heard) /\ wholeRequest' = (heard = request)
    BY <1>3 DEF SlaveHears
  <2>2. phase' # "checked" /\ wholeReply' = wholeReply
    BY <1>3 DEF SlaveHears
  <2>3. \/ heard = request /\ faults' = faults
        \/ faults' = faults + 1
    BY <2>1 DEF Noise
  <2>a. CASE faults' = faults + 1
    <3>1. faults' \in Nat /\ faults' # 0
      BY <2>a DEF QuietInv
    <3> QED BY <3>1 DEF QuietInv
  <2>b. CASE heard = request /\ faults' = faults
    <3>1. wholeRequest'
      BY <2>1, <2>b, Zenon
    <3> QED BY <2>2, <2>b, <3>1 DEF QuietInv
  <2> QED BY <2>3, <2>a, <2>b
<1>4. CASE SlaveSendResp
  BY <1>4 DEF SlaveSendResp, QuietInv
<1>5. CASE DeviceAnswers
  BY <1>5 DEF DeviceAnswers, QuietInv
<1>6. CASE MasterReceives
  <2>1. PICK heard : Noise(reply, heard) /\ wholeReply' = (heard = reply)
    BY <1>6 DEF MasterReceives
  <2>2. /\ asked' = asked /\ reply' = reply /\ wholeRequest' = wholeRequest
        /\ earlier' = [earlier EXCEPT !.replies = @ \cup {[to |-> asked, frame |-> reply]}]
    BY <1>6 DEF MasterReceives
  <2>3. \/ heard = reply /\ faults' = faults
        \/ faults' = faults + 1
    BY <2>1 DEF Noise
  <2>4. Read(asked', reply') \in earlier'.replies
    BY <2>2 DEF Read
  <2>a. CASE faults' = faults + 1
    <3>1. faults' \in Nat /\ faults' # 0
      BY <2>a DEF QuietInv
    <3> QED BY <3>1 DEF QuietInv
  <2>b. CASE heard = reply /\ faults' = faults
    <3>1. wholeReply'
      BY <2>1, <2>b, Zenon
    <3> QED BY <2>2, <2>b, <3>1, <2>4 DEF QuietInv
  <2> QED BY <2>3, <2>a, <2>b
<1>7. CASE Ends
  BY <1>7 DEF Ends, QuietInv
<1>8. CASE UNCHANGED vars
  BY <1>8 DEF vars, QuietInv
<1> QED BY <1>1, <1>2, <1>3, <1>4, <1>5, <1>6, <1>7, <1>8 DEF Next

\* The address and the function that a reply begins with.
LEMMA ReplyHead ==
  ASSUME NEW a \in AskType, ~ Refused(a), NEW f, IsReply(f, a)
  PROVE  f[1] = a.address /\ f[2] % 128 = a.function
<1> DEFINE y == a.function
<1>1. y \in 1 .. 23
  BY FunctionRange
<1>2. ASSUME NEW p \in Seq(Byte), Len(p) >= 2, f = WithCrc(p),
             p[1] = a.address, p[2] = y \/ p[2] = 128 + y
      PROVE  f[1] = a.address /\ f[2] % 128 = y
  <2>1. \A i \in 1 .. Len(p) : f[i] = p[i]
    BY <1>2, WithCrcFacts
  <2>2. 1 \in 1 .. Len(p) /\ 2 \in 1 .. Len(p)
    BY <1>2
  <2>3. f[1] = p[1] /\ f[2] = p[2]
    BY <2>1, <2>2
  <2> HIDE DEF y
  <2>4. y % 128 = y /\ (128 + y) % 128 = y
    BY <1>1
  <2> QED BY <1>2, <2>3, <2>4
<1>3. ASSUME NEW c \in 1 .. 4, f = StandardException(a, c) PROVE f[1] = a.address /\ f[2] % 128 = y
  <2> DEFINE q == <<a.address, 128 + a.function, c>>
  <2>1. c \in Byte
    BY DEF Byte
  <2>2. /\ q \in Seq(Byte) /\ Len(q) = 3 /\ f = WithCrc(q)
        /\ q[1] = a.address /\ q[2] = 128 + y
    BY <1>3, <2>1, ExceptionFacts
  <2> HIDE DEF q, y
  <2>3. Len(q) >= 2
    BY <2>2
  <2> QED BY <1>2, <2>2, <2>3
<1>4. CASE f = WithCrc(Fields(a, a.n))
  <2> DEFINE p == Fields(a, a.n)
  <2>1. a.n \in Uint16
    BY AskFacts
  <2>2. p \in Seq(Byte) /\ Len(p) = 6 /\ p[1] = a.address /\ p[2] = y
    BY <2>1, FieldsFacts
  <2>3. f = WithCrc(p)
    BY <1>4
  <2> HIDE DEF p, y
  <2>4. Len(p) >= 2 /\ (p[2] = y \/ p[2] = 128 + y)
    BY <2>2
  <2>5. p \in Seq(Byte) /\ p[1] = a.address
    BY <2>2
  <2>6. f[1] = a.address /\ f[2] % 128 = y
    BY <1>2, <2>3, <2>4, <2>5
  <2> QED BY <2>6 DEF y
<1>5. ASSUME NEW bytes \in Seq(Byte), Carried(bytes, a), f = StandardRead(a, bytes)
      PROVE  f[1] = a.address /\ f[2] % 128 = y
  <2> DEFINE l == Len(bytes)
             q == <<a.address, a.function, l>> \o bytes
  <2>1. l \in 1 .. 250
    BY <1>5 DEF Carried
  <2> HIDE DEF l
  <2>2. l < 256
    BY <2>1
  <2>3. /\ q \in Seq(Byte) /\ Len(q) = 3 + l /\ q[1] = a.address /\ q[2] = y /\ f = WithCrc(q)
    BY <1>5, <2>2, ReadFacts DEF l
  <2> HIDE DEF q, y
  <2>4. Len(q) >= 2
    <3> DEFINE k == Len(q)
    <3>1. k = 3 + l
      BY <2>3
    <3> HIDE DEF k
    <3>2. k >= 2
      BY <2>1, <3>1
    <3> QED BY <3>2 DEF k
  <2> QED BY <1>2, <2>3, <2>4
<1> QED BY <1>3, <1>4, <1>5 DEF IsReply

LEMMA QuietExact ==
  ASSUME ExchangeInv, QuietInv, faults = 0
  PROVE  SlaveAnswersRequests /\ RepliesExact
<1>1. WholeAnswered /\ WholeTaken /\ wholeRequest /\ wholeReply
  BY DEF ExchangeInv, QuietInv
<1>2. OnlyAskedAnswered
  <2> SUFFICES ASSUME phase = "answered", reply # <<>>
               PROVE  \E a \in {asked} \cup earlier.requests :
                        Addressed(a) /\ reply = SlaveStandard(a)
    BY DEF OnlyAskedAnswered
  <2>1. Addressed(asked) /\ reply = SlaveStandard(asked)
    BY <1>1 DEF WholeAnswered
  <2> QED BY <2>1
<1>3. OnlySentTaken
  <2> SUFFICES ASSUME phase = "checked"
               PROVE  \E r \in earlier.replies : /\ result = Content(r)
                                                 /\ wholeReply => r.frame = reply
                                                 /\ r.frame[1] = asked.address
                                                 /\ r.frame[2] % 128 = asked.function
    BY DEF OnlySentTaken
  <2> DEFINE r == Read(asked, reply)
  <2>1. r \in earlier.replies
    BY DEF QuietInv
  <2>2. result = Content(r)
    BY <1>1 DEF WholeTaken, Read
  <2>3. r.frame = reply
    BY DEF Read
  <2>4. asked \in Asks /\ SoundRequest(request, asked) /\ IsReply(reply, asked)
    BY <1>1 DEF ExchangeInv, SentInv, ReplyInv
  <2>5. asked \in AskType /\ ~ Refused(asked)
    BY <2>4, MastersAssumption DEF SoundRequest
  <2>6. reply[1] = asked.address /\ reply[2] % 128 = asked.function
    BY <2>4, <2>5, ReplyHead
  <2> HIDE DEF r
  <2> QED BY <2>1, <2>2, <2>3, <2>6
<1> QED BY <1>1, <1>2, <1>3 DEF SlaveAnswersRequests, RepliesExact

LEMMA QuietInvariant ==
  ASSUME NothingByChance
  PROVE  Spec => [](ExchangeInv /\ QuietInv)
<1> DEFINE Inv == ExchangeInv /\ QuietInv
<1>1. Init => Inv
  BY ExchangeInit, QuietInit
<1>2. Inv /\ [Next]_vars => Inv'
  BY ExchangeStep, QuietStep
<1> QED BY <1>1, <1>2, PTL DEF Spec

(***************************************************************************)
(* Until noise reaches a first frame, the slave answers what it is asked,  *)
(* all of it and nothing else.                                             *)
(***************************************************************************)
THEOREM QuietSlave ==
  ASSUME NothingByChance
  PROVE  Spec => [](faults = 0 => SlaveAnswersRequests)
<1>1. ExchangeInv /\ QuietInv => (faults = 0 => SlaveAnswersRequests)
  BY QuietExact
<1> QED BY <1>1, QuietInvariant, PTL

(***************************************************************************)
(* Until then each driver gets what was replied to its own request.        *)
(***************************************************************************)
THEOREM QuietMaster ==
  ASSUME NothingByChance
  PROVE  Spec => [](faults = 0 => RepliesExact)
<1>1. ExchangeInv /\ QuietInv => (faults = 0 => RepliesExact)
  BY QuietExact
<1> QED BY <1>1, QuietInvariant, PTL

-----------------------------------------------------------------------------
(***************************************************************************)
(* One damaged byte.                                                       *)
(***************************************************************************)
LEMMA CrcEnd ==
  ASSUME NEW p \in Seq(Byte)
  PROVE  /\ WithCrc(p)[Len(p) + 1] = crc16(p) % 256
         /\ WithCrc(p)[Len(p) + 2] = crc16(p) \div 256
<1> DEFINE crc == crc16(p)
           end == <<crc % 256, crc \div 256>>
           w == p \o end
           n == Len(p)
<1>1. crc \in Uint16
  BY TableDivides
<1>2. end \in Seq(Byte) /\ Len(end) = 2 /\ end[1] = crc % 256 /\ end[2] = crc \div 256
  BY <1>1, BytesOfWord, Tuples
<1>3. WithCrc(p) = w
  BY DEF WithCrc
<1> HIDE DEF end, crc
<1>4. w \in Seq(Byte) /\ IsJoin(w, p, end)
  BY <1>2, Joined
<1> HIDE DEF w
<1>5. w[n + 1] = end[1] /\ w[n + 2] = end[2]
  <2>1. \A i \in 1 .. Len(end) : w[n + i] = end[i]
    BY <1>4 DEF IsJoin
  <2>2. 1 \in 1 .. Len(end) /\ 2 \in 1 .. Len(end)
    BY <1>2
  <2> QED BY <2>1, <2>2
<1> QED BY <1>2, <1>3, <1>5 DEF crc

\* f is the frame of p but for its byte k.
Damaged(g, p, k) == LET f == WithCrc(p)
                    IN  /\ g \in Seq(Byte) /\ Len(g) = Len(f) /\ g[k] # f[k]
                        /\ \A i \in 1 .. Len(f) : i # k => g[i] = f[i]

(***************************************************************************)
(* The CRC gives away each damaged byte, of a frame of any length: CrcOf,  *)
(* which is crc16_initial over the frame against its last two bytes        *)
(* (rs485.c:310), is false of it.                                          *)
(***************************************************************************)
THEOREM DamageDetected ==
  ASSUME NEW p \in Seq(Byte), NEW k \in 1 .. Len(p) + 2, NEW g, Damaged(g, p, k)
  PROVE  ~ CrcOf(g, Len(p))
<1> DEFINE n == Len(p)
           f == WithCrc(p)
           q == First(n, g)
<1>1. n \in Nat /\ k \in 1 .. n + 2
  OBVIOUS
<1>2. /\ f \in Seq(Byte) /\ Len(f) = n + 2 /\ (\A i \in 1 .. n : f[i] = p[i])
      /\ f[n + 1] = crc16(p) % 256 /\ f[n + 2] = crc16(p) \div 256
  BY WithCrcFacts, CrcEnd
<1>3. /\ g \in Seq(Byte) /\ Len(g) = Len(f) /\ g[k] # f[k]
      /\ \A i \in 1 .. Len(f) : i # k => g[i] = f[i]
  BY DEF Damaged
<1> SUFFICES ASSUME CrcOf(g, n) PROVE FALSE
  OBVIOUS
<1> HIDE DEF f
<1>4. Len(g) = n + 2 /\ \A i \in 1 .. n + 2 : i # k => g[i] = f[i]
  BY <1>2, <1>3
<1>5. First(n + 2, g) = g
  <2> DEFINE m == Len(g)
  <2>1. \A i \in 1 .. m : g[i] = g[i]
    OBVIOUS
  <2>2. Starts(g, g)
    BY <1>1, <1>4 DEF Starts
  <2>3. First(m, g) = g
    BY <1>3, <2>2, FirstOfStart
  <2> QED BY <1>4, <2>3
<1>6. WithCrc(q) = g
  BY <1>5 DEF CrcOf
<1>7. q \in Seq(Byte) /\ Len(q) = n /\ \A i \in 1 .. n : q[i] = g[i]
  <2>1. g \in Seq(Byte) /\ n \in Nat /\ n <= Len(g)
    BY <1>1, <1>3, <1>4
  <2> HIDE DEF n
  <2> QED BY <2>1, FirstFacts
<1> HIDE DEF q
<1>8. g[n + 1] = crc16(q) % 256 /\ g[n + 2] = crc16(q) \div 256
  <2>1. WithCrc(q)[Len(q) + 1] = crc16(q) % 256 /\ WithCrc(q)[Len(q) + 2] = crc16(q) \div 256
    BY <1>7, CrcEnd
  <2> QED BY <1>6, <1>7, <2>1
<1>9. CASE k \in 1 .. n
  <2>1. n + 1 \in 1 .. n + 2 /\ n + 1 # k /\ n + 2 \in 1 .. n + 2 /\ n + 2 # k
    BY <1>1, <1>9
  <2>2. g[n + 1] = f[n + 1] /\ g[n + 2] = f[n + 2]
    BY <1>4, <2>1
  <2>3. crc16(p) \in Uint16 /\ crc16(q) \in Uint16
    BY <1>7, TableDivides
  <2>4. crc16(p) = crc16(q)
    BY <1>2, <1>8, <2>2, <2>3, SameBytes
  <2>5. p[k] # q[k]
    BY <1>2, <1>3, <1>7, <1>9
  <2>6. \A i \in 1 .. n : i # k => p[i] = q[i]
    <3>1. \A i \in 1 .. n : i \in 1 .. n + 2
      BY <1>1
    <3> QED BY <1>2, <1>4, <1>7, <3>1
  <2> QED BY <1>7, <1>9, <2>4, <2>5, <2>6, CrcsDiffer
<1>10. CASE k \notin 1 .. n
  <2>1. \A i \in 1 .. n : i \in 1 .. n + 2 /\ i # k
    BY <1>1, <1>10
  <2>2. \A i \in 1 .. n : q[i] = p[i]
    BY <1>2, <1>4, <1>7, <2>1
  <2>3. q = p
    BY <1>7, <2>2, SeqEqual
  <2> QED BY <1>3, <1>6, <2>3 DEF f
<1> QED BY <1>9, <1>10

(***************************************************************************)
(* So the slave answers no request of eight bytes one of which is damaged  *)
(* (rs485.c:730), be it the address, the quantity or the CRC.              *)
(***************************************************************************)
THEOREM DamageUnanswered ==
  ASSUME NEW p \in Seq(Byte), Len(p) = 6, NEW k \in 1 .. 8, NEW g, Damaged(g, p, k)
  PROVE  SlaveAnswer(g) = <<>>
<1>1. k \in 1 .. Len(p) + 2
  OBVIOUS
<1>2. ~ CrcOf(g, Len(p))
  BY <1>1, DamageDetected
<1>3. ~ CrcOf(g, 6)
  BY <1>2
<1> QED BY <1>3 DEF SlaveAnswer

-----------------------------------------------------------------------------
(***************************************************************************)
(* The calendar.  Months and their days.                                   *)
(***************************************************************************)
Before(m) == IF m = 1 THEN 0 ELSE month_table[m - 1]

LEMMA MonthTable ==
  /\ \A m \in 1 .. 12 : month_table[m] \in Nat /\ Before(m) \in Nat /\ days_in_month[m] \in Nat
  /\ \A m \in 1 .. 12 : month_table[m] = Before(m) + days_in_month[m]
  /\ \A m \in 1 .. 12 : days_in_month[m] >= 28 /\ days_in_month[m] <= 31
  /\ month_table[1] = 31 /\ month_table[2] = 59 /\ days_in_month[2] = 28
  /\ month_table[12] = 365 /\ Before(12) = 334 /\ days_in_month[12] = 31
<1>1. \A m \in 1 .. 12 : m = 1 \/ m = 2 \/ m = 3 \/ m = 4 \/ m = 5 \/ m = 6 \/ m = 7 \/ m = 8
                         \/ m = 9 \/ m = 10 \/ m = 11 \/ m = 12
  OBVIOUS
<1>2. /\ month_table[1] = 31 /\ month_table[2] = 59 /\ month_table[3] = 90
      /\ month_table[4] = 120 /\ month_table[5] = 151 /\ month_table[6] = 181
      /\ month_table[7] = 212 /\ month_table[8] = 243 /\ month_table[9] = 273
      /\ month_table[10] = 304 /\ month_table[11] = 334 /\ month_table[12] = 365
  BY DEF month_table
<1>3. /\ days_in_month[1] = 31 /\ days_in_month[2] = 28 /\ days_in_month[3] = 31
      /\ days_in_month[4] = 30 /\ days_in_month[5] = 31 /\ days_in_month[6] = 30
      /\ days_in_month[7] = 31 /\ days_in_month[8] = 31 /\ days_in_month[9] = 30
      /\ days_in_month[10] = 31 /\ days_in_month[11] = 30 /\ days_in_month[12] = 31
  BY DEF days_in_month
<1>4. /\ Before(1) = 0 /\ Before(2) = 31 /\ Before(3) = 59 /\ Before(4) = 90
      /\ Before(5) = 120 /\ Before(6) = 151 /\ Before(7) = 181 /\ Before(8) = 212
      /\ Before(9) = 243 /\ Before(10) = 273 /\ Before(11) = 304 /\ Before(12) = 334
  BY <1>2 DEF Before
<1> QED BY <1>1, <1>2, <1>3, <1>4

LEMMA MonthsFollow ==
  \A m, n \in 1 .. 12 : m < n => month_table[m] <= Before(n) /\ month_table[m] < month_table[n]
<1>1. \A m \in 1 .. 12 : m = 1 \/ m = 2 \/ m = 3 \/ m = 4 \/ m = 5 \/ m = 6 \/ m = 7 \/ m = 8
                         \/ m = 9 \/ m = 10 \/ m = 11 \/ m = 12
  OBVIOUS
<1>2. /\ month_table[1] = 31 /\ month_table[2] = 59 /\ month_table[3] = 90
      /\ month_table[4] = 120 /\ month_table[5] = 151 /\ month_table[6] = 181
      /\ month_table[7] = 212 /\ month_table[8] = 243 /\ month_table[9] = 273
      /\ month_table[10] = 304 /\ month_table[11] = 334 /\ month_table[12] = 365
  BY DEF month_table
<1>3. \A m, n \in 1 .. 12 : m < n => month_table[m] < month_table[n]
  BY <1>1, <1>2
<1>4. \A m, n \in 1 .. 12 : m < n => month_table[m] <= Before(n)
  <2> SUFFICES ASSUME NEW m \in 1 .. 12, NEW n \in 1 .. 12, m < n
               PROVE  month_table[m] <= Before(n)
    OBVIOUS
  <2>1. n - 1 \in 1 .. 12 /\ n # 1
    OBVIOUS
  <2>2. month_table[m] \in Nat /\ month_table[n - 1] \in Nat /\ Before(n) = month_table[n - 1]
    BY <2>1, MonthTable DEF Before
  <2>3. CASE m = n - 1
    BY <2>2, <2>3
  <2>4. CASE m < n - 1
    <3>1. month_table[m] < month_table[n - 1]
      BY <1>3, <2>1, <2>4
    <3> QED BY <2>2, <3>1
  <2> QED BY <2>3, <2>4
<1> QED BY <1>3, <1>4

\* The months do not overlap.
LEMMA MonthUnique ==
  ASSUME NEW m \in 1 .. 12, NEW n \in 1 .. 12, NEW p \in Nat,
         Before(m) < p, p <= month_table[m], Before(n) < p, p <= month_table[n]
  PROVE  m = n
<1>1. Before(m) \in Nat /\ Before(n) \in Nat /\ month_table[m] \in Nat /\ month_table[n] \in Nat
  BY MonthTable
<1>2. ~ (m < n)
  BY <1>1, MonthsFollow
<1>3. ~ (n < m)
  BY <1>1, MonthsFollow
<1> QED BY <1>2, <1>3


LEMMA DayOfYear ==
  ASSUME NEW n \in Nat, NEW p \in Nat, NEW q \in Nat, q < 365, n = 365 * p + q
  PROVE  n \div 365 = p /\ n % 365 = q
OBVIOUS

\* The month that get_solar48_date finds for a day of the year that is not 0.
MonthOf(days, leap) ==
  CASE days <= month_table[1] -> 1
    [] days > month_table[1] /\ (days <= month_table[2] \/ (days = month_table[2] + 1 /\ leap)) -> 2
    [] OTHER -> CHOOSE m \in 3 .. 12 : days <= month_table[m] /\ (m > 3 => days > month_table[m - 1])

LEMMA MonthFound ==
  ASSUME NEW days \in Nat, 1 <= days, days <= 365, NEW leap \in BOOLEAN
  PROVE  LET m == MonthOf(days, leap)
         IN  /\ m \in 1 .. 12 /\ days > Before(m)
             /\ days <= month_table[m] \/ (leap /\ days = 60)
<1>1. month_table[1] = 31 /\ month_table[2] = 59 /\ month_table[12] = 365
  BY MonthTable
<1>2. Before(1) = 0 /\ Before(2) = 31
  BY <1>1 DEF Before
<1>3. CASE days <= 31
  <2>1. MonthOf(days, leap) = 1
    BY <1>1, <1>3 DEF MonthOf
  <2> QED BY <1>1, <1>2, <1>3, <2>1
<1>4. CASE days > 31 /\ (days <= 59 \/ (days = 60 /\ leap))
  <2>1. ~ (days <= month_table[1])
    BY <1>1, <1>4
  <2>2. days > month_table[1] /\ (days <= month_table[2] \/ (days = month_table[2] + 1 /\ leap))
    BY <1>1, <1>4
  <2>3. MonthOf(days, leap) = 2
    BY <2>1, <2>2 DEF MonthOf
  <2> QED BY <1>1, <1>2, <1>4, <2>3
<1>5. CASE days > 59 /\ ~ (days = 60 /\ leap)
  <2> DEFINE P(m) == days <= month_table[m] /\ (m > 3 => days > month_table[m - 1])
  <2>1. ~ (days <= month_table[1])
    BY <1>1, <1>5
  <2>2. ~ (days > month_table[1] /\ (days <= month_table[2] \/ (days = month_table[2] + 1 /\ leap)))
    BY <1>1, <1>5
  <2>3. MonthOf(days, leap) = CHOOSE m \in 3 .. 12 : P(m)
    BY <2>1, <2>2 DEF MonthOf
  <2>4. \E m \in 3 .. 12 : P(m)
    <3>1. /\ month_table[3] = 90 /\ month_table[4] = 120 /\ month_table[5] = 151
          /\ month_table[6] = 181 /\ month_table[7] = 212 /\ month_table[8] = 243
          /\ month_table[9] = 273 /\ month_table[10] = 304 /\ month_table[11] = 334
      BY DEF month_table
    <3>2. \/ days <= 90 \/ (days > 90 /\ days <= 120) \/ (days > 120 /\ days <= 151)
          \/ (days > 151 /\ days <= 181) \/ (days > 181 /\ days <= 212)
          \/ (days > 212 /\ days <= 243) \/ (days > 243 /\ days <= 273)
          \/ (days > 273 /\ days <= 304) \/ (days > 304 /\ days <= 334) \/ days > 334
      OBVIOUS
    <3>3. P(3) \/ P(4) \/ P(5) \/ P(6) \/ P(7) \/ P(8) \/ P(9) \/ P(10) \/ P(11) \/ P(12)
      BY <1>1, <3>1, <3>2
    <3> HIDE DEF P
    <3> QED BY <3>3
  <2> HIDE DEF P
  <2>5. MonthOf(days, leap) \in 3 .. 12 /\ P(MonthOf(days, leap))
    BY <2>3, <2>4
  <2>6. \A m \in 3 .. 12 : P(m) => days > Before(m) /\ days <= month_table[m]
    <3> SUFFICES ASSUME NEW m \in 3 .. 12, P(m)
                 PROVE  days > Before(m) /\ days <= month_table[m]
      OBVIOUS
    <3>1. CASE m = 3
      BY <1>1, <1>5, <3>1 DEF P, Before
    <3>2. CASE m > 3
      BY <3>2 DEF P, Before
    <3> QED BY <3>1, <3>2
  <2> QED BY <2>5, <2>6
<1> QED BY <1>3, <1>4, <1>5

\* What get_solar48_date makes of day q of the year y.
ReadsAs(r, y, q, s) ==
  /\ r.year = y /\ r.second = s /\ r.month \in 1 .. 12 /\ r.day \in Nat /\ r.day >= 1
  /\ r.week_day = get_day(r.year, r.month, r.day)
  /\ q = 0 => r.month = 1 /\ r.day = 1
  /\ q > 0 => /\ Before(r.month) \in Nat /\ q = Before(r.month) + r.day
              /\ q <= month_table[r.month] \/ (is_leap_year(y) /\ q = 60)

LEMMA DateReadFacts ==
  ASSUME NEW n \in Nat, NEW q \in Nat, q < 365, NEW s,
         NEW y \in Nat, y >= 1970, n = 365 * (y - 1970) + q
  PROVE  ReadsAs(get_solar48_date([day |-> n, second |-> s]), y, q, s)
<1> DEFINE t == [day |-> n, second |-> s]
           r == get_solar48_date(t)
           m == MonthOf(q, is_leap_year(y))
           day == IF m = 1 THEN q ELSE q - month_table[m - 1]
           shown == IF day = 0 THEN 1 ELSE day
<1>1. y - 1970 \in Nat
  OBVIOUS
<1>2. n \div 365 = y - 1970 /\ n % 365 = q
  BY <1>1, DayOfYear
<1>3. n \div 365 + 1970 = y
  BY <1>2
<1>4. r = [year |-> y, month |-> m, day |-> shown, second |-> s, week_day |-> get_day(y, m, shown)]
  <2> DEFINE yy == t.day \div 365 + 1970
             mm == MonthOf(t.day % 365, is_leap_year(yy))
             dd == IF mm = 1 THEN t.day % 365 ELSE (t.day % 365) - month_table[mm - 1]
             ss == IF dd = 0 THEN 1 ELSE dd
  <2>1. r = [year |-> yy, month |-> mm, day |-> ss, second |-> t.second,
             week_day |-> get_day(yy, mm, ss)]
    BY DEF get_solar48_date, MonthOf
  <2>2. t.day % 365 = q /\ yy = y /\ t.second = s
    BY <1>2, <1>3
  <2>3. mm = m
    BY <2>2
  <2>4. dd = day
    BY <2>2, <2>3
  <2>5. ss = shown
    BY <2>4
  <2> HIDE DEF yy, mm, ss, r, m, shown
  <2> QED BY <2>1, <2>2, <2>3, <2>5
<1>5. is_leap_year(y) \in BOOLEAN
  BY DEF is_leap_year
<1>6. CASE q = 0
  <2>1. m = 1
    BY <1>6, MonthTable DEF MonthOf
  <2>2. shown = 1
    BY <1>6, <2>1
  <2> HIDE DEF shown, m
  <2> QED BY <1>4, <1>6, <2>1, <2>2 DEF ReadsAs
<1>7. CASE q > 0
  <2>1. m \in 1 .. 12 /\ q > Before(m) /\ (q <= month_table[m] \/ (is_leap_year(y) /\ q = 60))
    <3>1. 1 <= q /\ q <= 365
      BY <1>7
    <3> QED BY <1>5, <3>1, MonthFound
  <2>2. Before(m) \in Nat
    BY <2>1, MonthTable
  <2> HIDE DEF m
  <2>3. day = q - Before(m)
    BY DEF Before
  <2>4. shown = q - Before(m) /\ shown \in Nat /\ shown >= 1 /\ q = Before(m) + shown
    BY <2>1, <2>2, <2>3
  <2> HIDE DEF shown
  <2> QED BY <1>4, <1>7, <2>1, <2>2, <2>4 DEF ReadsAs
<1> QED BY <1>6, <1>7

(***************************************************************************)
(* The two halves of the counter.                                          *)
(***************************************************************************)
Divides(a, k) == /\ a \div k \in Nat /\ a % k \in Nat /\ a % k < k
                 /\ a = k * (a \div k) + (a % k)

LEMMA DivMod ==
  \A a \in Nat : Divides(a, 65536) /\ Divides(a, 86400) /\ Divides(a, 512) /\ Divides(a, 675)
<1>1. \A a \in Nat : Divides(a, 65536)
  BY DEF Divides
<1>2. \A a \in Nat : Divides(a, 86400)
  BY DEF Divides
<1>3. \A a \in Nat : Divides(a, 512)
  BY DEF Divides
<1>4. \A a \in Nat : Divides(a, 675)
  BY DEF Divides
<1> QED BY <1>1, <1>2, <1>3, <1>4

\* The counter of a timestamp counts its seconds.
LEMMA CounterFacts ==
  ASSUME NEW t, t.day \in Nat, t.second \in Nat
  PROVE  LET c == CounterOfDay(t)
         IN  /\ c.high \in Nat /\ c.low \in Nat /\ c.low < 65536
             /\ 65536 * c.high + c.low = 86400 * t.day + t.second
<1> DEFINE a == t.day \div 512
           b == t.day % 512
           s == b * 86400 + t.second
           e == s \div 65536
           f == s % 65536
<1>1. a \in Nat /\ b \in Nat /\ t.day = 512 * a + b
  BY DivMod DEF Divides
<1>2. CounterOfDay(t) = [high |-> 675 * a + e, low |-> f]
  BY DEF CounterOfDay
<1> HIDE DEF a, b
<1>3. s \in Nat /\ s = 86400 * b + t.second
  BY <1>1
<1>4. e \in Nat /\ f \in Nat /\ f < 65536 /\ s = 65536 * e + f
  BY <1>3, DivMod DEF Divides
<1> HIDE DEF s, e, f
<1>5. 675 * a + e \in Nat
  BY <1>1, <1>4
<1>6. 65536 * (675 * a + e) + f = 86400 * t.day + t.second
  BY <1>1, <1>3, <1>4
<1> QED BY <1>2, <1>4, <1>5, <1>6

LEMMA DayFacts ==
  ASSUME NEW high \in Nat, NEW low \in Nat
  PROVE  LET t == DayOfCounter(high, low)
         IN  /\ t = [day |-> t.day, second |-> t.second]
             /\ t.day \in Nat /\ t.second \in Nat /\ t.second < 86400
             /\ 86400 * t.day + t.second = 65536 * high + low
<1> DEFINE a == high \div 675
           b == high % 675
           s == b * 65536 + low
           e == s \div 86400
           f == s % 86400
<1>1. a \in Nat /\ b \in Nat /\ high = 675 * a + b
  BY DivMod DEF Divides
<1>2. DayOfCounter(high, low) = [day |-> 512 * a + e, second |-> f]
  BY DEF DayOfCounter
<1> HIDE DEF a, b
<1>3. s \in Nat /\ s = 65536 * b + low
  BY <1>1
<1>4. e \in Nat /\ f \in Nat /\ f < 86400 /\ s = 86400 * e + f
  BY <1>3, DivMod DEF Divides
<1> HIDE DEF s, e, f
<1>5. 512 * a + e \in Nat
  BY <1>1, <1>4
<1>6. 86400 * (512 * a + e) + f = 65536 * high + low
  BY <1>1, <1>3, <1>4
<1> QED BY <1>2, <1>4, <1>5, <1>6

LEMMA SecondsUnique ==
  ASSUME NEW a \in Nat, NEW b \in Nat, NEW c \in Nat, NEW d \in Nat,
         b < 86400, d < 86400, 86400 * a + b = 86400 * c + d
  PROVE  a = c /\ b = d
OBVIOUS

(***************************************************************************)
(* The weekday.  Q counts the leap years up to one, from the year 0 on.    *)
(***************************************************************************)
Q(y) == y \div 4 - y \div 100 + y \div 400

LEMMA LeapYearCounts ==
  ASSUME NEW y \in Nat, y >= 1
  PROVE  Q(y) = Q(y - 1) + (IF is_leap_year(y) THEN 1 ELSE 0) /\ Q(y) \in Int /\ Q(y - 1) \in Int
<1>1. y \div 4 = (y - 1) \div 4 + (IF y % 4 = 0 THEN 1 ELSE 0)
  OBVIOUS
<1>2. y \div 100 = (y - 1) \div 100 + (IF y % 100 = 0 THEN 1 ELSE 0)
  OBVIOUS
<1>3. y \div 400 = (y - 1) \div 400 + (IF y % 400 = 0 THEN 1 ELSE 0)
  OBVIOUS
<1>4. (y % 400 = 0 => y % 100 = 0) /\ (y % 100 = 0 => y % 4 = 0)
  OBVIOUS
<1>5. /\ y \div 4 \in Int /\ y \div 100 \in Int /\ y \div 400 \in Int
      /\ (y - 1) \div 4 \in Int /\ (y - 1) \div 100 \in Int /\ (y - 1) \div 400 \in Int
  OBVIOUS
<1> DEFINE a == y \div 4
           b == y \div 100
           c == y \div 400
           u == (y - 1) \div 4
           v == (y - 1) \div 100
           w == (y - 1) \div 400
           p == y % 4 = 0
           q == y % 100 = 0
           r == y % 400 = 0
<1>6. /\ Q(y) = a - b + c /\ Q(y - 1) = u - v + w
      /\ is_leap_year(y) <=> (p /\ (~ q \/ r))
  BY DEF Q, is_leap_year
<1>7. /\ a = u + (IF p THEN 1 ELSE 0) /\ b = v + (IF q THEN 1 ELSE 0)
      /\ c = w + (IF r THEN 1 ELSE 0) /\ (r => q) /\ (q => p)
      /\ a \in Int /\ b \in Int /\ c \in Int /\ u \in Int /\ v \in Int /\ w \in Int
  BY <1>1, <1>2, <1>3, <1>4, <1>5
<1> HIDE DEF a, b, c, u, v, w, p, q, r
<1>8. CASE r
  BY <1>6, <1>7, <1>8
<1>9. CASE ~ r /\ q
  BY <1>6, <1>7, <1>9
<1>10. CASE ~ q /\ p
  BY <1>6, <1>7, <1>10
<1>11. CASE ~ p
  BY <1>6, <1>7, <1>11
<1> QED BY <1>7, <1>8, <1>9, <1>10, <1>11

\* The leap years before the year 1970 + n.
LeapYears(n) == {y \in 1970 .. 1970 + n - 1 : is_leap_year(y)}

LEMMA LeapYearsCounted ==
  \A n \in Nat : /\ IsFiniteSet(LeapYears(n)) /\ Cardinality(LeapYears(n)) \in Nat
                 /\ Cardinality(LeapYears(n)) = Q(1970 + n - 1) - 477
<1> DEFINE Right(n) == /\ IsFiniteSet(LeapYears(n)) /\ Cardinality(LeapYears(n)) \in Nat
                       /\ Cardinality(LeapYears(n)) = Q(1970 + n - 1) - 477
           S == {n \in Nat : Right(n)}
<1>1. 0 \in S
  <2>1. LeapYears(0) = {}
    BY DEF LeapYears
  <2>2. Q(1969) = 477
    BY DEF Q
  <2> QED BY <2>1, <2>2, FS_EmptySet
<1>2. ASSUME NEW n \in Nat, n \in S PROVE n + 1 \in S
  <2> DEFINE y == 1970 + n
             A == LeapYears(n)
  <2>1. Right(n)
    BY <1>2
  <2>2. y \in Nat /\ y >= 1 /\ y = 1970 + n /\ 1970 + (n + 1) - 1 = y /\ 1970 + n - 1 = y - 1
    OBVIOUS
  <2>3. Q(y) = Q(y - 1) + (IF is_leap_year(y) THEN 1 ELSE 0) /\ Q(y) \in Int /\ Q(y - 1) \in Int
    BY <2>2, LeapYearCounts
  <2>4. y \notin A
    BY DEF LeapYears
  <2>5. LeapYears(n + 1) = IF is_leap_year(y) THEN A \cup {y} ELSE A
    BY DEF LeapYears
  <2>6. IsFiniteSet(A) /\ Cardinality(A) \in Nat /\ Cardinality(A) = Q(y - 1) - 477
    BY <2>1, <2>2
  <2>7. IsFiniteSet(A \cup {y}) /\ Cardinality(A \cup {y}) = Cardinality(A) + 1
    BY <2>4, <2>6, FS_AddElement
  <2> HIDE DEF y, A
  <2>8. CASE is_leap_year(y)
    <3>1. LeapYears(n + 1) = A \cup {y} /\ Q(y) = Q(y - 1) + 1
      BY <2>3, <2>5, <2>8
    <3>2. Cardinality(A \cup {y}) \in Nat /\ Cardinality(A \cup {y}) = Q(y) - 477
      BY <2>3, <2>6, <2>7, <3>1
    <3>3. Right(n + 1)
      BY <2>2, <2>7, <3>1, <3>2
    <3> QED BY <3>3
  <2>9. CASE ~ is_leap_year(y)
    <3>1. LeapYears(n + 1) = A /\ Q(y) = Q(y - 1)
      BY <2>2, <2>3, <2>5, <2>9
    <3> QED BY <2>2, <2>3, <2>6, <3>1
  <2> QED BY <2>8, <2>9
<1> HIDE DEF S
<1>3. \A n \in Nat : n \in S
  BY <1>1, <1>2, SetInduction
<1> QED BY <1>3 DEF S

\* The months in Sakamoto's formula.
LEMMA SakamotoMonths ==
  ASSUME NEW m \in 1 .. 12
  PROVE  /\ (23 * m) \div 9 \in Nat
         /\ \E e \in Int : Before(m) = (23 * m) \div 9 + 7 * e + (IF m < 3 THEN 5 ELSE 3)
<1>1. /\ Before(1) = 0 /\ Before(2) = 31 /\ Before(3) = 59 /\ Before(4) = 90
      /\ Before(5) = 120 /\ Before(6) = 151 /\ Before(7) = 181 /\ Before(8) = 212
      /\ Before(9) = 243 /\ Before(10) = 273 /\ Before(11) = 304 /\ Before(12) = 334
  BY DEF Before, month_table
<1> DEFINE Fits7(k) ==
      /\ (23 * k) \div 9 \in Nat
      /\ \E e \in Int : Before(k) = (23 * k) \div 9 + 7 * e + (IF k < 3 THEN 5 ELSE 3)
<1>2. ASSUME NEW k \in 1 .. 12, NEW f \in Nat, NEW e \in Int, NEW b \in Nat, Before(k) = b,
             (23 * k) \div 9 = f, b = f + 7 * e + (IF k < 3 THEN 5 ELSE 3)
      PROVE  Fits7(k)
  BY <1>2
<1>3. /\ (23 * 1) \div 9 = 2 /\ (23 * 2) \div 9 = 5 /\ (23 * 3) \div 9 = 7 /\ (23 * 4) \div 9 = 10
      /\ (23 * 5) \div 9 = 12 /\ (23 * 6) \div 9 = 15 /\ (23 * 7) \div 9 = 17
      /\ (23 * 8) \div 9 = 20 /\ (23 * 9) \div 9 = 23 /\ (23 * 10) \div 9 = 25
      /\ (23 * 11) \div 9 = 28 /\ (23 * 12) \div 9 = 30
  OBVIOUS
<1> HIDE DEF Fits7
<1>4. Fits7(1)
  <2>1. 0 = 2 + 7 * (-1) + (IF 1 < 3 THEN 5 ELSE 3)
    OBVIOUS
  <2> QED BY <1>1, <1>2, <1>3, <2>1
<1>5. Fits7(2)
  <2>1. 31 = 5 + 7 * 3 + (IF 2 < 3 THEN 5 ELSE 3)
    OBVIOUS
  <2> QED BY <1>1, <1>2, <1>3, <2>1
<1>6. ASSUME NEW k \in 3 .. 12, NEW f \in Nat, NEW e \in Int, NEW b \in Nat, Before(k) = b,
             (23 * k) \div 9 = f, b = f + 7 * e + 3
      PROVE  Fits7(k)
  <2>1. k \in 1 .. 12 /\ ~ (k < 3)
    OBVIOUS
  <2>2. b = f + 7 * e + (IF k < 3 THEN 5 ELSE 3)
    BY <1>6, <2>1
  <2> QED BY <1>2, <1>6, <2>1, <2>2
<1>7. Fits7(3)
  <2>1. 59 = 7 + 7 * 7 + 3
    OBVIOUS
  <2> QED BY <1>1, <1>3, <1>6, <2>1
<1>8. Fits7(4)
  <2>1. 90 = 10 + 7 * 11 + 3
    OBVIOUS
  <2> QED BY <1>1, <1>3, <1>6, <2>1
<1>9. Fits7(5)
  <2>1. 120 = 12 + 7 * 15 + 3
    OBVIOUS
  <2> QED BY <1>1, <1>3, <1>6, <2>1
<1>10. Fits7(6)
  <2>1. 151 = 15 + 7 * 19 + 3
    OBVIOUS
  <2> QED BY <1>1, <1>3, <1>6, <2>1
<1>11. Fits7(7)
  <2>1. 181 = 17 + 7 * 23 + 3
    OBVIOUS
  <2> QED BY <1>1, <1>3, <1>6, <2>1
<1>12. Fits7(8)
  <2>1. 212 = 20 + 7 * 27 + 3
    OBVIOUS
  <2> QED BY <1>1, <1>3, <1>6, <2>1
<1>13. Fits7(9)
  <2>1. 243 = 23 + 7 * 31 + 3
    OBVIOUS
  <2> QED BY <1>1, <1>3, <1>6, <2>1
<1>14. Fits7(10)
  <2>1. 273 = 25 + 7 * 35 + 3
    OBVIOUS
  <2> QED BY <1>1, <1>3, <1>6, <2>1
<1>15. Fits7(11)
  <2>1. 304 = 28 + 7 * 39 + 3
    OBVIOUS
  <2> QED BY <1>1, <1>3, <1>6, <2>1
<1>16. Fits7(12)
  <2>1. 334 = 30 + 7 * 43 + 3
    OBVIOUS
  <2> QED BY <1>1, <1>3, <1>6, <2>1
<1>17. m = 1 \/ m = 2 \/ m = 3 \/ m = 4 \/ m = 5 \/ m = 6 \/ m = 7 \/ m = 8 \/ m = 9 \/ m = 10
       \/ m = 11 \/ m = 12
  OBVIOUS
<1>18. Fits7(m)
  BY <1>4, <1>5, <1>7, <1>8, <1>9, <1>10, <1>11, <1>12, <1>13, <1>14, <1>15, <1>16, <1>17
<1> QED BY <1>18 DEF Fits7

LEMMA SameModulo7 ==
  ASSUME NEW a \in Nat, NEW b \in Nat, NEW k \in Int, a = b + 7 * k
  PROVE  a % 7 = b % 7
OBVIOUS

\* get_day gives the weekday of each day since 1970.
LEMMA WeekDayRight ==
  ASSUME NEW d, d.year \in Nat, d.year >= 1970, d.month \in 1 .. 12, d.day \in Nat, d.day >= 1
  PROVE  get_day(d.year, d.month, d.day) = WeekDay(d)
<1> DEFINE y == d.year
           m == d.month
           x == d.day
           f == (23 * m) \div 9
           b == Before(m)
           u == Q(y - 1)
           v == Q(y)
           leap == IF is_leap_year(y) THEN 1 ELSE 0
           late == IF m > 2 /\ is_leap_year(y) THEN 1 ELSE 0
           C == Cardinality({z \in 1970 .. y - 1 : is_leap_year(z)})
           day == IF m < 3 THEN x + y ELSE x + y - 2
           yy == IF m < 3 THEN y - 1 ELSE y
           get == f + day + 4 + yy \div 4 - yy \div 100 + yy \div 400
           week == 4 + DaysSince1970(d)
<1>1. y \in Nat /\ y >= 1970 /\ y >= 1 /\ m \in 1 .. 12 /\ m \in Nat /\ x \in Nat /\ x >= 1
  OBVIOUS
<1>2. v = u + leap /\ v \in Int /\ u \in Int /\ leap \in {0, 1}
  BY <1>1, LeapYearCounts
<1>3. b \in Nat /\ f \in Nat
  BY <1>1, SakamotoMonths, MonthTable
<1>4. PICK e \in Int : b = f + 7 * e + (IF m < 3 THEN 5 ELSE 3)
  BY <1>1, SakamotoMonths
<1>5. C \in Nat /\ C = u - 477
  <2>1. y - 1970 \in Nat /\ 1970 + (y - 1970) - 1 = y - 1
    BY <1>1
  <2>2. LeapYears(y - 1970) = {z \in 1970 .. y - 1 : is_leap_year(z)}
    BY <2>1 DEF LeapYears
  <2> DEFINE n == y - 1970
  <2>3. n \in Nat /\ 1970 + n - 1 = y - 1
    BY <2>1
  <2> HIDE DEF n
  <2>4. Cardinality(LeapYears(n)) \in Nat /\ Cardinality(LeapYears(n)) = Q(1970 + n - 1) - 477
    BY <2>3, LeapYearsCounted
  <2>5. Cardinality(LeapYears(n)) = C
    BY <2>2 DEF n
  <2> QED BY <2>3, <2>4, <2>5
<1>6. DaysSince1970(d) = 365 * (y - 1970) + C + b + late + x - 1
  BY DEF DaysSince1970, Before
<1>7. get_day(y, m, x) = get % 7 /\ WeekDay(d) = week % 7
  BY DEF get_day, WeekDay
<1>8. get = f + day + 4 + Q(yy)
  <2>1. yy \div 4 \in Int /\ yy \div 100 \in Int /\ yy \div 400 \in Int /\ day \in Int
    BY <1>1
  <2> HIDE DEF yy, day, f
  <2> QED BY <1>3, <2>1 DEF Q
<1>9. CASE m < 3
  <2>1. day = x + y /\ Q(yy) = u /\ late = 0 /\ b = f + 7 * e + 5
    BY <1>1, <1>4, <1>9
  <2> HIDE DEF y, m, x, f, b, u, v, leap, late, C, day, yy, get, week
  <2>2. get = f + x + y + 4 + u
    BY <1>1, <1>2, <1>3, <1>8, <2>1
  <2>3. week = 4 + 365 * (y - 1970) + (u - 477) + (f + 7 * e + 5) + x - 1
    BY <1>1, <1>2, <1>3, <1>5, <1>6, <2>1 DEF week
  <2>4. week = get + 7 * (52 * y - 102789 + e)
    BY <1>1, <1>2, <1>3, <2>2, <2>3
  <2>5. get \in Nat /\ week \in Nat
    BY <1>1, <1>2, <1>3, <1>5, <1>6, <2>1, <2>2 DEF week
  <2>6. 52 * y - 102789 + e \in Int
    BY <1>1
  <2>7. week % 7 = get % 7
    BY <2>4, <2>5, <2>6, SameModulo7
  <2> QED BY <1>7, <2>7 DEF y, m, x
<1>10. CASE ~ (m < 3)
  <2>1. day = x + y - 2 /\ Q(yy) = v /\ late = leap /\ b = f + 7 * e + 3
    BY <1>1, <1>4, <1>10
  <2> HIDE DEF y, m, x, f, b, u, v, leap, late, C, day, yy, get, week
  <2>2. get = f + x + y + 2 + u + leap
    BY <1>1, <1>2, <1>3, <1>8, <2>1
  <2>3. week = 4 + 365 * (y - 1970) + (u - 477) + (f + 7 * e + 3) + leap + x - 1
    BY <1>1, <1>2, <1>3, <1>5, <1>6, <2>1 DEF week
  <2>4. week = get + 7 * (52 * y - 102789 + e)
    BY <1>1, <1>2, <1>3, <2>2, <2>3
  <2>5. get \in Nat /\ week \in Nat
    BY <1>1, <1>2, <1>3, <1>5, <1>6, <2>1, <2>2 DEF week
  <2>6. 52 * y - 102789 + e \in Int
    BY <1>1
  <2>7. week % 7 = get % 7
    BY <2>4, <2>5, <2>6, SameModulo7
  <2> QED BY <1>7, <2>7 DEF y, m, x
<1> QED BY <1>9, <1>10

(***************************************************************************)
(* A date and its place in the year.                                       *)
(***************************************************************************)
IsDay(d) == /\ d \in [year : Nat, month : Nat, day : Nat, second : Nat]
            /\ d.year >= 1970 /\ d.month \in 1 .. 12 /\ d.day >= 1
            /\ d.day <= (IF d.month = 2 /\ is_leap_year(d.year) THEN 29 ELSE days_in_month[d.month])
Place(d) == Before(d.month) + d.day
Number(d) == 365 * (d.year - 1970) + Place(d)
SameDay(r, d) == r.year = d.year /\ r.month = d.month /\ r.day = d.day

LEMMA PlaceFacts ==
  ASSUME NEW d, IsDay(d)
  PROVE  /\ d.year \in Nat /\ d.day \in Nat /\ Before(d.month) \in Nat /\ Place(d) \in Nat
         /\ Before(d.month) < Place(d)
         /\ \/ Place(d) <= month_table[d.month]
            \/ is_leap_year(d.year) /\ d.month = 2 /\ d.day = 29 /\ Place(d) = 60
         /\ d.month = 1 => Place(d) <= 31
         /\ Place(d) <= 365
         /\ Place(d) = 365 <=> LastOfYear(d)
<1> DEFINE m == d.month
           b == Before(m)
           t == month_table[m]
           l == days_in_month[m]
<1>1. d.year \in Nat /\ d.day \in Nat /\ d.day >= 1 /\ m \in 1 .. 12
  BY DEF IsDay
<1>2. b \in Nat /\ t \in Nat /\ l \in Nat /\ t = b + l /\ l <= 31
  BY <1>1, MonthTable
<1>3. d.day <= (IF m = 2 /\ is_leap_year(d.year) THEN 29 ELSE l)
  BY DEF IsDay
<1>4. Place(d) = b + d.day
  BY DEF Place
<1>5. m = 1 => b = 0
  BY DEF Before
<1>6. m = 2 => b = 31 /\ l = 28
  BY MonthTable DEF Before
<1>7. m = 12 => b = 334 /\ t = 365
  BY MonthTable
<1>8. m < 12 => t < 365
  <2>1. 12 \in 1 .. 12 /\ month_table[12] = 365
    BY MonthTable
  <2> QED BY <1>1, <2>1, MonthsFollow
<1>9. Place(d) <= t \/ (is_leap_year(d.year) /\ m = 2 /\ d.day = 29 /\ Place(d) = 60)
  <2>1. CASE m = 2 /\ is_leap_year(d.year) /\ d.day = 29
    BY <1>4, <1>6, <2>1
  <2>2. CASE m = 2 /\ is_leap_year(d.year) /\ d.day # 29
    <3>1. d.day <= 28
      BY <1>1, <1>3, <2>2
    <3> HIDE DEF m, b, t, l
    <3> QED BY <1>1, <1>2, <1>4, <1>6, <2>2, <3>1
  <2>3. CASE ~ (m = 2 /\ is_leap_year(d.year))
    <3>1. d.day <= l
      BY <1>3, <2>3
    <3> HIDE DEF m, b, t, l
    <3> QED BY <1>1, <1>2, <1>4, <3>1
  <2> QED BY <2>1, <2>2, <2>3
<1>10. m = 1 => d.day <= 31
  BY <1>1, <1>2, <1>3
<1>11. m < 12 \/ m = 12
  BY <1>1
<1>12. LastOfYear(d) <=> m = 12 /\ d.day = 31
  BY DEF LastOfYear
<1> HIDE DEF m, b, t, l
<1>13. Place(d) \in Nat /\ b < Place(d)
  BY <1>1, <1>2, <1>4
<1>14. m = 1 => Place(d) <= 31
  BY <1>1, <1>2, <1>4, <1>5, <1>10
<1>15. m < 12 => Place(d) < 365
  BY <1>2, <1>8, <1>9, <1>13
<1>16. m = 12 => Place(d) <= 365 /\ Place(d) = 334 + d.day
  BY <1>1, <1>2, <1>4, <1>7, <1>9
<1>17. Place(d) <= 365
  BY <1>11, <1>13, <1>15, <1>16
<1>18. Place(d) = 365 <=> LastOfYear(d)
  BY <1>1, <1>11, <1>12, <1>13, <1>15, <1>16
<1> QED BY <1>1, <1>2, <1>9, <1>13, <1>14, <1>17, <1>18 DEF m, b, t

\* A day that has the number the reader wants is read as it is, but for the last of a year.
LEMMA ReadSame ==
  ASSUME NEW d, IsDay(d), ~ is_leap_year(d.year) \/ Place(d) <= 59, NEW s
  PROVE  SameDay(get_solar48_date([day |-> Number(d), second |-> s]), d) <=> ~ LastOfYear(d)
<1> DEFINE p == Place(d)
           y == d.year
           r == get_solar48_date([day |-> Number(d), second |-> s])
<1>1. /\ y \in Nat /\ y >= 1970 /\ d.month \in 1 .. 12 /\ d.day \in Nat
      /\ p \in Nat /\ Before(d.month) \in Nat /\ Before(d.month) < p /\ p <= 365
      /\ p = Before(d.month) + d.day
  BY PlaceFacts DEF IsDay, Place
<1>2. Number(d) = 365 * (y - 1970) + p /\ Number(d) \in Nat
  BY <1>1 DEF Number
<1>3. p = 365 <=> LastOfYear(d)
  BY PlaceFacts
<1>4. CASE p < 365
  <2>1. /\ r.year = y /\ r.month \in 1 .. 12 /\ r.day \in Nat
        /\ p > 0 => /\ Before(r.month) \in Nat /\ p = Before(r.month) + r.day /\ r.day >= 1
                    /\ p <= month_table[r.month] \/ (is_leap_year(y) /\ p = 60)
    <3> HIDE DEF p, y, r
    <3>1. ReadsAs(r, y, p, s)
      BY <1>1, <1>2, <1>4, DateReadFacts DEF r
    <3> QED BY <3>1 DEF ReadsAs
  <2>2. p > 0
    BY <1>1
  <2>3. p <= month_table[r.month]
    BY <2>1, <2>2
  <2>4. p <= month_table[d.month]
    BY PlaceFacts
  <2>5. Before(r.month) < p
    BY <2>1, <2>2
  <2> HIDE DEF p, r, y
  <2>6. r.month = d.month
    BY <1>1, <2>1, <2>3, <2>4, <2>5, MonthUnique
  <2>7. r.day = d.day
    BY <1>1, <2>1, <2>2, <2>6
  <2>8. SameDay(r, d)
    BY <2>1, <2>6, <2>7 DEF SameDay, y
  <2> QED BY <1>3, <1>4, <2>8 DEF r
<1>5. CASE p = 365
  <2>1. Number(d) = 365 * ((y + 1) - 1970) + 0 /\ y + 1 \in Nat /\ y + 1 >= 1970
    BY <1>1, <1>2, <1>5
  <2>2. r.year = y + 1
    <3> DEFINE z == y + 1
               n == Number(d)
               q == 0
    <3>1. z \in Nat /\ z >= 1970 /\ n \in Nat /\ q \in Nat /\ q < 365 /\ n = 365 * (z - 1970) + q
      BY <1>2, <2>1
    <3> HIDE DEF z, n, q, r
    <3>2. ReadsAs(r, z, q, s)
      BY <3>1, DateReadFacts DEF r, n
    <3> QED BY <3>2 DEF ReadsAs, z
  <2>3. r.year # y
    BY <1>1, <2>2
  <2> QED BY <1>3, <1>5, <2>3 DEF SameDay
<1> QED BY <1>1, <1>4, <1>5

\* A day that is one or two late is never read as it is.
LEMMA ReadShifted ==
  ASSUME NEW d, IsDay(d), NEW k \in {1, 2}, NEW s
  PROVE  ~ SameDay(get_solar48_date([day |-> Number(d) + k, second |-> s]), d)
<1> DEFINE p == Place(d)
           y == d.year
           n == Number(d) + k
           r == get_solar48_date([day |-> n, second |-> s])
<1>1. /\ y \in Nat /\ y >= 1970 /\ d.month \in 1 .. 12 /\ d.day \in Nat
      /\ p \in Nat /\ Before(d.month) \in Nat /\ p <= 365
      /\ p = Before(d.month) + d.day
  BY PlaceFacts DEF IsDay, Place
<1>2. n = 365 * (y - 1970) + (p + k) /\ n \in Nat /\ p + k \in Nat /\ p + k > 0
  BY <1>1 DEF Number
<1>3. CASE p + k < 365
  <2> DEFINE q == p + k
  <2>1. /\ r.year = y /\ r.month \in 1 .. 12 /\ r.day \in Nat
        /\ q > 0 => /\ Before(r.month) \in Nat /\ q = Before(r.month) + r.day
    <3>1. q \in Nat /\ q < 365 /\ n \in Nat /\ n = 365 * (y - 1970) + q
      BY <1>2, <1>3
    <3> HIDE DEF p, y, n, q, r
    <3>2. ReadsAs(r, y, q, s)
      BY <1>1, <3>1, DateReadFacts DEF r
    <3> QED BY <3>2 DEF ReadsAs
  <2>2. r.month = d.month => r.day = d.day + k
    <3>1. q > 0 /\ q = p + k
      BY <1>2
    <3> HIDE DEF q, p, r
    <3> QED BY <1>1, <2>1, <3>1
  <2>3. d.day + k # d.day
    BY <1>1
  <2> HIDE DEF r
  <2>4. ~ SameDay(r, d)
    BY <2>2, <2>3 DEF SameDay
  <2> QED BY <2>4 DEF r, n
<1>4. CASE p + k >= 365
  <2> DEFINE z == y + 1
             q == p + k - 365
  <2>1. n = 365 * (z - 1970) + q /\ z \in Nat /\ z >= 1970 /\ q \in Nat /\ q < 365
    BY <1>1, <1>2, <1>4
  <2>2. r.year = z
    <3> HIDE DEF z, n, q, r
    <3>1. ReadsAs(r, z, q, s)
      BY <1>2, <2>1, DateReadFacts DEF r
    <3> QED BY <3>1 DEF ReadsAs
  <2>3. r.year # y
    BY <1>1, <2>2
  <2> QED BY <2>3 DEF SameDay
<1> QED BY <1>1, <1>3, <1>4

NextMonth(d, m) == [d EXCEPT !.day = 1, !.month = m]
NewYear(d, y) == [d EXCEPT !.day = 1, !.month = 1, !.year = y]

LEMMA NextMonthFacts ==
  ASSUME NEW d \in [year : Nat, month : Nat, day : Nat, second : Nat], NEW m \in Nat
  PROVE  /\ NextMonth(d, m) \in [year : Nat, month : Nat, day : Nat, second : Nat]
         /\ NextMonth(d, m).year = d.year /\ NextMonth(d, m).month = m /\ NextMonth(d, m).day = 1
BY DEF NextMonth

LEMMA NewYearFacts ==
  ASSUME NEW d \in [year : Nat, month : Nat, day : Nat, second : Nat], NEW y \in Nat
  PROVE  /\ NewYear(d, y) \in [year : Nat, month : Nat, day : Nat, second : Nat]
         /\ NewYear(d, y).year = y /\ NewYear(d, y).month = 1 /\ NewYear(d, y).day = 1
BY DEF NewYear

LEMMA TomorrowIs ==
  ASSUME NEW d, IsDay(d)
  PROVE  /\ ~ LastOfMonth(d) => Tomorrow(d) = [d EXCEPT !.day = d.day + 1]
         /\ LastOfMonth(d) /\ d.month < 12 =>
              Tomorrow(d) = NextMonth(d, d.month + 1)
         /\ LastOfMonth(d) /\ d.month = 12 =>
              /\ Tomorrow(d) = NewYear(d, d.year + 1)
              /\ Place(d) = 365
<1>1. /\ d.month \in 1 .. 12 /\ d.day \in Nat
  BY DEF IsDay
<1>2. ASSUME ~ LastOfMonth(d) PROVE Tomorrow(d) = [d EXCEPT !.day = d.day + 1]
  BY <1>2 DEF Tomorrow
<1>3. ASSUME LastOfMonth(d), d.month < 12
      PROVE  Tomorrow(d) = NextMonth(d, d.month + 1)
  BY <1>3 DEF Tomorrow, NextMonth
<1>4. ASSUME LastOfMonth(d), d.month = 12
      PROVE  /\ Tomorrow(d) = NewYear(d, d.year + 1)
             /\ Place(d) = 365
  <2>1. ~ (d.month < 12)
    BY <1>4
  <2>2. d.day = 31
    BY <1>4, MonthTable DEF LastOfMonth
  <2>3. Place(d) = 365
    BY <1>4, <2>2, PlaceFacts DEF LastOfYear
  <2>4. Tomorrow(d) = NewYear(d, d.year + 1)
    BY <1>4, <2>1 DEF Tomorrow, NewYear
  <2> QED BY <2>3, <2>4
<1> QED BY <1>2, <1>3, <1>4

\* The number of the next day, and what becomes of a leap day that was added too early.
NextDay(d, x) ==
  /\ IsDay(x)
  /\ LeapDayTooEarly(d) => Number(d) + 2 = Number(x) + 1 \/ Number(d) + 2 = Number(x) + 2
  /\ ~ LeapDayTooEarly(d) => /\ Number(d) + 1 = Number(x)
                             /\ ~ is_leap_year(x.year) \/ Place(x) <= 59

LEMMA TomorrowFacts ==
  ASSUME NEW d, IsDay(d)
  PROVE  NextDay(d, Tomorrow(d))
<1> DEFINE x == Tomorrow(d)
           m == d.month
           y == d.year
           leap == is_leap_year(y)
<1>1. /\ d \in [year : Nat, month : Nat, day : Nat, second : Nat]
      /\ y >= 1970 /\ m \in 1 .. 12 /\ d.day >= 1 /\ y \in Nat /\ m \in Nat /\ d.day \in Nat
      /\ d.day <= (IF m = 2 /\ leap THEN 29 ELSE days_in_month[m])
  BY DEF IsDay
<1>2. /\ Place(d) \in Nat /\ Before(m) \in Nat /\ Place(d) = Before(m) + d.day
      /\ m = 1 => Place(d) <= 31
  BY PlaceFacts DEF Place
<1>3. days_in_month[m] \in Nat /\ days_in_month[m] >= 28
  BY <1>1, MonthTable
<1>4. Number(d) = 365 * (y - 1970) + Place(d) /\ Number(d) \in Nat
  BY <1>1, <1>2 DEF Number
<1>5. LeapDayTooEarly(d) <=> leap /\ m > 1
  BY DEF LeapDayTooEarly
<1>6. CASE ~ LastOfMonth(d)
  <2>1. x = [d EXCEPT !.day = d.day + 1]
    BY <1>6, TomorrowIs
  <2>2. /\ x \in [year : Nat, month : Nat, day : Nat, second : Nat]
        /\ x.year = y /\ x.month = m /\ x.day = d.day + 1
    BY <1>1, <2>1
  <2>3. d.day # (IF m = 2 /\ leap THEN 29 ELSE days_in_month[m])
    BY <1>6 DEF LastOfMonth
  <2>4. d.day + 1 <= (IF m = 2 /\ leap THEN 29 ELSE days_in_month[m])
    BY <1>1, <1>3, <2>3
  <2>5. IsDay(x)
    BY <1>1, <2>2, <2>4 DEF IsDay
  <2>6. Place(x) = Place(d) + 1 /\ Number(x) = 365 * (y - 1970) + Place(x)
    BY <1>1, <1>2, <2>2 DEF Place, Number
  <2>7. Number(d) + 1 = Number(x) /\ Number(x) \in Nat
    BY <1>1, <1>2, <1>4, <2>6
  <2>8. m = 1 => Place(x) <= 31
    BY <2>2, <2>5, PlaceFacts
  <2>9. ~ LeapDayTooEarly(d) => ~ leap \/ Place(x) <= 59
    BY <1>1, <1>2, <1>5, <2>6, <2>8
  <2> HIDE DEF x
  <2> QED BY <1>4, <2>2, <2>5, <2>7, <2>9 DEF NextDay, x
<1>7. CASE LastOfMonth(d) /\ m < 12
  <2>1. x = NextMonth(d, m + 1)
    BY <1>7, TomorrowIs
  <2>2. /\ x \in [year : Nat, month : Nat, day : Nat, second : Nat]
        /\ x.year = y /\ x.month = m + 1 /\ x.day = 1
    <3>1. m + 1 \in Nat /\ 1 \in Nat
      BY <1>1
    <3> QED BY <1>1, <2>1, <3>1, NextMonthFacts
  <2>3. d.day = (IF m = 2 /\ leap THEN 29 ELSE days_in_month[m])
    BY <1>7 DEF LastOfMonth
  <2>4. m + 1 \in 1 .. 12 /\ m + 1 # 1
    BY <1>1, <1>7
  <2>5. days_in_month[m + 1] >= 28 /\ days_in_month[m + 1] \in Nat
    BY <2>4, MonthTable
  <2>6. IsDay(x)
    BY <1>1, <2>2, <2>4, <2>5 DEF IsDay
  <2>7. Before(m + 1) = month_table[m] /\ month_table[m] \in Nat
        /\ month_table[m] = Before(m) + days_in_month[m]
    BY <1>1, <2>4, MonthTable DEF Before
  <2>8. Place(x) = month_table[m] + 1 /\ Number(x) = 365 * (y - 1970) + Place(x)
    BY <2>2, <2>7 DEF Place, Number
  <2>9. CASE m = 2 /\ leap
    <3>1. Place(d) = 60 /\ month_table[m] = 59
      BY <1>2, <2>3, <2>9, MonthTable DEF Before
    <3>2. Number(d) + 2 = Number(x) + 2
      BY <1>1, <1>4, <2>8, <3>1
    <3>3. LeapDayTooEarly(d)
      BY <1>5, <2>9
    <3> HIDE DEF x
    <3> QED BY <2>6, <3>2, <3>3 DEF NextDay, x
  <2>10. CASE ~ (m = 2 /\ leap)
    <3>1. Place(x) = Place(d) + 1
      BY <1>2, <1>3, <2>3, <2>7, <2>8, <2>10
    <3>2. Number(d) + 1 = Number(x) /\ Number(x) \in Nat
      BY <1>1, <1>2, <1>4, <2>8, <3>1
    <3>3. ~ LeapDayTooEarly(d) => ~ leap \/ Place(x) <= 59
      BY <1>1, <1>2, <1>5, <3>1
    <3> HIDE DEF x
    <3> QED BY <1>4, <2>2, <2>6, <3>2, <3>3 DEF NextDay, x
  <2> QED BY <2>9, <2>10
<1>8. CASE LastOfMonth(d) /\ m = 12
  <2>1. x = NewYear(d, y + 1) /\ Place(d) = 365
    BY <1>8, TomorrowIs
  <2>2. /\ x \in [year : Nat, month : Nat, day : Nat, second : Nat]
        /\ x.year = y + 1 /\ x.month = 1 /\ x.day = 1
    <3>1. y + 1 \in Nat /\ 1 \in Nat
      BY <1>1
    <3> QED BY <1>1, <2>1, <3>1, NewYearFacts
  <2>3. IsDay(x)
    <3>1. days_in_month[1] = 31
      BY DEF days_in_month
    <3> QED BY <1>1, <2>2, <3>1 DEF IsDay
  <2>4. Place(x) = 1
    BY <2>2 DEF Place, Before
  <2>5. Number(x) = 365 * ((y + 1) - 1970) + 1
    BY <2>2, <2>4 DEF Number
  <2>6. Number(d) + 1 = Number(x) /\ Number(x) \in Nat
    BY <1>1, <1>4, <2>1, <2>5
  <2> HIDE DEF x
  <2> QED BY <1>4, <2>3, <2>4, <2>6 DEF NextDay, x
<1> QED BY <1>1, <1>6, <1>7, <1>8

\* A reader that sees e seconds, less than a day, more than those of the timestamp.
LEMMA DateRead ==
  ASSUME NEW d, IsDay(d), d.second < 86400, NEW e \in Nat, e < 86400, NEW n \in Nat, NEW s \in Nat,
         s < 86400, 86400 * n + s = 86400 * Timestamp(d).day + d.second + e
  PROVE  LET r == get_solar48_date([day |-> n, second |-> s])
             now == Later(d, e)
         IN  /\ r.second = now.second
             /\ SameDay(r, now) <=> ~ (LeapDayTooEarly(d) \/ LastOfYear(now))
<1> DEFINE N == Number(d)
           t == Timestamp(d).day
           x == Tomorrow(d)
           now == Later(d, e)
           r == get_solar48_date([day |-> n, second |-> s])
<1>1. /\ d \in [year : Nat, month : Nat, day : Nat, second : Nat]
      /\ d.year \in Nat /\ d.year >= 1970 /\ d.second \in Nat /\ Place(d) \in Nat
      /\ d.day \in Nat /\ Before(d.month) \in Nat /\ d.month \in 1 .. 12
  BY PlaceFacts DEF IsDay
<1>2. N = 365 * (d.year - 1970) + Place(d) /\ Place(d) = Before(d.month) + d.day /\ N \in Nat
  BY <1>1 DEF Number, Place
<1>3. t = N + (IF LeapDayTooEarly(d) THEN 1 ELSE 0) /\ t \in Nat
  <2>1. t = (d.year - 1970) * 365 + d.day +
            (IF d.month = 1 THEN 0
             ELSE Before(d.month) + (IF is_leap_year(d.year) THEN 1 ELSE 0))
    BY DEF Timestamp, Before
  <2>2. LeapDayTooEarly(d) <=> is_leap_year(d.year) /\ d.month # 1
    BY <1>1 DEF LeapDayTooEarly
  <2>3. d.month = 1 => Before(d.month) = 0
    BY DEF Before
  <2> HIDE DEF t, N
  <2> QED BY <1>1, <1>2, <2>1, <2>2, <2>3
<1>4. SUFFICES r.second = now.second
               /\ (SameDay(r, now) <=> ~ (LeapDayTooEarly(d) \/ LastOfYear(now)))
  OBVIOUS
<1>5. r.second = s
  BY DEF get_solar48_date
<1>6. CASE d.second + e < 86400
  <2>1. n = t /\ s = d.second + e
    <3> DEFINE u == d.second + e
    <3>1. u \in Nat /\ u < 86400 /\ 86400 * n + s = 86400 * t + u
      BY <1>1, <1>3, <1>6
    <3> HIDE DEF t, u
    <3>2. n = t /\ s = u
      BY <1>3, <3>1, SecondsUnique
    <3> QED BY <3>2 DEF u
  <2>2. now = [d EXCEPT !.second = d.second + e]
    BY <1>6 DEF Later
  <2>3. /\ now.second = d.second + e /\ now.year = d.year /\ now.month = d.month
        /\ now.day = d.day
    BY <1>1, <2>2
  <2>4. (SameDay(r, now) <=> SameDay(r, d)) /\ (LastOfYear(now) <=> LastOfYear(d))
    <3> HIDE DEF now, r
    <3> QED BY <2>3 DEF SameDay, LastOfYear
  <2>5. CASE LeapDayTooEarly(d)
    <3>1. n = N + 1
      BY <1>2, <1>3, <2>1, <2>5
    <3>2. ~ SameDay(r, d)
      BY <3>1, ReadShifted
    <3> QED BY <1>5, <2>1, <2>3, <2>4, <2>5, <3>2
  <2>6. CASE ~ LeapDayTooEarly(d)
    <3>1. n = N
      BY <1>2, <1>3, <2>1, <2>6
    <3>2. ~ is_leap_year(d.year) \/ Place(d) <= 59
      BY <1>1, <2>6, PlaceFacts DEF LeapDayTooEarly
    <3>3. SameDay(r, d) <=> ~ LastOfYear(d)
      BY <3>1, <3>2, ReadSame
    <3> QED BY <1>5, <2>1, <2>3, <2>4, <2>6, <3>3
  <2> QED BY <2>5, <2>6
<1>7. CASE d.second + e >= 86400
  <2> DEFINE u == d.second + e - 86400
  <2>1. n = t + 1 /\ s = u
    <3>1. u \in Nat /\ u < 86400 /\ t + 1 \in Nat /\ 86400 * n + s = 86400 * (t + 1) + u
      BY <1>1, <1>3, <1>7
    <3> HIDE DEF t, u
    <3> QED BY <3>1, SecondsUnique
  <2>2. now = [x EXCEPT !.second = u]
    <3>1. ~ (d.second + e < 86400)
      BY <1>1, <1>7
    <3> QED BY <3>1 DEF Later
  <2>3. NextDay(d, x)
    BY TomorrowFacts
  <2>4. IsDay(x) /\ x \in [year : Nat, month : Nat, day : Nat, second : Nat]
    BY <2>3 DEF NextDay, IsDay
  <2> HIDE DEF x, u
  <2>5. /\ now.second = u /\ now.year = x.year /\ now.month = x.month /\ now.day = x.day
    BY <2>2, <2>4
  <2>6. (SameDay(r, now) <=> SameDay(r, x)) /\ (LastOfYear(now) <=> LastOfYear(x))
    <3> HIDE DEF now, r
    <3> QED BY <2>5 DEF SameDay, LastOfYear
  <2>7. CASE LeapDayTooEarly(d)
    <3>1. n = N + 2
      <4> HIDE DEF t, N
      <4> QED BY <1>2, <1>3, <2>1, <2>7
    <3>2. n = Number(x) + 1 \/ n = Number(x) + 2
      BY <2>3, <2>7, <3>1 DEF NextDay
    <3>3. ~ SameDay(r, x)
      BY <2>4, <3>2, ReadShifted
    <3> QED BY <1>5, <2>1, <2>5, <2>6, <2>7, <3>3
  <2>8. CASE ~ LeapDayTooEarly(d)
    <3>1. n = N + 1
      <4> HIDE DEF t, N
      <4> QED BY <1>2, <1>3, <2>1, <2>8
    <3>2. n = Number(x) /\ (~ is_leap_year(x.year) \/ Place(x) <= 59)
      BY <2>3, <2>8, <3>1 DEF NextDay
    <3>3. SameDay(r, x) <=> ~ LastOfYear(x)
      BY <2>4, <3>2, ReadSame
    <3> QED BY <1>5, <2>1, <2>5, <2>6, <2>8, <3>3
  <2> QED BY <2>7, <2>8
<1> QED BY <1>1, <1>6, <1>7

(***************************************************************************)
(* The counter counts the seconds since 1970 from the date that was set,   *)
(* until it has run over, and a reader holds a half of what it counted.    *)
(***************************************************************************)
Seconds(d) == 86400 * Timestamp(d).day + d.second
Counted(high, low, e) == \/ 65536 * high + low = Seconds(set) + e
                         \/ 65536 * high + low + 4294967296 = Seconds(set) + e

CounterInv == /\ RTC_CNTH \in Nat /\ RTC_CNTL \in Nat /\ RTC_CNTH < 65536 /\ RTC_CNTL < 65536
              /\ elapsed \in Nat /\ elapsed <= MaxTicks
SetInv == set # Nothing => /\ IsDay(set) /\ set.second < 86400 /\ Fits(Timestamp(set))
                           /\ Counted(RTC_CNTH, RTC_CNTL, elapsed)
HalfInv == half # Nothing => /\ half.high \in Nat /\ half.low \in Nat
                             /\ half.elapsed \in Nat /\ half.elapsed <= MaxTicks
                             /\ half.set # Nothing => /\ half.set = set
                                                      /\ Counted(half.high, half.low, half.elapsed)
CalendarInv == CounterInv /\ SetInv /\ HalfInv

LEMMA SecondsFacts ==
  ASSUME NEW d, IsDay(d), d.second < 86400
  PROVE  /\ d.second \in Nat /\ Timestamp(d).day \in Nat /\ Timestamp(d).second = d.second
         /\ Seconds(d) \in Nat
         /\ Fits(Timestamp(d)) => Seconds(d) < 4294967296
<1>1. /\ d.year \in Nat /\ d.year >= 1970 /\ d.day \in Nat /\ d.second \in Nat
      /\ d.month \in 1 .. 12 /\ Before(d.month) \in Nat
  BY PlaceFacts DEF IsDay
<1> DEFINE t == Timestamp(d).day
           b == IF d.month = 1 THEN 0
                ELSE Before(d.month) + (IF is_leap_year(d.year) THEN 1 ELSE 0)
<1>2. t = (d.year - 1970) * 365 + d.day + b /\ Timestamp(d).second = d.second
  BY DEF Timestamp, Before
<1>3. b \in Nat
  BY <1>1
<1> HIDE DEF t, b
<1>4. t \in Nat
  BY <1>1, <1>2, <1>3
<1>5. Seconds(d) = 86400 * t + d.second
  BY DEF Seconds, t
<1>6. Seconds(d) \in Nat
  BY <1>1, <1>4, <1>5
<1>7. ASSUME Fits(Timestamp(d)) PROVE Seconds(d) < 4294967296
  <2>1. t < 49710 \/ (t = 49710 /\ d.second <= 23295)
    BY <1>2, <1>7 DEF Fits, MaxTimestamp, t
  <2> QED BY <1>1, <1>4, <1>5, <2>1
<1> QED BY <1>1, <1>2, <1>4, <1>6, <1>7 DEF t

LEMMA SetDateKeeps ==
  ASSUME CalendarInv, set = Nothing, NEW y \in Years, NEW m \in 0 .. 13, NEW x \in 0 .. 32,
         NEW s \in TimesOfDay, SetDate([year |-> y, month |-> m, day |-> x, second |-> s])
  PROVE  CalendarInv'
<1> DEFINE d == [year |-> y, month |-> m, day |-> x, second |-> s]
           c == CounterOfDay(Timestamp(d))
<1>1. y \in Nat /\ s \in Nat /\ m \in Nat /\ x \in Nat
  BY CalendarAssumption
<1>2. /\ d.year = y /\ d.month = m /\ d.day = x /\ d.second = s
      /\ d \in [year : Nat, month : Nat, day : Nat, second : Nat]
  BY <1>1
<1> HIDE DEF d
<1>3. /\ valid_date(d) /\ d.second < 86400 /\ Fits(Timestamp(d))
      /\ RTC_CNTH' = c.high /\ RTC_CNTL' = c.low /\ set' = d /\ elapsed' = 0
      /\ half' = half
  BY DEF SetDate, d
<1>4. IsDay(d)
  BY <1>1, <1>2, <1>3 DEF IsDay, valid_date
<1>5. /\ Timestamp(d).day \in Nat /\ Timestamp(d).second = d.second /\ Seconds(d) \in Nat
      /\ Seconds(d) < 4294967296 /\ d.second \in Nat
  BY <1>3, <1>4, SecondsFacts
<1>6. c.high \in Nat /\ c.low \in Nat /\ c.low < 65536 /\ 65536 * c.high + c.low = Seconds(d)
  BY <1>5, CounterFacts DEF Seconds
<1> HIDE DEF c
<1>7. c.high < 65536
  BY <1>5, <1>6
<1>8. CounterInv'
  BY <1>3, <1>6, <1>7, CalendarAssumption DEF CounterInv
<1>9. SetInv'
  <2>1. 65536 * c.high + c.low = Seconds(d) + 0
    BY <1>5, <1>6
  <2>2. Counted(RTC_CNTH, RTC_CNTL, elapsed)'
    BY <1>3, <2>1 DEF Counted, Seconds
  <2> QED BY <1>3, <1>4, <2>2 DEF SetInv
<1>10. HalfInv'
  <2>1. half # Nothing => half.set = Nothing
    BY DEF CalendarInv, HalfInv
  <2> QED BY <1>3, <2>1 DEF CalendarInv, HalfInv
<1> QED BY <1>8, <1>9, <1>10 DEF CalendarInv

LEMMA TickKeeps ==
  ASSUME CalendarInv, Tick
  PROVE  CalendarInv'
<1> DEFINE h == RTC_CNTH
           l == RTC_CNTL
           s == Seconds(set)
<1>1. /\ set # Nothing /\ elapsed < MaxTicks /\ elapsed' = elapsed + 1
      /\ half' = half /\ set' = set
      /\ l' = (l + 1) % 65536 /\ h' = (IF l = 65535 THEN (h + 1) % 65536 ELSE h)
  BY DEF Tick
<1>2. /\ h \in Nat /\ l \in Nat /\ h < 65536 /\ l < 65536 /\ elapsed \in Nat
  BY DEF CalendarInv, CounterInv
<1>3. MaxTicks \in Nat /\ MaxTicks < 86400
  BY CalendarAssumption
<1>4. IsDay(set) /\ set.second < 86400 /\ Fits(Timestamp(set)) /\ Counted(h, l, elapsed)
  BY <1>1 DEF CalendarInv, SetInv
<1>5. s \in Nat /\ s < 4294967296 /\ s' = s
  BY <1>1, <1>4, SecondsFacts DEF Seconds
<1>6. \/ 65536 * h + l = s + elapsed
      \/ 65536 * h + l + 4294967296 = s + elapsed
  BY <1>4 DEF Counted
<1>7. \/ l # 65535 /\ l' = l + 1 /\ h' = h
      \/ l = 65535 /\ l' = 0 /\ h # 65535 /\ h' = h + 1
      \/ l = 65535 /\ l' = 0 /\ h = 65535 /\ h' = 0
  <2>1. \A a \in Nat : a < 65536 => IF a = 65535 THEN (a + 1) % 65536 = 0 ELSE (a + 1) % 65536 = a + 1
    OBVIOUS
  <2> QED BY <1>1, <1>2, <2>1
<1>8. /\ h' \in Nat /\ l' \in Nat /\ h' < 65536 /\ l' < 65536
      /\ elapsed' \in Nat /\ elapsed' <= MaxTicks
  BY <1>1, <1>2, <1>3, <1>7
<1>9. \/ 65536 * h' + l' = s + elapsed'
      \/ 65536 * h' + l' + 4294967296 = s + elapsed'
  <2> HIDE DEF s
  <2>1. elapsed < 86400
    BY <1>1, <1>2, <1>3
  <2>2. CASE l # 65535 /\ l' = l + 1 /\ h' = h
    BY <1>1, <1>2, <1>5, <1>6, <2>2
  <2>3. CASE l = 65535 /\ l' = 0 /\ h # 65535 /\ h' = h + 1
    BY <1>1, <1>2, <1>5, <1>6, <2>3
  <2>4. CASE l = 65535 /\ l' = 0 /\ h = 65535 /\ h' = 0
    BY <1>1, <1>2, <1>5, <1>6, <2>1, <2>4
  <2> QED BY <1>7, <2>2, <2>3, <2>4
<1>10. Counted(h, l, elapsed)'
  BY <1>1, <1>5, <1>9 DEF Counted
<1>11. HalfInv'
  BY <1>1 DEF CalendarInv, HalfInv, Counted, Seconds
<1> QED BY <1>1, <1>4, <1>8, <1>10, <1>11 DEF CalendarInv, CounterInv, SetInv

LEMMA CalendarStep ==
  ASSUME CalendarInv, [RtcNext]_rtcVars
  PROVE  CalendarInv'
<1>1. ASSUME set = Nothing, NEW y \in Years, NEW m \in 0 .. 13, NEW x \in 0 .. 32,
             NEW s \in TimesOfDay, SetDate([year |-> y, month |-> m, day |-> x, second |-> s])
      PROVE  CalendarInv'
  BY <1>1, SetDateKeeps
<1>2. CASE Tick
  BY <1>2, TickKeeps
<1>3. ASSUME NEW first \in {"high", "low"}, LoadHalf(first) PROVE CalendarInv'
  <2>1. /\ half' = [date |-> TRUE, first |-> first, high |-> RTC_CNTH, low |-> RTC_CNTL,
                    set |-> set, elapsed |-> elapsed]
        /\ RTC_CNTH' = RTC_CNTH /\ RTC_CNTL' = RTC_CNTL /\ set' = set /\ elapsed' = elapsed
    BY <1>3 DEF LoadHalf
  <2>2. /\ half'.high = RTC_CNTH /\ half'.low = RTC_CNTL /\ half'.set = set
        /\ half'.elapsed = elapsed
    BY <2>1
  <2>3. CounterInv' /\ SetInv'
    BY <2>1 DEF CalendarInv, CounterInv, SetInv, Counted, Seconds
  <2>4. HalfInv'
    BY <2>1, <2>2 DEF CalendarInv, CounterInv, SetInv, HalfInv, Counted, Seconds
  <2> QED BY <2>3, <2>4 DEF CalendarInv
<1>4. CASE GetDate
  <2>1. /\ RTC_CNTH' = RTC_CNTH /\ RTC_CNTL' = RTC_CNTL /\ set' = set /\ elapsed' = elapsed
        /\ half' = Nothing
    BY <1>4 DEF GetDate
  <2> QED BY <2>1 DEF CalendarInv, CounterInv, SetInv, HalfInv, Counted, Seconds
<1>5. CASE UNCHANGED rtcVars
  BY <1>5 DEF rtcVars, CalendarInv, CounterInv, SetInv, HalfInv, Counted, Seconds
<1> QED BY <1>1, <1>2, <1>3, <1>4, <1>5 DEF RtcNext

LEMMA CalendarInit == RtcInit => CalendarInv
BY CalendarAssumption DEF RtcInit, CalendarInv, CounterInv, SetInv, HalfInv

\* The counter of a whole read has not run over.
LEMMA WholeRead ==
  ASSUME CalendarInv, half # Nothing, ReadsWhole, NEW high \in Nat, NEW low \in Nat,
         NEW e \in Nat, e < 86400, Counted(high, low, e), high = RTC_CNTH
  PROVE  /\ IsDay(set) /\ set.second < 86400
         /\ 65536 * high + low = Seconds(set) + e
<1> DEFINE s == Seconds(set)
           c == CounterOfDay(Timestamp(set))
<1>1. set # Nothing
  BY DEF CalendarInv, HalfInv, ReadsWhole
<1>2. IsDay(set) /\ set.second < 86400 /\ Fits(Timestamp(set))
  BY <1>1 DEF CalendarInv, SetInv
<1>3. /\ s \in Nat /\ Timestamp(set).day \in Nat /\ Timestamp(set).second \in Nat
      /\ s = 86400 * Timestamp(set).day + Timestamp(set).second
  BY <1>2, SecondsFacts DEF Seconds
<1>4. c.high \in Nat /\ c.low \in Nat /\ c.low < 65536 /\ 65536 * c.high + c.low = s
  BY <1>3, CounterFacts
<1>5. high >= c.high
  BY DEF ReadsWhole
<1>6. \/ 65536 * high + low = s + e \/ 65536 * high + low + 4294967296 = s + e
  BY DEF Counted
<1> HIDE DEF s, c
<1>7. 65536 * high + low = s + e
  BY <1>3, <1>4, <1>5, <1>6
<1> QED BY <1>2, <1>7 DEF s

(***************************************************************************)
(* A date that is set is read back, whichever year, time of day and order  *)
(* of the two loads, with the seconds passed since and its weekday, but on *)
(* the two kinds of days that DatesKept names: and on those it never is.   *)
(***************************************************************************)
THEOREM CalendarKept == RtcSpec => DatesKept
<1> DEFINE now == Later(set, IF half.first = "high" THEN elapsed ELSE half.elapsed)
           same == sd'.year = now.year /\ sd'.month = now.month /\ sd'.day = now.day
           kept == GetDate /\ ReadsWhole =>
                     /\ sd'.second = now.second
                     /\ sd'.week_day = WeekDay(sd')
                     /\ same <=> ~ (LeapDayTooEarly(set) \/ LastOfYear(now))
<1>1. ASSUME CalendarInv, GetDate, ReadsWhole
      PROVE  /\ sd'.second = now.second
             /\ sd'.week_day = WeekDay(sd')
             /\ same <=> ~ (LeapDayTooEarly(set) \/ LastOfYear(now))
  <2> DEFINE high == RTC_CNTH
             low == IF half.first = "high" THEN RTC_CNTL ELSE half.low
             e == IF half.first = "high" THEN elapsed ELSE half.elapsed
             t == DayOfCounter(high, low)
             r == get_solar48_date(t)
  <2>1. /\ half # Nothing /\ half.set # Nothing /\ half.high = RTC_CNTH
        /\ sd' = get_solar48_date(IF half.first = "high" THEN DayOfCounter(half.high, RTC_CNTL)
                                  ELSE DayOfCounter(RTC_CNTH, half.low))
    BY <1>1 DEF GetDate, ReadsWhole
  <2>2. sd' = r
    BY <2>1
  <2>3. /\ half.low \in Nat /\ half.elapsed \in Nat /\ half.elapsed <= MaxTicks
        /\ RTC_CNTH \in Nat /\ RTC_CNTL \in Nat /\ elapsed \in Nat /\ elapsed <= MaxTicks
        /\ half.set = set /\ Counted(half.high, half.low, half.elapsed)
        /\ Counted(RTC_CNTH, RTC_CNTL, elapsed)
    BY <1>1, <2>1 DEF CalendarInv, CounterInv, SetInv, HalfInv
  <2>4. high \in Nat /\ low \in Nat /\ e \in Nat /\ e < 86400 /\ Counted(high, low, e)
    BY <2>1, <2>3, CalendarAssumption
  <2> HIDE DEF high, low, e
  <2>5. /\ IsDay(set) /\ set.second < 86400
        /\ 65536 * high + low = Seconds(set) + e
    <3>1. high = RTC_CNTH
      BY DEF high
    <3> QED BY <1>1, <2>1, <2>4, <3>1, WholeRead
  <2>6. /\ t = [day |-> t.day, second |-> t.second]
        /\ t.day \in Nat /\ t.second \in Nat /\ t.second < 86400
        /\ 86400 * t.day + t.second = 65536 * high + low
    BY <2>4, DayFacts
  <2>7. set.second \in Nat /\ Timestamp(set).day \in Nat
    BY <2>5, SecondsFacts
  <2> DEFINE n == t.day
             s == t.second
             N == Timestamp(set).day
  <2>8. r = get_solar48_date([day |-> n, second |-> s])
    BY <2>6
  <2>9. n \in Nat /\ s \in Nat /\ s < 86400
    BY <2>6
  <2>10. 86400 * n + s = 86400 * N + set.second + e
    BY <2>4, <2>5, <2>6, <2>7 DEF Seconds
  <2> HIDE DEF n, s, r, t
  <2>11. /\ r.second = Later(set, e).second
         /\ SameDay(r, Later(set, e)) <=> ~ (LeapDayTooEarly(set) \/ LastOfYear(Later(set, e)))
    BY <2>4, <2>5, <2>8, <2>9, <2>10, DateRead
  <2>12. r.week_day = WeekDay(r)
    <3> DEFINE p == n \div 365
               q == n % 365
               y == p + 1970
    <3>1. p \in Nat /\ q \in Nat /\ q < 365 /\ n = 365 * p + q
      BY <2>9
    <3> HIDE DEF p, q
    <3>2. y \in Nat /\ y >= 1970 /\ n = 365 * (y - 1970) + q
      BY <3>1
    <3> HIDE DEF y
    <3>3. ReadsAs(r, y, q, s)
      BY <2>8, <2>9, <3>1, <3>2, DateReadFacts
    <3>4. /\ r.year \in Nat /\ r.year >= 1970 /\ r.month \in 1 .. 12 /\ r.day \in Nat /\ r.day >= 1
          /\ r.week_day = get_day(r.year, r.month, r.day)
      BY <3>2, <3>3 DEF ReadsAs
    <3> QED BY <3>4, WeekDayRight
  <2>13. now = Later(set, e)
    BY DEF e
  <2> QED BY <2>2, <2>11, <2>12, <2>13 DEF SameDay
<1>2. CalendarInv /\ [RtcNext]_rtcVars => [kept]_rtcVars
  BY <1>1
<1>3. CalendarInv /\ [RtcNext]_rtcVars => CalendarInv'
  BY CalendarStep
<1> HIDE DEF kept
<1>4. RtcSpec => [][kept]_rtcVars
  BY <1>2, <1>3, CalendarInit, PTL DEF RtcSpec
<1> QED BY <1>4 DEF kept, DatesKept
=============================================================================
