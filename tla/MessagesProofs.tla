--------------------------- MODULE MessagesProofs ---------------------------
(***************************************************************************)
(* A message arrives as it was sent, for any number of values of a byte,   *)
(* any size of the buffers that holds the longest message, and any values  *)
(* of the fields.                                                          *)
(***************************************************************************)
EXTENDS Messages, SequenceTheorems, TLAPS

Byte == 0 .. Base - 1
Numbers == 0 .. Square - 1

-----------------------------------------------------------------------------
(* Integers and their bytes *)

\* A quotient and a remainder make the number.
LEMMA DivMod ==
    ASSUME NEW h \in Nat, NEW b \in Nat \ {0}
    PROVE  /\ h \div b \in Nat /\ h % b \in 0 .. b - 1
           /\ (h \div b) * b + (h % b) = h
  OBVIOUS

\* A number made of digits has these digits.
LEMMA Digits ==
    ASSUME NEW b \in Nat \ {0}, NEW x \in Nat, NEW y \in 0 .. b - 1
    PROVE  (x * b + y) \div b = x /\ (x * b + y) % b = y
  OBVIOUS

\* Two digits are below the square of the base, and a number below it has two.
LEMMA TwoDigits ==
    ASSUME NEW b \in Nat \ {0}, NEW x \in 0 .. b - 1, NEW y \in 0 .. b - 1
    PROVE  x * b + y \in 0 .. b * b - 1
  <1>1. x * b <= (b - 1) * b
    OBVIOUS
  <1>2. (b - 1) * b = b * b - b
    OBVIOUS
  <1> QED  BY <1>1, <1>2

\* The first of two digits is a digit.
LEMMA FirstDigit ==
    ASSUME NEW b \in Nat \ {0}, NEW h \in 0 .. b * b - 1
    PROVE  h \div b \in 0 .. b - 1
  <1>1. h \div b \in Nat /\ (h \div b) * b <= h
    BY DivMod
  <1>2. ASSUME h \div b >= b  PROVE FALSE
    <2>1. (h \div b) * b >= b * b
      BY <1>1, <1>2
    <2> QED  BY <1>1, <2>1
  <1> QED  BY <1>1, <1>2

\* The sizes of the integers.
LEMMA Sizes ==
    /\ Base \in Nat \ {0} /\ Square \in Nat \ {0} /\ Half \in Nat \ {0}
    /\ Square >= 4 /\ Half >= 16
  <1>1. Base \in Nat /\ Base >= 2
    BY MessagesAssumption
  <1>2. Base * Base >= 2 * 2
    BY <1>1
  <1>3. Square \in Nat /\ Square >= 4
    BY <1>1, <1>2 DEF Square
  <1>4. Square * Square >= 4 * 4
    BY <1>3
  <1> QED  BY <1>1, <1>3, <1>4 DEF Half

\* What is packed in 16 bits is read back.
LEMMA Bytes16Value ==
    ASSUME NEW h \in Numbers
    PROVE  /\ Bytes16(h) = <<h \div Base, h % Base>>
           /\ h \div Base \in Byte /\ h % Base \in Byte
           /\ Value16(Bytes16(h)) = h
  <1>1. h \div Base \in 0 .. Base - 1
    BY FirstDigit, Sizes DEF Numbers, Square
  <1>2. h % Base \in 0 .. Base - 1 /\ (h \div Base) * Base + (h % Base) = h
    BY DivMod, Sizes DEF Numbers
  <1> QED  BY <1>1, <1>2 DEF Bytes16, Value16, Byte

\* Two bytes are a number, whose bytes they are.
LEMMA Value16Bytes ==
    ASSUME NEW x \in Byte, NEW y \in Byte
    PROVE  Value16(<<x, y>>) \in Numbers /\ Bytes16(Value16(<<x, y>>)) = <<x, y>>
  <1>1. x * Base + y \in Numbers
    BY TwoDigits, Sizes DEF Byte, Numbers, Square
  <1>2. (x * Base + y) \div Base = x /\ (x * Base + y) % Base = y
    BY Digits, Sizes DEF Byte
  <1> QED  BY <1>1, <1>2 DEF Bytes16, Value16

\* Four bytes are two and two.
LEMMA TwoAndTwo ==
    ASSUME NEW S, NEW a \in S, NEW b \in S, NEW c \in S, NEW d \in S
    PROVE  <<a, b>> \o <<c, d>> = <<a, b, c, d>>
  <1> DEFINE s == <<a, b>>  t == <<c, d>>  u == <<a, b, c, d>>
  <1>1. s \in Seq(S) /\ t \in Seq(S) /\ u \in Seq(S)
    OBVIOUS
  <1>2. Len(s) = 2 /\ Len(t) = 2 /\ Len(u) = 4
    OBVIOUS
  <1>3. \A k \in 1 .. 4 : u[k] = IF k <= 2 THEN s[k] ELSE t[k - 2]
    OBVIOUS
  <1> HIDE DEF s, t, u
  <1>4. s \o t \in Seq(S) /\ Len(s \o t) = 4
    <2>1. s \o t \in Seq(S) /\ Len(s \o t) = Len(s) + Len(t)
      BY <1>1, ConcatProperties
    <2>2. Len(s) + Len(t) = 4
      BY <1>2
    <2> QED  BY <2>1, <2>2
  <1>5. \A k \in 1 .. 4 : (s \o t)[k] = u[k]
    <2>1. \A k \in 1 .. Len(s) + Len(t) :
             (s \o t)[k] = IF k <= Len(s) THEN s[k] ELSE t[k - Len(s)]
      BY <1>1, ConcatProperties
    <2> DEFINE v == s \o t
    <2> HIDE DEF v
    <2>2. \A k \in 1 .. 4 : v[k] = IF k <= 2 THEN s[k] ELSE t[k - 2]
      <3>1. \A k \in 1 .. 2 + 2 : v[k] = IF k <= 2 THEN s[k] ELSE t[k - 2]
        BY <1>2, <2>1, Zenon DEF v
      <3> QED  BY <3>1
    <2> QED  BY <1>3, <2>2 DEF v
  <1>6. s \o t = u
    BY <1>1, <1>2, <1>4, <1>5
  <1> QED  BY <1>6 DEF s, t, u

\* The same with 32 bits.
LEMMA Bytes32Value ==
    ASSUME NEW h \in Halves
    PROVE  \E a, b, c, d \in Byte : /\ Bytes32(h) = <<a, b, c, d>>
                                    /\ Value32(<<a, b, c, d>>) = h
  <1> DEFINE up == h \div Square  low == h % Square
  <1>1. up \in Numbers
    BY FirstDigit, Sizes DEF Numbers, Halves, Half
  <1>2. low \in Numbers /\ up * Square + low = h
    BY DivMod, Sizes DEF Numbers, Halves
  <1>3. Bytes32(h) = Bytes16(up) \o Bytes16(low)
    BY DEF Bytes32
  <1> HIDE DEF up, low
  <1>4. Bytes32(h) = <<up \div Base, up % Base, low \div Base, low % Base>>
    <2>1. Bytes16(up) = <<up \div Base, up % Base>>
      BY <1>1, Bytes16Value
    <2>2. Bytes16(low) = <<low \div Base, low % Base>>
      BY <1>2, Bytes16Value
    <2> DEFINE a == up \div Base  b == up % Base  c == low \div Base  d == low % Base
    <2>3. a \in Byte /\ b \in Byte /\ c \in Byte /\ d \in Byte
      BY <1>1, <1>2, Bytes16Value
    <2>4. Bytes32(h) = <<a, b>> \o <<c, d>>
      BY <1>3, <2>1, <2>2
    <2> HIDE DEF a, b, c, d
    <2>5. Bytes32(h) = <<a, b, c, d>>
      BY <2>3, <2>4, TwoAndTwo
    <2> QED  BY <2>5 DEF a, b, c, d
  <1>5. Value32(<<up \div Base, up % Base, low \div Base, low % Base>>) = h
    <2>1. Value16(<<up \div Base, up % Base>>) = up
      BY <1>1, Bytes16Value
    <2>2. Value16(<<low \div Base, low % Base>>) = low
      BY <1>2, Bytes16Value
    <2> QED  BY <1>2, <2>1, <2>2 DEF Value32
  <1> QED  BY <1>1, <1>2, <1>4, <1>5, Bytes16Value

\* Four bytes are a number, whose bytes they are.
LEMMA Value32Bytes ==
    ASSUME NEW a \in Byte, NEW b \in Byte, NEW c \in Byte, NEW d \in Byte
    PROVE  /\ Value32(<<a, b, c, d>>) \in Halves
           /\ Bytes32(Value32(<<a, b, c, d>>)) = <<a, b, c, d>>
  <1> DEFINE up == Value16(<<a, b>>)  low == Value16(<<c, d>>)
  <1>1. up \in Numbers /\ Bytes16(up) = <<a, b>>
    BY Value16Bytes
  <1>2. low \in Numbers /\ Bytes16(low) = <<c, d>>
    BY Value16Bytes
  <1>3. Value32(<<a, b, c, d>>) = up * Square + low
    BY DEF Value32
  <1> HIDE DEF up, low
  <1>4. up * Square + low \in Halves
    BY <1>1, <1>2, TwoDigits, Sizes DEF Numbers, Halves, Half
  <1>5. (up * Square + low) \div Square = up /\ (up * Square + low) % Square = low
    <2>1. up \in Nat /\ low \in 0 .. Square - 1
      BY <1>1, <1>2, Sizes DEF Numbers
    <2> QED  BY <2>1, Digits, Sizes
  <1>6. Bytes32(up * Square + low) = <<a, b>> \o <<c, d>>
    BY <1>1, <1>2, <1>5 DEF Bytes32
  <1> QED  BY <1>3, <1>4, <1>6, TwoAndTwo

\* The same four bytes from the other end.
LEMMA ReverseFour ==
    ASSUME NEW a, NEW b, NEW c, NEW d
    PROVE  Reverse(<<a, b, c, d>>) = <<d, c, b, a>>
  BY DEF Reverse

\* htonl and ntohl undo each other.
LEMMA SwapTwice ==
    ASSUME NEW h \in Halves
    PROVE  Swap(h) \in Halves /\ Swap(Swap(h)) = h
  <1>1. PICK a, b, c, d \in Byte : /\ Bytes32(h) = <<a, b, c, d>>
                                   /\ Value32(<<a, b, c, d>>) = h
    BY Bytes32Value
  <1>2. Swap(h) = Value32(<<d, c, b, a>>)
    BY <1>1, ReverseFour DEF Swap
  <1>3. Swap(h) \in Halves /\ Bytes32(Swap(h)) = <<d, c, b, a>>
    BY <1>2, Value32Bytes
  <1>4. Swap(Swap(h)) = Value32(<<a, b, c, d>>)
    BY <1>3, ReverseFour DEF Swap
  <1> QED  BY <1>1, <1>3, <1>4

\* Zero has no order.
LEMMA SwapZero == 0 \in Halves /\ Swap(0) = 0 /\ ~Negative(0)
  <1>1. 0 \div Square = 0 /\ 0 % Square = 0 /\ 0 \div Base = 0 /\ 0 % Base = 0
    BY Sizes
  <1>2. Bytes32(0) = <<0, 0, 0, 0>>
    <2>1. Bytes16(0) = <<0, 0>>
      BY <1>1 DEF Bytes16
    <2>2. Bytes32(0) = <<0, 0>> \o <<0, 0>>
      BY <1>1, <2>1 DEF Bytes32
    <2> QED  BY <2>2, TwoAndTwo
  <1>3. Swap(0) = Value32(<<0, 0, 0, 0>>)
    BY <1>2, ReverseFour DEF Swap
  <1>4. Value16(<<0, 0>>) = 0
    BY Sizes DEF Value16
  <1>5. Value32(<<0, 0, 0, 0>>) = 0
    BY <1>4, Sizes DEF Value32
  <1> QED  BY <1>3, <1>5, Sizes DEF Halves, Negative

-----------------------------------------------------------------------------
(* Buffers *)

Buf == [head : Seq(Byte), processed : Nat]

\* The bytes bs are in the buffer, behind the first n.
At(b, n, bs) == \A k \in 1 .. Len(bs) : b.head[n + k] = bs[k]

\* c is b with something behind what was in it.
Grown(b, c) ==
    /\ c \in Buf
    /\ Len(c.head) = Len(b.head)
    /\ b.processed <= c.processed
    /\ \A k \in 1 .. b.processed : c.head[k] = b.head[k]

\* c is b with the bytes bs behind what was in it.
Packed(b, c, bs) ==
    /\ Grown(b, c)
    /\ c.processed = b.processed + Len(bs)
    /\ At(c, b.processed, bs)

\* A writer that finds room puts its bytes behind the others.
LEMMA PackPuts ==
    ASSUME NEW b \in Buf, NEW bs \in Seq(Byte),
           b.processed + Len(bs) <= Len(b.head)
    PROVE  Packed(b, Pack(b, bs), bs)
  <1> DEFINE n == b.processed  s == b.head  m == Len(bs)
             f == [k \in DOMAIN s |-> IF k - n \in DOMAIN bs THEN bs[k - n] ELSE s[k]]
  <1>1. n \in Nat /\ s \in Seq(Byte) /\ m \in Nat /\ Len(s) \in Nat
    BY DEF Buf
  <1>2. DOMAIN s = 1 .. Len(s) /\ DOMAIN bs = 1 .. m
    BY <1>1
  <1>3. \A k \in 1 .. Len(s) : f[k] \in Byte
    <2>1. \A k \in 1 .. Len(s) : s[k] \in Byte
      BY <1>1
    <2>2. \A k \in 1 .. m : bs[k] \in Byte
      OBVIOUS
    <2> QED  BY <1>2, <2>1, <2>2
  <1>4. Pack(b, bs) = [head |-> f, processed |-> n + m]
    <2>1. ~(Len(s) - n < m)
      BY <1>1
    <2> QED  BY <2>1 DEF Pack, remaining_buf
  <1>5. f \in [1 .. Len(s) -> Byte]
    BY <1>2, <1>3
  <1>6. f \in Seq(Byte) /\ Len(f) = Len(s)
    <2> HIDE DEF f
    <2>1. f \in Seq(Byte)
      <3> DEFINE k == Len(s)
      <3>1. k \in Nat /\ f \in [1 .. k -> Byte]
        BY <1>1, <1>5
      <3> HIDE DEF k
      <3> QED  BY <3>1
    <2>2. 1 .. Len(f) = 1 .. Len(s) /\ Len(f) \in Nat
      BY <1>5, <2>1, LenProperties
    <2> QED  BY <1>1, <2>1, <2>2
  <1>7. \A k \in 1 .. n : f[k] = s[k]
    BY <1>1, <1>2
  <1>8. \A k \in 1 .. m : f[n + k] = bs[k]
    BY <1>1, <1>2
  <1> HIDE DEF f
  <1> QED  BY <1>1, <1>4, <1>6, <1>7, <1>8 DEF Packed, Grown, At, Buf

\* What was in the buffer stays where it is.
LEMMA AtKept ==
    ASSUME NEW n \in Nat, NEW bs \in Seq(Byte), NEW b \in Buf, NEW c,
           At(b, n, bs), n + Len(bs) <= b.processed, Grown(b, c)
    PROVE  At(c, n, bs)
  BY DEF At, Grown, Buf

\* And it stays there as long as the buffer grows.
LEMMA GrownTwice ==
    ASSUME NEW b \in Buf, NEW c, NEW d, Grown(b, c), Grown(c, d)
    PROVE  Grown(b, d)
  BY DEF Grown, Buf

\* A reader that finds its bytes takes them, and goes on behind them.
LEMMA AheadReads ==
    ASSUME NEW m \in Nat \ {0}, NEW b \in Buf, NEW bs \in Seq(Byte), Len(bs) = m,
           b.processed + m <= Len(b.head), At(b, b.processed, bs)
    PROVE  /\ Ahead(b, m) = bs /\ bs # <<>>
           /\ Skip(b, m) = [head |-> b.head, processed |-> b.processed + m]
  <1> DEFINE n == b.processed  s == b.head  u == SubSeq(s, n + 1, n + m)
  <1>1. n \in Nat /\ s \in Seq(Byte) /\ m \in Nat /\ Len(s) \in Nat
    BY DEF Buf
  <1>2. Ahead(b, m) = u
    <2>1. ~(Len(s) - n < m)
      BY <1>1
    <2> QED  BY <2>1 DEF Ahead, remaining_buf
  <1>3. u \in Seq(Byte) /\ Len(u) = m /\ \A k \in 1 .. m : u[k] = s[n + k]
    <2>1. n + m <= Len(s)
      OBVIOUS
    <2> HIDE DEF n, s
    <2>2. \A k \in n + 1 .. n + m : s[k] \in Byte
      BY <1>1, <2>1
    <2>3. /\ SubSeq(s, n + 1, n + m) \in Seq(Byte)
          /\ Len(SubSeq(s, n + 1, n + m)) =
                IF n + 1 <= n + m THEN n + m - (n + 1) + 1 ELSE 0
          /\ \A k \in 1 .. n + m - (n + 1) + 1 :
                SubSeq(s, n + 1, n + m)[k] = s[n + 1 + k - 1]
      BY <1>1, <2>2, SubSeqProperties
    <2>4. \A k \in 1 .. m : n + 1 + k - 1 = n + k
      BY <1>1
    <2>5. n + m - (n + 1) + 1 = m
      BY <1>1
    <2> QED  BY <1>1, <2>3, <2>4, <2>5
  <1>4. \A k \in 1 .. m : u[k] = bs[k]
    BY <1>3 DEF At
  <1>5. u = bs
    BY <1>3, <1>4, SeqEqual
  <1>6. b = [head |-> s, processed |-> n]
    BY DEF Buf
  <1>8. bs # <<>>
    OBVIOUS
  <1> HIDE DEF n, s, u
  <1>7. Skip(b, m) = [head |-> s, processed |-> n + m]
    BY <1>2, <1>5, <1>6 DEF Skip
  <1> QED  BY <1>2, <1>5, <1>7, <1>8 DEF n, s

\* The bytes of an integer fill two or four places.
LEMMA BytesFit ==
    /\ \A h \in Numbers : Bytes16(h) \in Seq(Byte) /\ Len(Bytes16(h)) = 2
    /\ \A h \in Halves : Bytes32(h) \in Seq(Byte) /\ Len(Bytes32(h)) = 4
  <1>1. ASSUME NEW h \in Numbers  PROVE Bytes16(h) \in Seq(Byte) /\ Len(Bytes16(h)) = 2
    <2>1. PICK x \in Byte, y \in Byte : Bytes16(h) = <<x, y>>
      BY Bytes16Value
    <2> QED  BY <2>1
  <1>2. ASSUME NEW h \in Halves  PROVE Bytes32(h) \in Seq(Byte) /\ Len(Bytes32(h)) = 4
    <2>1. PICK a, b, c, d \in Byte : Bytes32(h) = <<a, b, c, d>>
      BY Bytes32Value
    <2> QED  BY <2>1
  <1> QED  BY <1>1, <1>2

\* What stands in 16 bits is read, into whatever was there.
LEMMA Reads16 ==
    ASSUME NEW b \in Buf, NEW h \in Numbers, b.processed + 2 <= Len(b.head),
           At(b, b.processed, Bytes16(h))
    PROVE  /\ \A old : unpack16(b, old) = h
           /\ Skip(b, 2) = [head |-> b.head, processed |-> b.processed + 2]
  <1> DEFINE bs == Bytes16(h)  m == 2
  <1>1. bs \in Seq(Byte) /\ Len(bs) = 2 /\ Value16(bs) = h
    BY BytesFit, Bytes16Value
  <1>2. At(b, b.processed, bs) /\ m \in Nat \ {0} /\ Len(bs) = m
        /\ b.processed + m <= Len(b.head)
    BY <1>1
  <1> HIDE DEF bs, m
  <1>3. Ahead(b, m) = bs /\ bs # <<>>
        /\ Skip(b, m) = [head |-> b.head, processed |-> b.processed + m]
    BY <1>1, <1>2, AheadReads
  <1> QED  BY <1>1, <1>3 DEF unpack16, m

\* And so is what stands in 32.
LEMMA Reads32 ==
    ASSUME NEW b \in Buf, NEW h \in Halves, b.processed + 4 <= Len(b.head),
           At(b, b.processed, Bytes32(h))
    PROVE  /\ \A old : unpack32(b, old) = h
           /\ Skip(b, 4) = [head |-> b.head, processed |-> b.processed + 4]
  <1> DEFINE bs == Bytes32(h)  m == 4
  <1>1. bs \in Seq(Byte) /\ Len(bs) = 4 /\ Value32(bs) = h
    BY BytesFit, Bytes32Value
  <1>2. At(b, b.processed, bs) /\ m \in Nat \ {0} /\ Len(bs) = m
        /\ b.processed + m <= Len(b.head)
    BY <1>1
  <1> HIDE DEF bs, m
  <1>3. Ahead(b, m) = bs /\ bs # <<>>
        /\ Skip(b, m) = [head |-> b.head, processed |-> b.processed + m]
    BY <1>1, <1>2, AheadReads
  <1> QED  BY <1>1, <1>3 DEF unpack32, m

-----------------------------------------------------------------------------
(* Times *)

\* The bytes of a time are those of its halves, and are recalled as they were.
LEMMA MemoryRecalled ==
    ASSUME NEW u \in Halves, NEW v \in Halves
    PROVE  /\ Memory(<<u, v>>) \in Seq(Byte) /\ Len(Memory(<<u, v>>)) = 8
           /\ Recall(Memory(<<u, v>>)) = <<u, v>>
  <1>1. PICK a, b, c, d \in Byte : Bytes32(u) = <<a, b, c, d>> /\ Value32(<<a, b, c, d>>) = u
    BY Bytes32Value
  <1>2. PICK e, f, g, h \in Byte : Bytes32(v) = <<e, f, g, h>> /\ Value32(<<e, f, g, h>>) = v
    BY Bytes32Value
  <1> DEFINE s == <<h, g, f, e>>  t == <<d, c, b, a>>  w == s \o t
  <1>3. Memory(<<u, v>>) = w
    <2>1. Memory(<<u, v>>) = Reverse(Bytes32(v)) \o Reverse(Bytes32(u))
      BY DEF Memory
    <2>2. Reverse(Bytes32(v)) = s /\ Reverse(Bytes32(u)) = t
      BY <1>1, <1>2, ReverseFour
    <2> QED  BY <2>1, <2>2
  <1>4. s \in Seq(Byte) /\ t \in Seq(Byte) /\ Len(s) = 4 /\ Len(t) = 4
    OBVIOUS
  <1>5. Reverse(s) = <<e, f, g, h>> /\ Reverse(t) = <<a, b, c, d>>
    BY ReverseFour
  <1> HIDE DEF s, t
  <1>6. w \in Seq(Byte) /\ Len(w) = 8
    <2>1. w \in Seq(Byte) /\ Len(w) = Len(s) + Len(t)
      BY <1>4, ConcatProperties
    <2> HIDE DEF w
    <2> QED  BY <1>4, <2>1
  <1>7. SubSeq(w, 1, 4) = s /\ SubSeq(w, 5, 8) = t
    <2>1. SubSeq(w, 1, 4) = SubSeq(s, 1, 4)
      <3> DEFINE m == 1  n == 4
      <3>1. m \in 1 .. Len(s) /\ n \in 1 .. Len(s)
        BY <1>4
      <3> HIDE DEF m, n
      <3>2. SubSeq(w, m, n) = SubSeq(s, m, n)
        BY <1>4, <3>1, SubSeqOfConcat1
      <3> QED  BY <3>2 DEF m, n
    <2>3. SubSeq(w, 5, 8) = SubSeq(t, 1, 4)
      <3> DEFINE m == 5  n == 8
      <3>1. m \in Len(s) + 1 .. Len(s) + Len(t) /\ n \in Len(s) + 1 .. Len(s) + Len(t)
        BY <1>4
      <3>2. m - Len(s) = 1 /\ n - Len(s) = 4
        BY <1>4
      <3> HIDE DEF m, n
      <3>3. SubSeq(w, m, n) = SubSeq(t, m - Len(s), n - Len(s))
        <4>1. s \in Seq(Byte) /\ t \in Seq(Byte)
          BY <1>4
        <4> QED  BY <3>1, <4>1, SubSeqOfConcat2
      <3>4. SubSeq(w, m, n) = SubSeq(t, 1, 4)
        BY <3>2, <3>3
      <3> QED  BY <3>4 DEF m, n
    <2>5. SubSeq(s, 1, 4) = s /\ SubSeq(t, 1, 4) = t
      BY <1>4, SubSeqFull
    <2> HIDE DEF w
    <2> QED  BY <2>1, <2>3, <2>5
  <1>8. Recall(w) = <<u, v>>
    BY <1>1, <1>2, <1>5, <1>7 DEF Recall
  <1> QED  BY <1>3, <1>6, <1>8

\* The bytes that stand for a time of 32 bits.
TimeBytes(t) == Memory(hton_int64(<<0, t>>))

\* Of a time that is sent, the lower half arrives, and its sign in the upper one.
LEMMA TimeArrives ==
    ASSUME NEW t \in Halves
    PROVE  /\ TimeBytes(t) \in Seq(Byte) /\ Len(TimeBytes(t)) = 8
           /\ ntoh_int64(Recall(TimeBytes(t))) = <<IF Negative(t) THEN Half - 1 ELSE 0, t>>
  <1> DEFINE val == <<Swap(t), 0>>
  <1>1. Swap(t) \in Halves /\ Swap(Swap(t)) = t
    BY SwapTwice
  <1>2. hton_int64(<<0, t>>) = val
    BY SwapZero DEF hton_int64, Join
  <1>3. Recall(Memory(val)) = val /\ Memory(val) \in Seq(Byte) /\ Len(Memory(val)) = 8
    BY <1>1, SwapZero, MemoryRecalled
  <1>4. ntoh_int64(val) = <<IF Negative(t) THEN Half - 1 ELSE 0, t>>
    BY <1>1, SwapZero DEF ntoh_int64, Join
  <1> QED  BY <1>2, <1>3, <1>4 DEF TimeBytes

-----------------------------------------------------------------------------
(* Messages *)

\* The fields of a message are numbers of their width.
LEMMA FieldTypes ==
    ASSUME NEW m \in Message
    PROVE  /\ m.type \in Numbers /\ m.type \in Types
           /\ m.addr = [family |-> m.addr.family, port |-> m.addr.port, addr |-> m.addr.addr]
           /\ m.addr.family \in Numbers /\ m.addr.port \in Numbers /\ m.addr.addr \in Halves
           /\ m.field \in Numbers
           /\ m.type = MCAST_CONTROLLER_INFO =>
                 m.ts[2] \in Halves /\ m.ts = <<0, m.ts[2]>>
           /\ m.type # MCAST_CONTROLLER_INFO => m.ts = NoTime
  <1>1. m.addr \in Addr /\ m.field \in Values /\ m.type \in Types
    BY DEF Message, Types, MCAST_CONTROLLER_INFO
  <1>2. Values \subseteq Numbers
    BY MessagesAssumption DEF Numbers
  <1>3. Types \subseteq Numbers /\ 2 \in Numbers
    BY Sizes DEF Types, Numbers
  <1>4. {0, Half - 1} \subseteq Halves
    BY Sizes DEF Halves
  <1>5. m.type = MCAST_CONTROLLER_INFO => m.ts \in {0} \X Halves
    BY DEF Message
  <1>6. m.type # MCAST_CONTROLLER_INFO => m.ts = NoTime
    BY DEF Message
  <1> QED  BY <1>1, <1>2, <1>3, <1>4, <1>5, <1>6 DEF Addr

\* Where the fields of m are in a buffer, with the size of sin_zero before it.
Layout(b, m) ==
    /\ At(b, 0, Bytes16(m.type))
    /\ At(b, 2, Bytes16(m.addr.family))
    /\ At(b, 4, Bytes16(m.addr.port))
    /\ At(b, 6, Bytes32(m.addr.addr))
    /\ At(b, 10, Bytes32(8))
    /\ At(b, 14, Zeros)
    /\ At(b, 22, Bytes16(m.field))
    /\ m.type = MCAST_CONTROLLER_INFO => At(b, 24, TimeBytes(m.ts[2]))

\* The bytes that unpack_msg reads.
Size(m) == IF m.type = MCAST_CONTROLLER_INFO THEN 32 ELSE 24

\* n bytes of the buffer that a sender packs into are filled.
Filled(b, n) == b \in Buf /\ Len(b.head) = BufSize /\ b.processed = n

\* The next field is put behind them.
LEMMA PackNext ==
    ASSUME NEW n \in Nat, NEW p \in Nat, NEW bs \in Seq(Byte), NEW b, NEW c,
           Filled(b, n), Len(bs) = p - n, p <= BufSize, c = Pack(b, bs)
    PROVE  Filled(c, p) /\ Grown(b, c) /\ At(c, n, bs)
  <1>1. b \in Buf /\ b.processed + Len(bs) <= Len(b.head)
    BY DEF Filled
  <1>2. Packed(b, c, bs)
    BY <1>1, PackPuts
  <1> QED  BY <1>2, <1>1 DEF Packed, Grown, Filled

\* And stays there.
LEMMA FieldKept ==
    ASSUME NEW n \in Nat, NEW p \in Nat, NEW bs \in Seq(Byte), NEW b, NEW c,
           Filled(b, p), Len(bs) = p - n, At(b, n, bs), Grown(b, c)
    PROVE  At(c, n, bs)
  <1>1. b \in Buf /\ n + Len(bs) <= b.processed
    BY DEF Filled
  <1> QED  BY <1>1, AtKept

\* pack_msg puts every field in its place.
LEMMA PackMsgLayout ==
    ASSUME NEW m \in Message
    PROVE  LET b == pack_msg(m, init_buf)
           IN /\ b \in Buf /\ Len(b.head) = BufSize
              /\ Size(m) <= b.processed /\ b.processed <= BufSize
              /\ Layout(b, m)
  <1> DEFINE f1 == Bytes16(m.type)
             f2 == Bytes16(m.addr.family)
             f3 == Bytes16(m.addr.port)
             f4 == Bytes32(m.addr.addr)
             f5 == Bytes32(8)
             f7 == Bytes16(m.field)
             f8 == TimeBytes(m.ts[2])
             f9 == Bytes32(0)
             o1 == 0  o2 == 2  o3 == 4  o4 == 6  o5 == 10  o6 == 14  o7 == 22  o8 == 24  o9 == 32
             b0 == init_buf
             b1 == Pack(b0, f1)
             b2 == Pack(b1, f2)
             b3 == Pack(b2, f3)
             b4 == Pack(b3, f4)
             b5 == Pack(b4, f5)
             b6 == Pack(b5, Zeros)
             b7 == Pack(b6, f7)
             b8 == IF m.type = MCAST_CONTROLLER_INFO THEN Pack(b7, f8) ELSE b7
             b9 == Pack(b8, f9)
  <1>1. BufSize \in Nat /\ BufSize >= 36 /\ 0 \in Byte /\ 0 \in Halves /\ 8 \in Halves
    BY MessagesAssumption, Sizes DEF Byte, Halves
  <1>2. f1 \in Seq(Byte) /\ Len(f1) = 2
    BY FieldTypes, BytesFit
  <1>3. f2 \in Seq(Byte) /\ Len(f2) = 2
    BY FieldTypes, BytesFit
  <1>4. f3 \in Seq(Byte) /\ Len(f3) = 2
    BY FieldTypes, BytesFit
  <1>5. f4 \in Seq(Byte) /\ Len(f4) = 4
    BY FieldTypes, BytesFit
  <1>6. f5 \in Seq(Byte) /\ Len(f5) = 4
    BY <1>1, BytesFit
  <1>7. Zeros \in Seq(Byte) /\ Len(Zeros) = 8
    BY <1>1 DEF Zeros
  <1>8. f7 \in Seq(Byte) /\ Len(f7) = 2
    BY FieldTypes, BytesFit
  <1>9. m.type = MCAST_CONTROLLER_INFO =>
           f8 \in Seq(Byte) /\ Len(f8) = 8 /\ pack_time(m.ts, b7) = b8
    <2> SUFFICES ASSUME m.type = MCAST_CONTROLLER_INFO
                 PROVE  f8 \in Seq(Byte) /\ Len(f8) = 8 /\ pack_time(m.ts, b7) = b8
      OBVIOUS
    <2>1. m.ts[2] \in Halves /\ m.ts = <<0, m.ts[2]>>
      BY FieldTypes
    <2>2. f8 = Memory(hton_int64(m.ts))
      BY <2>1 DEF TimeBytes
    <2> HIDE DEF b7
    <2>3. pack_time(m.ts, b7) = b8
      BY <2>2 DEF pack_time
    <2> QED  BY <2>1, <2>3, TimeArrives
  <1>10. f9 \in Seq(Byte) /\ Len(f9) = 4
    BY <1>1, BytesFit
  <1>11. Filled(b0, o1)
    BY <1>1 DEF init_buf, Filled, Buf
  <1>12. pack_msg(m, init_buf) =
            pack32(0, IF m.type = MCAST_CONTROLLER_INFO
                      THEN pack_time(m.ts, pack16(m.field, packmem(b4)))
                      ELSE pack16(m.field, packmem(b4)))
    BY DEF pack_msg, pack_sockaddr, pack16, pack32
  <1>13. pack32(8, b4) = b5 /\ (\A b : pack16(m.field, b) = Pack(b, f7))
         /\ pack32(0, b8) = b9
    BY DEF pack16, pack32
  <1>o. /\ o1 \in Nat /\ o2 \in Nat /\ o3 \in Nat /\ o4 \in Nat /\ o5 \in Nat
        /\ o6 \in Nat /\ o7 \in Nat /\ o8 \in Nat /\ o9 \in Nat
        /\ o9 <= BufSize /\ o8 <= BufSize /\ o7 <= BufSize /\ o6 <= BufSize
        /\ o5 <= BufSize /\ o4 <= BufSize /\ o3 <= BufSize /\ o2 <= BufSize
    BY <1>1
  <1>l. /\ Len(f1) = o2 - o1 /\ Len(f2) = o3 - o2 /\ Len(f3) = o4 - o3 /\ Len(f4) = o5 - o4
        /\ Len(f5) = o6 - o5 /\ Len(Zeros) = o7 - o6 /\ Len(f7) = o8 - o7
        /\ m.type = MCAST_CONTROLLER_INFO => Len(f8) = o9 - o8
    <2> HIDE DEF f1, f2, f3, f4, f5, f7, f8, b7, b8
    <2> QED  BY <1>2, <1>3, <1>4, <1>5, <1>6, <1>7, <1>8, <1>9
  <1> HIDE DEF b0, f1, f2, f3, f4, f5, f7, f8, f9
  <1> HIDE DEF o1, o2, o3, o4, o5, o6, o7, o8, o9
  <1>14. Filled(b1, o2) /\ Grown(b0, b1) /\ At(b1, o1, f1)
    <2>1. /\ o1 \in Nat /\ o2 \in Nat /\ o2 <= BufSize
          /\ Len(f1) = o2 - o1
      BY <1>o, <1>l
    <2>2. f1 \in Seq(Byte) /\ Filled(b0, o1)
      BY <1>2, <1>11
    <2>3. b1 = Pack(b0, f1)
      OBVIOUS
    <2> HIDE DEF b1
    <2> QED  BY <2>1, <2>2, <2>3, PackNext
  <1> HIDE DEF b1
  <1>15. Filled(b2, o3) /\ Grown(b1, b2) /\ At(b2, o2, f2)
    <2>1. /\ o2 \in Nat /\ o3 \in Nat /\ o3 <= BufSize
          /\ Len(f2) = o3 - o2
      BY <1>o, <1>l
    <2>2. f2 \in Seq(Byte) /\ Filled(b1, o2)
      BY <1>3, <1>14
    <2>3. b2 = Pack(b1, f2)
      OBVIOUS
    <2> HIDE DEF b2
    <2> QED  BY <2>1, <2>2, <2>3, PackNext
  <1> HIDE DEF b2
  <1>16. Filled(b3, o4) /\ Grown(b2, b3) /\ At(b3, o3, f3)
    <2>1. /\ o3 \in Nat /\ o4 \in Nat /\ o4 <= BufSize
          /\ Len(f3) = o4 - o3
      BY <1>o, <1>l
    <2>2. f3 \in Seq(Byte) /\ Filled(b2, o3)
      BY <1>4, <1>15
    <2>3. b3 = Pack(b2, f3)
      OBVIOUS
    <2> HIDE DEF b3
    <2> QED  BY <2>1, <2>2, <2>3, PackNext
  <1> HIDE DEF b3
  <1>17. Filled(b4, o5) /\ Grown(b3, b4) /\ At(b4, o4, f4)
    <2>1. /\ o4 \in Nat /\ o5 \in Nat /\ o5 <= BufSize
          /\ Len(f4) = o5 - o4
      BY <1>o, <1>l
    <2>2. f4 \in Seq(Byte) /\ Filled(b3, o4)
      BY <1>5, <1>16
    <2>3. b4 = Pack(b3, f4)
      OBVIOUS
    <2> HIDE DEF b4
    <2> QED  BY <2>1, <2>2, <2>3, PackNext
  <1> HIDE DEF b4
  <1>18. Filled(b5, o6) /\ Grown(b4, b5) /\ At(b5, o5, f5)
    <2>1. /\ o5 \in Nat /\ o6 \in Nat /\ o6 <= BufSize
          /\ Len(f5) = o6 - o5
      BY <1>o, <1>l
    <2>2. f5 \in Seq(Byte) /\ Filled(b4, o5)
      BY <1>6, <1>17
    <2>3. b5 = Pack(b4, f5)
      OBVIOUS
    <2> HIDE DEF b5
    <2> QED  BY <2>1, <2>2, <2>3, PackNext
  <1>19. packmem(b4) = b6
    <2>1. b4 \in Buf /\ Len(b4.head) - b4.processed >= 12
      BY <1>1, <1>17 DEF Filled, o5
    <2> QED  BY <1>13, <2>1 DEF packmem, remaining_buf, Buf
  <1> HIDE DEF b5
  <1>20. Filled(b6, o7) /\ Grown(b5, b6) /\ At(b6, o6, Zeros)
    <2>1. /\ o6 \in Nat /\ o7 \in Nat /\ o7 <= BufSize
          /\ Len(Zeros) = o7 - o6
      BY <1>o, <1>l
    <2>2. Zeros \in Seq(Byte) /\ Filled(b5, o6)
      BY <1>7, <1>18
    <2>3. b6 = Pack(b5, Zeros)
      OBVIOUS
    <2> HIDE DEF b6
    <2> QED  BY <2>1, <2>2, <2>3, PackNext
  <1> HIDE DEF b6
  <1>21. Filled(b7, o8) /\ Grown(b6, b7) /\ At(b7, o7, f7)
    <2>1. /\ o7 \in Nat /\ o8 \in Nat /\ o8 <= BufSize
          /\ Len(f7) = o8 - o7
      BY <1>o, <1>l
    <2>2. f7 \in Seq(Byte) /\ Filled(b6, o7)
      BY <1>8, <1>20
    <2>3. b7 = Pack(b6, f7)
      OBVIOUS
    <2> HIDE DEF b7
    <2> QED  BY <2>1, <2>2, <2>3, PackNext
  <1>22. pack_msg(m, init_buf) = b9
    BY <1>9, <1>12, <1>13, <1>19
  <1> HIDE DEF b7
  <1>23. /\ Filled(b8, Size(m)) /\ Grown(b7, b8)
         /\ m.type = MCAST_CONTROLLER_INFO => At(b8, o8, f8)
    <2>1. CASE m.type = MCAST_CONTROLLER_INFO
      <3>1. Size(m) = o9 /\ b8 = Pack(b7, f8)
        BY <2>1 DEF Size, o9
      <3> HIDE DEF b8
      <3>2. Filled(b8, o9) /\ Grown(b7, b8) /\ At(b8, o8, f8)
        <4>1. /\ o8 \in Nat /\ o9 \in Nat /\ o9 <= BufSize /\ Len(f8) = o9 - o8
              /\ f8 \in Seq(Byte) /\ Filled(b7, o8) /\ b8 = Pack(b7, f8)
          BY <2>1, <3>1, <1>1, <1>9, <1>21, <1>o, <1>l
        <4> QED  BY <4>1, PackNext
      <3> QED  BY <3>1, <3>2
    <2>2. CASE m.type # MCAST_CONTROLLER_INFO
      <3>1. Size(m) = o8 /\ b8 = b7
        BY <2>2 DEF Size, o8
      <3>2. Grown(b7, b7)
        BY <1>21 DEF Grown, Filled, Buf
      <3> QED  BY <2>2, <3>1, <3>2, <1>21
    <2> QED  BY <2>1, <2>2
  <1> HIDE DEF b8
  <1> DEFINE end == Size(m) + 4
  <1>24. /\ Size(m) \in Nat /\ end \in Nat /\ end <= BufSize /\ end - Size(m) = 4
         /\ Size(m) <= end
    BY <1>1 DEF Size
  <1> HIDE DEF end
  <1>25. Filled(b9, end) /\ Grown(b8, b9)
    BY <1>1, <1>10, <1>23, <1>24, PackNext
  <1> HIDE DEF b9
  <1>26. Grown(b7, b9)
    BY <1>21, <1>23, <1>25, GrownTwice DEF Filled
  <1>27. Grown(b6, b9)
    BY <1>20, <1>21, <1>26, GrownTwice DEF Filled
  <1>28. Grown(b5, b9)
    BY <1>18, <1>20, <1>27, GrownTwice DEF Filled
  <1>29. Grown(b4, b9)
    BY <1>17, <1>18, <1>28, GrownTwice DEF Filled
  <1>30. Grown(b3, b9)
    BY <1>16, <1>17, <1>29, GrownTwice DEF Filled
  <1>31. Grown(b2, b9)
    BY <1>15, <1>16, <1>30, GrownTwice DEF Filled
  <1>32. Grown(b1, b9)
    BY <1>14, <1>15, <1>31, GrownTwice DEF Filled
  <1>33. At(b9, o1, f1)
    BY <1>2, <1>14, <1>32, FieldKept, <1>o, <1>l
  <1>34. At(b9, o2, f2)
    BY <1>3, <1>15, <1>31, FieldKept, <1>o, <1>l
  <1>35. At(b9, o3, f3)
    BY <1>4, <1>16, <1>30, FieldKept, <1>o, <1>l
  <1>36. At(b9, o4, f4)
    BY <1>5, <1>17, <1>29, FieldKept, <1>o, <1>l
  <1>37. At(b9, o5, f5)
    BY <1>6, <1>18, <1>28, FieldKept, <1>o, <1>l
  <1>38. At(b9, o6, Zeros)
    BY <1>7, <1>20, <1>27, FieldKept, <1>o, <1>l
  <1>39. At(b9, o7, f7)
    BY <1>8, <1>21, <1>26, FieldKept, <1>o, <1>l
  <1>40. m.type = MCAST_CONTROLLER_INFO => At(b9, o8, f8)
    <2> SUFFICES ASSUME m.type = MCAST_CONTROLLER_INFO  PROVE At(b9, o8, f8)
      OBVIOUS
    <2>1. Filled(b8, o9) /\ At(b8, o8, f8)
      BY <1>23 DEF Size, o9
    <2> QED  BY <1>9, <1>25, <2>1, FieldKept, <1>o, <1>l
  <1>41. Layout(b9, m)
    BY <1>33, <1>34, <1>35, <1>36, <1>37, <1>38, <1>39, <1>40
       DEF Layout, o1, o2, o3, o4, o5, o6, o7, o8, f1, f2, f3, f4, f5, f7, f8
  <1>42. b9 \in Buf /\ Len(b9.head) = BufSize /\ Size(m) <= b9.processed
         /\ b9.processed <= BufSize
    BY <1>1, <1>24, <1>25 DEF Filled
  <1> QED  BY <1>22, <1>41, <1>42

\* unpack_msg finds every field, whatever the structure held before.
LEMMA UnpackMsgReads ==
    ASSUME NEW m \in Message, NEW b \in Buf, NEW g,
           b.processed = 0, Size(m) <= Len(b.head), Layout(b, m)
    PROVE  LET u == unpack_msg(g, b)
           IN /\ u.type = m.type /\ u.addr = m.addr /\ u.field = m.field
              /\ u.ts = IF m.type # MCAST_CONTROLLER_INFO THEN NoTime
                        ELSE <<IF Negative(m.ts[2]) THEN Half - 1 ELSE 0, m.ts[2]>>
  <1> DEFINE R(n) == [head |-> b.head, processed |-> n]
             r1 == R(2)  r2 == R(4)  r3 == R(6)  r4 == R(10)
             r5 == R(14)  r6 == R(22)  r7 == R(24)
  <1>1. /\ Len(b.head) \in Nat /\ Len(b.head) >= 24
        /\ m.type = MCAST_CONTROLLER_INFO => Len(b.head) >= 32
    BY DEF Size, Buf
  <1>2. 8 \in Halves /\ Bytes32(8) \in Seq(Byte) /\ Zeros \in Seq(Byte) /\ Len(Zeros) = 8
    BY BytesFit, Sizes DEF Halves, Zeros, Byte
  <1>3. unpack16(b, g.type) = m.type /\ Skip(b, 2) = r1
    <2>1. At(b, b.processed, Bytes16(m.type)) /\ b.processed + 2 <= Len(b.head)
      BY <1>1 DEF Layout
    <2>2. m.type \in Numbers
      BY FieldTypes
    <2>3. /\ \A old : unpack16(b, old) = m.type
          /\ Skip(b, 2) = [head |-> b.head, processed |-> b.processed + 2]
      BY <2>1, <2>2, Reads16
    <2> QED  BY <2>3
  <1>4. unpack16(r1, g.addr.family) = m.addr.family /\ Skip(r1, 2) = r2
    <2>1. r1 \in Buf /\ r1.head = b.head /\ r1.processed = 2
      BY DEF Buf
    <2>2. At(r1, r1.processed, Bytes16(m.addr.family)) /\ r1.processed + 2 <= Len(r1.head)
      BY <1>1 DEF Layout, At
    <2> HIDE DEF r1
    <2>3. Skip(r1, 2) = [head |-> r1.head, processed |-> r1.processed + 2]
      BY <2>1, <2>2, Reads16, FieldTypes
    <2>4. m.addr.family \in Numbers
      BY FieldTypes
    <2>5. \A old : unpack16(r1, old) = m.addr.family
      BY <2>1, <2>2, <2>4, Reads16
    <2> QED  BY <2>1, <2>3, <2>5
  <1>5. unpack16(r2, g.addr.port) = m.addr.port /\ Skip(r2, 2) = r3
    <2>1. r2 \in Buf /\ r2.head = b.head /\ r2.processed = 4
      BY DEF Buf
    <2>2. At(r2, r2.processed, Bytes16(m.addr.port)) /\ r2.processed + 2 <= Len(r2.head)
      BY <1>1 DEF Layout, At
    <2> HIDE DEF r2
    <2>3. Skip(r2, 2) = [head |-> r2.head, processed |-> r2.processed + 2]
      BY <2>1, <2>2, Reads16, FieldTypes
    <2>4. m.addr.port \in Numbers
      BY FieldTypes
    <2>5. \A old : unpack16(r2, old) = m.addr.port
      BY <2>1, <2>2, <2>4, Reads16
    <2> QED  BY <2>1, <2>3, <2>5
  <1>6. unpack32(r3, g.addr.addr) = m.addr.addr /\ Skip(r3, 4) = r4
    <2>1. r3 \in Buf /\ r3.head = b.head /\ r3.processed = 6
      BY DEF Buf
    <2>2. At(r3, r3.processed, Bytes32(m.addr.addr)) /\ r3.processed + 4 <= Len(r3.head)
      BY <1>1 DEF Layout, At
    <2> HIDE DEF r3
    <2>3. Skip(r3, 4) = [head |-> r3.head, processed |-> r3.processed + 4]
      BY <2>1, <2>2, Reads32, FieldTypes
    <2>4. m.addr.addr \in Halves
      BY FieldTypes
    <2>5. \A old : unpack32(r3, old) = m.addr.addr
      BY <2>1, <2>2, <2>4, Reads32
    <2> QED  BY <2>1, <2>3, <2>5
  <1>7. unpack32(r4, 0) = 8 /\ Skip(r4, 4) = r5
    <2>1. r4 \in Buf /\ r4.head = b.head /\ r4.processed = 10
      BY DEF Buf
    <2> DEFINE size == 8
    <2>2. At(r4, r4.processed, Bytes32(size)) /\ r4.processed + 4 <= Len(r4.head)
          /\ size \in Halves
      BY <1>1, <1>2 DEF Layout, At
    <2> HIDE DEF r4, size
    <2>3. Skip(r4, 4) = [head |-> r4.head, processed |-> r4.processed + 4]
      BY <2>1, <2>2, Reads32
    <2>4. unpack32(r4, 0) = size
      BY <2>1, <2>2, Reads32
    <2> QED  BY <2>1, <2>3, <2>4 DEF size
  <1>8. Skip(r5, 8) = r6
    <2>1. r5 \in Buf /\ r5.head = b.head /\ r5.processed = 14
      BY DEF Buf
    <2> DEFINE size == 8
    <2>2. At(r5, r5.processed, Zeros) /\ r5.processed + size <= Len(r5.head)
          /\ size \in Nat \ {0} /\ Len(Zeros) = size
      BY <1>1, <1>2 DEF Layout, At
    <2> HIDE DEF r5, size
    <2>3. Skip(r5, size) = [head |-> r5.head, processed |-> r5.processed + size]
      BY <2>1, <2>2, <1>2, AheadReads
    <2> QED  BY <2>1, <2>3 DEF size
  <1>9. unpack16(r6, 0) = m.field /\ Skip(r6, 2) = r7
    <2>1. r6 \in Buf /\ r6.head = b.head /\ r6.processed = 22
      BY DEF Buf
    <2>2. At(r6, r6.processed, Bytes16(m.field)) /\ r6.processed + 2 <= Len(r6.head)
      BY <1>1 DEF Layout, At
    <2> HIDE DEF r6
    <2>3. Skip(r6, 2) = [head |-> r6.head, processed |-> r6.processed + 2]
      BY <2>1, <2>2, Reads16, FieldTypes
    <2>4. unpack16(r6, 0) = m.field
      BY <2>1, <2>2, Reads16, FieldTypes
    <2> QED  BY <2>1, <2>3, <2>4
  <1>10. m.type = MCAST_CONTROLLER_INFO =>
            unpack_time(r7, NoTime) = <<IF Negative(m.ts[2]) THEN Half - 1 ELSE 0, m.ts[2]>>
    <2> SUFFICES ASSUME m.type = MCAST_CONTROLLER_INFO
                 PROVE  unpack_time(r7, NoTime) =
                          <<IF Negative(m.ts[2]) THEN Half - 1 ELSE 0, m.ts[2]>>
      OBVIOUS
    <2> DEFINE bs == TimeBytes(m.ts[2])  size == 8
    <2>1. bs \in Seq(Byte) /\ Len(bs) = size
          /\ ntoh_int64(Recall(bs)) = <<IF Negative(m.ts[2]) THEN Half - 1 ELSE 0, m.ts[2]>>
      BY FieldTypes, TimeArrives
    <2>2. r7 \in Buf /\ r7.head = b.head /\ r7.processed = 24
      BY DEF Buf
    <2>3. At(r7, r7.processed, bs) /\ r7.processed + size <= Len(r7.head) /\ size \in Nat \ {0}
      BY <1>1 DEF Layout, At
    <2> HIDE DEF r7, bs, size
    <2>4. Ahead(r7, size) = bs /\ bs # <<>>
      BY <2>1, <2>2, <2>3, AheadReads
    <2> QED  BY <2>1, <2>4 DEF unpack_time, size
  <1> HIDE DEF r1, r2, r3, r4, r5, r6, r7
  <1>11. UnpackSockaddr(r1, g.addr) =
           [value |-> [family |-> m.addr.family, port |-> m.addr.port, addr |-> m.addr.addr],
            rest |-> r6]
    BY <1>4, <1>5, <1>6, <1>7, <1>8 DEF UnpackSockaddr, unpackmem
  <1>12. UnpackSockaddr(r1, g.addr) = [value |-> m.addr, rest |-> r6]
    BY <1>11, FieldTypes
  <1>13. unpack_msg(g, b) =
           [type |-> m.type, addr |-> m.addr, field |-> m.field,
            ts |-> IF m.type = MCAST_CONTROLLER_INFO THEN unpack_time(r7, NoTime) ELSE NoTime,
            data |-> m.type \in Types]
    BY <1>3, <1>9, <1>12 DEF unpack_msg
  <1> QED  BY <1>10, <1>13

-----------------------------------------------------------------------------
(* The way of a message *)

\* What is known of a message before each action: the structure that is filled has
\* the type 0 in a service thread, and the bytes are those of the message unless
\* the receive has failed.
MsgInv ==
    /\ msg \in Message
    /\ pc \in {"pack", "receive", "unpack", "handle", "done"}
    /\ pc = "pack" => buffer = init_buf /\ ~failed
    /\ pc = "receive" =>
          /\ buffer \in Buf /\ Len(buffer.head) = BufSize /\ ~failed
          /\ Size(msg) <= buffer.processed /\ buffer.processed <= BufSize
          /\ Layout(buffer, msg)
    /\ pc = "unpack" =>
          /\ receiver = "service" => got.type = 0
          /\ failed => buffer = create_buf(<<>>)
          /\ ~failed => /\ buffer \in Buf /\ buffer.processed = 0
                        /\ Size(msg) <= Len(buffer.head)
                        /\ Layout(buffer, msg)
    /\ RoundTrip /\ Distinguished /\ Preserved /\ FailedIsRefused

\* No message is on its way at first.
LEMMA MsgFirst == Init => MsgInv
  BY DEF Init, MsgInv, RoundTrip, Distinguished, Preserved, FailedIsRefused, Arrived

\* The bytes that are sent hold what the buffer does, whatever is behind them.
LEMMA LayoutSent ==
    ASSUME NEW m \in Message, NEW b \in Buf, NEW c \in Buf,
           Size(m) <= b.processed, b.processed <= Len(c.head), Layout(b, m),
           \A k \in 1 .. b.processed : c.head[k] = b.head[k]
    PROVE  Layout(c, m)
  <1>2. /\ 24 <= b.processed /\ b.processed \in Nat
        /\ m.type = MCAST_CONTROLLER_INFO => 32 <= b.processed
    BY DEF Size, Buf
  <1>3. Len(Bytes16(m.type)) = 2 /\ Len(Bytes16(m.addr.family)) = 2 /\ Len(Bytes16(m.addr.port)) = 2
        /\ Len(Bytes32(m.addr.addr)) = 4 /\ Len(Bytes16(m.field)) = 2
    BY FieldTypes, BytesFit
  <1>4. 8 \in Halves /\ Len(Bytes32(8)) = 4 /\ Len(Zeros) = 8
    BY BytesFit, Sizes DEF Halves, Zeros
  <1>5. m.type = MCAST_CONTROLLER_INFO => Len(TimeBytes(m.ts[2])) = 8
    BY FieldTypes, TimeArrives
  <1>6. \A k \in 1 .. b.processed : c.head[k] = b.head[k]
    OBVIOUS
  <1> DEFINE f1 == Bytes16(m.type)
             f2 == Bytes16(m.addr.family)
             f3 == Bytes16(m.addr.port)
             f4 == Bytes32(m.addr.addr)
             f5 == Bytes32(8)
             f7 == Bytes16(m.field)
             f8 == TimeBytes(m.ts[2])
  <1>7. At(c, 0, f1)
    <2>1. Len(f1) = 2 /\ At(b, 0, f1)
      BY <1>3 DEF Layout
    <2> HIDE DEF f1
    <2>2. \A k \in 1 .. 2 : 0 + k \in 1 .. b.processed
      BY <1>2
    <2>3. \A k \in 1 .. 2 : c.head[0 + k] = b.head[0 + k]
      BY <1>6, <2>2
    <2> QED  BY <2>1, <2>3 DEF At
  <1>8. At(c, 2, f2)
    <2>1. Len(f2) = 2 /\ At(b, 2, f2)
      BY <1>3 DEF Layout
    <2> HIDE DEF f2
    <2>2. \A k \in 1 .. 2 : 2 + k \in 1 .. b.processed
      BY <1>2
    <2>3. \A k \in 1 .. 2 : c.head[2 + k] = b.head[2 + k]
      BY <1>6, <2>2
    <2> QED  BY <2>1, <2>3 DEF At
  <1>9. At(c, 4, f3)
    <2>1. Len(f3) = 2 /\ At(b, 4, f3)
      BY <1>3 DEF Layout
    <2> HIDE DEF f3
    <2>2. \A k \in 1 .. 2 : 4 + k \in 1 .. b.processed
      BY <1>2
    <2>3. \A k \in 1 .. 2 : c.head[4 + k] = b.head[4 + k]
      BY <1>6, <2>2
    <2> QED  BY <2>1, <2>3 DEF At
  <1>10. At(c, 6, f4)
    <2>1. Len(f4) = 4 /\ At(b, 6, f4)
      BY <1>3 DEF Layout
    <2> HIDE DEF f4
    <2>2. \A k \in 1 .. 4 : 6 + k \in 1 .. b.processed
      BY <1>2
    <2>3. \A k \in 1 .. 4 : c.head[6 + k] = b.head[6 + k]
      BY <1>6, <2>2
    <2> QED  BY <2>1, <2>3 DEF At
  <1>11. At(c, 10, f5)
    <2>1. Len(f5) = 4 /\ At(b, 10, f5)
      BY <1>4 DEF Layout
    <2> HIDE DEF f5
    <2>2. \A k \in 1 .. 4 : 10 + k \in 1 .. b.processed
      BY <1>2
    <2>3. \A k \in 1 .. 4 : c.head[10 + k] = b.head[10 + k]
      BY <1>6, <2>2
    <2> QED  BY <2>1, <2>3 DEF At
  <1>12. At(c, 14, Zeros)
    <2>1. Len(Zeros) = 8 /\ At(b, 14, Zeros)
      BY <1>4 DEF Layout
    <2>2. \A k \in 1 .. 8 : 14 + k \in 1 .. b.processed
      BY <1>2
    <2>3. \A k \in 1 .. 8 : c.head[14 + k] = b.head[14 + k]
      BY <1>6, <2>2
    <2> QED  BY <2>1, <2>3 DEF At
  <1>13. At(c, 22, f7)
    <2>1. Len(f7) = 2 /\ At(b, 22, f7)
      BY <1>3 DEF Layout
    <2> HIDE DEF f7
    <2>2. \A k \in 1 .. 2 : 22 + k \in 1 .. b.processed
      BY <1>2
    <2>3. \A k \in 1 .. 2 : c.head[22 + k] = b.head[22 + k]
      BY <1>6, <2>2
    <2> QED  BY <2>1, <2>3 DEF At
  <1>14. ASSUME m.type = MCAST_CONTROLLER_INFO  PROVE At(c, 24, f8)
    <2>1. Len(f8) = 8 /\ At(b, 24, f8)
      BY <1>5, <1>14 DEF Layout
    <2> HIDE DEF f8
    <2>2. \A k \in 1 .. 8 : 24 + k \in 1 .. b.processed
      BY <1>2, <1>14
    <2>3. \A k \in 1 .. 8 : c.head[24 + k] = b.head[24 + k]
      BY <1>6, <2>2
    <2> QED  BY <2>1, <2>3 DEF At
  <1> QED  BY <1>7, <1>8, <1>9, <1>10, <1>11, <1>12, <1>13, <1>14 DEF Layout

\* Every action keeps it.
LEMMA MsgStep == MsgInv /\ [Next]_vars => MsgInv'
<1> SUFFICES ASSUME MsgInv, [Next]_vars  PROVE MsgInv'
  OBVIOUS
<1> DEFINE Props == RoundTrip /\ Distinguished /\ Preserved /\ FailedIsRefused
<1>1. ASSUME pc' # "handle"  PROVE Props'
  BY <1>1 DEF RoundTrip, Distinguished, Preserved, FailedIsRefused, Arrived
<1>2. CASE UNCHANGED vars
  BY <1>2 DEF vars, MsgInv, RoundTrip, Distinguished, Preserved, FailedIsRefused, Arrived
<1>3. CASE Send
  <2>1. pc' = "receive" /\ msg' = msg /\ failed' = failed /\ ~failed
        /\ receiver' = receiver /\ buffer' = pack_msg(msg, init_buf)
    BY <1>3 DEF Send, MsgInv
  <2>2. /\ buffer' \in Buf /\ Len(buffer'.head) = BufSize
        /\ Size(msg) <= buffer'.processed /\ buffer'.processed <= BufSize
        /\ Layout(buffer', msg)
    BY <2>1, PackMsgLayout DEF MsgInv
  <2>3. Layout(buffer, msg)' /\ Size(msg)' = Size(msg)
    BY <2>1, <2>2
  <2> QED  BY <1>1, <2>1, <2>2, <2>3 DEF MsgInv
<1>4. CASE Receive
  <2>1. pc = "receive" /\ pc' = "unpack" /\ msg' = msg /\ receiver' = receiver
    BY <1>4 DEF Receive
  <2>2. /\ buffer \in Buf /\ Len(buffer.head) = BufSize /\ ~failed
        /\ Size(msg) <= buffer.processed /\ buffer.processed <= BufSize
        /\ Layout(buffer, msg) /\ msg \in Message
    BY <2>1 DEF MsgInv
  <2>3. receiver = "service" => got'.type = 0
    BY <1>4 DEF Receive, MsgInit, Blank
  <2>4. Sent \in Seq(Byte) /\ Len(Sent) = buffer.processed
        /\ \A k \in 1 .. buffer.processed : Sent[k] = buffer.head[k]
    BY <2>2 DEF Sent, Buf
  <2>5. ASSUME NEW s \in Seq(Byte), buffer' = create_buf(s), failed' = failed,
               buffer.processed <= Len(s), \A k \in 1 .. buffer.processed : s[k] = Sent[k]
        PROVE  MsgInv'
    <3>1. buffer' \in Buf /\ buffer'.processed = 0 /\ buffer'.head = s
      BY <2>5 DEF create_buf, Buf
    <3>2. Layout(buffer', msg)
      BY <2>2, <2>4, <2>5, <3>1, LayoutSent
    <3>3. Layout(buffer, msg)' /\ Size(msg)' = Size(msg)
      BY <2>1, <3>2
    <3>4. Size(msg) <= Len(s)
      BY <2>2, <2>5 DEF Size, Buf
    <3> QED  BY <1>1, <2>1, <2>2, <2>3, <2>5, <3>1, <3>3, <3>4 DEF MsgInv
  <2>6. CASE receiver = "discovery" /\ failed' = failed /\ \E x \in 0 .. Base - 1 :
               buffer' = create_buf([k \in 1 .. BufSize |-> IF k \in DOMAIN Sent THEN Sent[k] ELSE x])
    <3>1. PICK x \in Byte :
            buffer' = create_buf([k \in 1 .. BufSize |-> IF k \in DOMAIN Sent THEN Sent[k] ELSE x])
      BY <2>6 DEF Byte
    <3> DEFINE s == [k \in 1 .. BufSize |-> IF k \in DOMAIN Sent THEN Sent[k] ELSE x]
    <3>2. DOMAIN Sent = 1 .. buffer.processed /\ buffer.processed \in Nat /\ BufSize \in Nat
      BY <2>2, <2>4, MessagesAssumption DEF Buf
    <3>3. s \in Seq(Byte) /\ Len(s) = BufSize
      BY <2>4, <3>1, <3>2
    <3>4. \A k \in 1 .. buffer.processed : s[k] = Sent[k]
      BY <2>2, <3>2
    <3> HIDE DEF s
    <3> QED  BY <2>2, <2>5, <2>6, <3>1, <3>3, <3>4 DEF s
  <2>7. CASE buffer' = create_buf(Sent) /\ failed' = failed
    BY <2>2, <2>4, <2>5, <2>7 DEF Buf
  <2>8. CASE receiver # "discovery" /\ buffer' = create_buf(<<>>) /\ failed' = TRUE
    BY <1>1, <2>1, <2>2, <2>3, <2>8 DEF MsgInv, create_buf
  <2> QED  BY <1>4, <2>6, <2>7, <2>8 DEF Receive
<1>5. CASE UnpackMsg
  <2>1. pc = "unpack" /\ pc' = "handle" /\ msg' = msg /\ receiver' = receiver
        /\ failed' = failed /\ buffer' = buffer /\ got' = unpack_msg(got, buffer)
        /\ msg \in Message
    BY <1>5 DEF UnpackMsg, MsgInv
  <2>2. CASE failed
    <3>1. buffer = create_buf(<<>>) /\ (receiver = "service" => got.type = 0)
      BY <2>1, <2>2 DEF MsgInv
    <3>2. Ahead(buffer, 2) = <<>>
      BY <3>1 DEF create_buf, Ahead, remaining_buf
    <3>3. got'.type = got.type
      BY <2>1, <3>2 DEF unpack_msg, unpack16
    <3>4. FailedIsRefused'
      BY <2>1, <3>1, <3>3
         DEF FailedIsRefused, REQUEST_NODE_REGISTRATION, RESPONSE_PONG
    <3>5. ~Arrived'
      BY <2>1, <2>2 DEF Arrived
    <3> QED  BY <2>1, <3>4, <3>5 DEF MsgInv, RoundTrip, Distinguished, Preserved
  <2>3. CASE ~failed
    <3>1. /\ buffer \in Buf /\ buffer.processed = 0
          /\ Size(msg) <= Len(buffer.head) /\ Layout(buffer, msg)
      BY <2>1, <2>3 DEF MsgInv
    <3>2. /\ got'.type = msg.type /\ got'.addr = msg.addr /\ got'.field = msg.field
          /\ got'.ts = IF msg.type # MCAST_CONTROLLER_INFO THEN NoTime
                       ELSE <<IF Negative(msg.ts[2]) THEN Half - 1 ELSE 0, msg.ts[2]>>
      BY <2>1, <3>1, UnpackMsgReads
    <3>3. RoundTrip'
      BY <2>1, <3>2 DEF RoundTrip
    <3>4. Distinguished'
      BY <2>1, <3>2 DEF Distinguished
    <3>5. Preserved'
      <4>1. ~Negative(msg.ts[2]) => got'.ts = msg.ts
        BY <2>1, <3>2, FieldTypes
      <4> QED  BY <2>1, <4>1 DEF Preserved
    <3>6. FailedIsRefused'
      BY <2>1, <2>3 DEF FailedIsRefused
    <3> QED  BY <2>1, <3>3, <3>4, <3>5, <3>6 DEF MsgInv
  <2> QED  BY <2>2, <2>3
<1>6. CASE Free
  BY <1>1, <1>6 DEF Free, MsgInv
<1>7. CASE Done
  BY <1>2, <1>7 DEF Done
<1> QED  BY <1>2, <1>3, <1>4, <1>5, <1>6, <1>7 DEF Next

\* The invariant holds in every state.
LEMMA MsgAlways == Spec => []MsgInv
  BY MsgFirst, MsgStep, PTL DEF Spec

\* A message arrives with its type, its sender's address and its port or id, for any
\* width of a byte and any buffer that holds it.
THEOREM ArrivesWhole == Spec => []RoundTrip
<1>1. MsgInv => RoundTrip
  BY DEF MsgInv
<1> QED  BY <1>1, MsgAlways, PTL

\* The lower half of the controller's start-up time arrives, so that a daemon tells one
\* controller from the next.
THEOREM ControllersDiffer == Spec => []Distinguished
<1>1. MsgInv => Distinguished
  BY DEF MsgInv
<1> QED  BY <1>1, MsgAlways, PTL

\* A time whose lower half has no sign arrives as it is.
THEOREM TimesArrive == Spec => []Preserved
<1>1. MsgInv => Preserved
  BY DEF MsgInv
<1> QED  BY <1>1, MsgAlways, PTL

\* A failed receive is served as a message of type 0, which is no request.
THEOREM FailuresAreRefused == Spec => []FailedIsRefused
<1>1. MsgInv => FailedIsRefused
  BY DEF MsgInv
<1> QED  BY <1>1, MsgAlways, PTL

=============================================================================
