---------------------------- MODULE BleUartProofs ----------------------------
EXTENDS BleUart, SequenceTheorems, TLAPS

-----------------------------------------------------------------------------
(* The checksum.                                                           *)

LEMMA XorHexFacts ==
    ASSUME NEW x \in 0..15, NEW y \in 0..15
    PROVE  /\ XorHex[x][y] \in 0..15
           /\ \A i \in {1, 2, 4, 8} :
                  (XorHex[x][y] \div i) % 2 = (x \div i + y \div i) % 2
  <1> DEFINE p == (x \div 1 + y \div 1) % 2
             q == (x \div 2 + y \div 2) % 2
             r == (x \div 4 + y \div 4) % 2
             s == (x \div 8 + y \div 8) % 2
  <1>1. XorHex[x][y] = 1 * p + 2 * q + 4 * r + 8 * s
    BY DEF XorHex
  <1>2. p \in 0..1 /\ q \in 0..1 /\ r \in 0..1 /\ s \in 0..1
    OBVIOUS
  <1> HIDE DEF p, q, r, s
  <1>3. /\ XorHex[x][y] \in 0..15
        /\ (XorHex[x][y] \div 1) % 2 = p /\ (XorHex[x][y] \div 2) % 2 = q
        /\ (XorHex[x][y] \div 4) % 2 = r /\ (XorHex[x][y] \div 8) % 2 = s
    BY <1>1, <1>2
  <1> QED
    BY <1>3 DEF p, q, r, s

LEMMA XorHexType == \A x, y \in 0..15 : XorHex[x][y] \in 0..15
  BY XorHexFacts, Zenon

LEMMA XorHexBits ==
    \A x, y \in 0..15 : \A i \in {1, 2, 4, 8} :
        (XorHex[x][y] \div i) % 2 = (x \div i + y \div i) % 2
  BY XorHexFacts, Zenon

LEMMA HexBits ==
    ASSUME NEW x \in 0..15, NEW y \in 0..15,
           \A i \in {1, 2, 4, 8} : (x \div i) % 2 = (y \div i) % 2
    PROVE  x = y
  <1>1. /\ (x \div 1) % 2 = (y \div 1) % 2 /\ (x \div 2) % 2 = (y \div 2) % 2
        /\ (x \div 4) % 2 = (y \div 4) % 2 /\ (x \div 8) % 2 = (y \div 8) % 2
    OBVIOUS
  <1> QED
    BY <1>1

LEMMA XorHexCancels ==
    ASSUME NEW x \in 0..15, NEW y \in 0..15, NEW z \in 0..15
    PROVE  /\ XorHex[x][z] = XorHex[y][z] => x = y
           /\ XorHex[z][x] = XorHex[z][y] => x = y
  <1>1. ASSUME NEW i \in {1, 2, 4, 8},
               (x \div i + z \div i) % 2 = (y \div i + z \div i) % 2
        PROVE  (x \div i) % 2 = (y \div i) % 2
    <2>1. x \div i \in Int /\ y \div i \in Int /\ z \div i \in Int
      OBVIOUS
    <2>2. ASSUME NEW a \in Int, NEW b \in Int, NEW c \in Int, (a + c) % 2 = (b + c) % 2
          PROVE  a % 2 = b % 2
      BY <2>2
    <2> QED
      BY <1>1, <2>1, <2>2
  <1>2. ASSUME XorHex[x][z] = XorHex[y][z] PROVE x = y
    <2>1. \A i \in {1, 2, 4, 8} : (XorHex[x][z] \div i) % 2 = (x \div i + z \div i) % 2
      BY XorHexBits, Zenon
    <2>2. \A i \in {1, 2, 4, 8} : (XorHex[y][z] \div i) % 2 = (y \div i + z \div i) % 2
      BY XorHexBits, Zenon
    <2>3. \A i \in {1, 2, 4, 8} : (x \div i + z \div i) % 2 = (y \div i + z \div i) % 2
      BY <1>2, <2>1, <2>2, Zenon
    <2>4. \A i \in {1, 2, 4, 8} : (x \div i) % 2 = (y \div i) % 2
      BY <1>1, <2>3, Zenon
    <2> QED BY <2>4, HexBits, Zenon
  <1>3. ASSUME XorHex[z][x] = XorHex[z][y] PROVE x = y
    <2>1. \A i \in {1, 2, 4, 8} : (XorHex[z][x] \div i) % 2 = (x \div i + z \div i) % 2
      <3>1. \A i \in {1, 2, 4, 8} : (XorHex[z][x] \div i) % 2 = (z \div i + x \div i) % 2
        BY XorHexBits, Zenon
      <3> QED BY <3>1
    <2>2. \A i \in {1, 2, 4, 8} : (XorHex[z][y] \div i) % 2 = (y \div i + z \div i) % 2
      <3>1. \A i \in {1, 2, 4, 8} : (XorHex[z][y] \div i) % 2 = (z \div i + y \div i) % 2
        BY XorHexBits, Zenon
      <3> QED BY <3>1
    <2>3. \A i \in {1, 2, 4, 8} : (x \div i + z \div i) % 2 = (y \div i + z \div i) % 2
      BY <1>3, <2>1, <2>2, Zenon
    <2>4. \A i \in {1, 2, 4, 8} : (x \div i) % 2 = (y \div i) % 2
      BY <1>1, <2>3, Zenon
    <2> QED BY <2>4, HexBits, Zenon
  <1> QED
    BY <1>2, <1>3

LEMMA XorFacts ==
    ASSUME NEW x \in Byte, NEW y \in Byte, NEW z \in Byte
    PROVE  /\ Xor(x, y) \in Byte
           /\ Xor(x, z) = Xor(y, z) => x = y
           /\ Xor(z, x) = Xor(z, y) => x = y
  <1>1. \A v \in Byte : v \div 16 \in 0..15 /\ v % 16 \in 0..15
    BY DEF Byte
  <1>2. \A v \in Byte : v = 16 * (v \div 16) + (v % 16)
    BY DEF Byte
  <1>3. \A v, w \in Byte : Xor(v, w) \in Byte
    <2> SUFFICES ASSUME NEW v \in Byte, NEW w \in Byte PROVE Xor(v, w) \in Byte
      OBVIOUS
    <2>1. XorHex[v \div 16][w \div 16] \in 0..15 /\ XorHex[v % 16][w % 16] \in 0..15
      BY <1>1, XorHexType, Zenon
    <2>2. \A h, l \in 0..15 : 16 * h + l \in Byte
      BY DEF Byte
    <2> QED BY <2>1, <2>2, Zenon DEF Xor
  <1>4. ASSUME NEW a \in Byte, NEW b \in Byte, NEW c \in Byte, NEW d \in Byte,
               Xor(a, b) = Xor(c, d)
        PROVE  /\ XorHex[a \div 16][b \div 16] = XorHex[c \div 16][d \div 16]
               /\ XorHex[a % 16][b % 16] = XorHex[c % 16][d % 16]
    <2> DEFINE h == XorHex[a \div 16][b \div 16]
               l == XorHex[a % 16][b % 16]
               k == XorHex[c \div 16][d \div 16]
               m == XorHex[c % 16][d % 16]
    <2>1. h \in 0..15 /\ l \in 0..15 /\ k \in 0..15 /\ m \in 0..15
      BY <1>1, XorHexType, Zenon
    <2>2. 16 * h + l = 16 * k + m
      BY <1>4 DEF Xor
    <2> HIDE DEF h, l, k, m
    <2>3. h = k /\ l = m
      BY <2>1, <2>2
    <2> QED BY <2>3 DEF h, l, k, m
  <1>5. ASSUME Xor(x, z) = Xor(y, z) PROVE x = y
    <2>1. x \div 16 = y \div 16 /\ x % 16 = y % 16
      <3>1. /\ XorHex[x \div 16][z \div 16] = XorHex[y \div 16][z \div 16]
            /\ XorHex[x % 16][z % 16] = XorHex[y % 16][z % 16]
        BY <1>4, <1>5
      <3>2. /\ x \div 16 \in 0..15 /\ y \div 16 \in 0..15 /\ z \div 16 \in 0..15
            /\ x % 16 \in 0..15 /\ y % 16 \in 0..15 /\ z % 16 \in 0..15
        BY <1>1, Zenon
      <3>3. \A v, w, u \in 0..15 : XorHex[v][u] = XorHex[w][u] => v = w
        BY XorHexCancels, Zenon
      <3>4. x \div 16 = y \div 16
        BY <3>1, <3>2, <3>3, Zenon
      <3>5. x % 16 = y % 16
        BY <3>1, <3>2, <3>3, Zenon
      <3> QED BY <3>4, <3>5
    <2> QED BY <1>2, <2>1
  <1>6. ASSUME Xor(z, x) = Xor(z, y) PROVE x = y
    <2>1. x \div 16 = y \div 16 /\ x % 16 = y % 16
      <3>1. /\ XorHex[z \div 16][x \div 16] = XorHex[z \div 16][y \div 16]
            /\ XorHex[z % 16][x % 16] = XorHex[z % 16][y % 16]
        BY <1>4, <1>6
      <3>2. /\ x \div 16 \in 0..15 /\ y \div 16 \in 0..15 /\ z \div 16 \in 0..15
            /\ x % 16 \in 0..15 /\ y % 16 \in 0..15 /\ z % 16 \in 0..15
        BY <1>1, Zenon
      <3>3. \A v, w, u \in 0..15 : XorHex[u][v] = XorHex[u][w] => v = w
        BY XorHexCancels, Zenon
      <3>4. x \div 16 = y \div 16
        BY <3>1, <3>2, <3>3, Zenon
      <3>5. x % 16 = y % 16
        BY <3>1, <3>2, <3>3, Zenon
      <3> QED BY <3>4, <3>5
    <2> QED BY <1>2, <2>1
  <1> QED
    BY <1>3, <1>5, <1>6

LEMMA ShiftOne ==
    ASSUME NEW x \in Byte
    PROVE  /\ Shift[x] \in Byte
           /\ x < 128 => Shift[x] = 2 * x
           /\ x >= 128 => Shift[x] = Xor(2 * x - 256, 7) /\ Shift[x] % 2 = 1
  <1> DEFINE d == 2 * x - 256
             l == d % 16
             h == d \div 16
  <1>1. CASE x < 128
    BY <1>1 DEF Shift, Byte
  <1>2. CASE x >= 128
    <2>1. (x * 2) % 256 = d /\ d \in Byte /\ d % 2 = 0
      BY <1>2 DEF Byte
    <2>2. Shift[x] = Xor(d, 7)
      BY <1>2, <2>1 DEF Shift
    <2>3. l \in 0..15 /\ h \in 0..15 /\ l % 2 = 0
      BY <2>1 DEF Byte
    <2>4. Xor(d, 7) = 16 * XorHex[h][0] + XorHex[l][7]
      BY DEF Xor
    <2>5. 7 \in Byte
      BY DEF Byte
    <2>6. Xor(d, 7) \in Byte
      <3> HIDE DEF d
      <3> QED BY <2>1, <2>5, XorFacts
    <2> HIDE DEF d, l, h
    <2>7. XorHex[h][0] \in 0..15 /\ XorHex[l][7] \in 0..15
      <3>1. 0 \in 0..15 /\ 7 \in 0..15
        OBVIOUS
      <3> QED BY <2>3, <3>1, XorHexType, Zenon
    <2>8. (XorHex[l][7] \div 1) % 2 = (l \div 1 + 7 \div 1) % 2
      <3>1. 7 \in 0..15 /\ 1 \in {1, 2, 4, 8}
        OBVIOUS
      <3> QED BY <2>3, <3>1, XorHexBits, Zenon
    <2>9. XorHex[l][7] % 2 = 1
      BY <2>3, <2>7, <2>8
    <2>10. Xor(d, 7) % 2 = 1
      BY <2>4, <2>7, <2>9
    <2> QED BY <1>2, <2>2, <2>6, <2>10 DEF d, Byte
  <1> QED
    BY <1>1, <1>2 DEF Byte

LEMMA ShiftFacts ==
    ASSUME NEW x \in Byte, NEW y \in Byte
    PROVE  Shift[x] \in Byte /\ (Shift[x] = Shift[y] => x = y)
  <1>1. ASSUME Shift[x] = Shift[y] PROVE x = y
    <2>1. CASE x >= 128 /\ y >= 128
      <3>1. Xor(2 * x - 256, 7) = Xor(2 * y - 256, 7)
        BY <1>1, <2>1, ShiftOne
      <3>2. 2 * x - 256 \in Byte /\ 2 * y - 256 \in Byte /\ 7 \in Byte
        BY <2>1 DEF Byte
      <3>3. 2 * x - 256 = 2 * y - 256
        BY <3>1, <3>2, XorFacts
      <3> QED BY <3>3 DEF Byte
    <2>2. CASE x < 128 /\ y < 128
      <3>1. Shift[x] = 2 * x /\ Shift[y] = 2 * y
        BY <2>2, ShiftOne
      <3>2. 2 * x = 2 * y
        BY <1>1, <3>1
      <3> QED BY <3>2 DEF Byte
    <2>3. CASE x >= 128 /\ y < 128
      <3>1. Shift[x] % 2 = 1 /\ Shift[y] = 2 * y
        BY <2>3, ShiftOne
      <3> QED BY <1>1, <3>1 DEF Byte
    <2>4. CASE x < 128 /\ y >= 128
      <3>1. Shift[y] % 2 = 1 /\ Shift[x] = 2 * x
        BY <2>4, ShiftOne
      <3> QED BY <1>1, <3>1 DEF Byte
    <2> QED BY <2>1, <2>2, <2>3, <2>4 DEF Byte
  <1> QED
    BY <1>1, ShiftOne

LEMMA CrcOfFacts ==
    ASSUME NEW x \in Byte, NEW y \in Byte
    PROVE  CrcOf[x] \in Byte /\ (CrcOf[x] = CrcOf[y] => x = y)
  <1> DEFINE S2(v) == Shift[Shift[v]]
             S4(v) == S2(S2(v))
             S8(v) == S4(S4(v))
  <1>1. \A v, w \in Byte : S2(v) \in Byte /\ (S2(v) = S2(w) => v = w)
    <2>1. \A v \in Byte : Shift[v] \in Byte
      BY ShiftFacts
    <2>2. \A v, w \in Byte : Shift[v] = Shift[w] => v = w
      BY ShiftFacts, Zenon
    <2> QED BY <2>1, <2>2
  <1>3. \A v \in Byte : CrcOf[v] = S8(v)
    BY DEF CrcOf
  <1> HIDE DEF S2
  <1>4. \A v, w \in Byte : S4(v) \in Byte /\ (S4(v) = S4(w) => v = w)
    BY <1>1
  <1> HIDE DEF S4
  <1>5. \A v, w \in Byte : S8(v) \in Byte /\ (S8(v) = S8(w) => v = w)
    BY <1>4
  <1> QED
    BY <1>3, <1>5

LEMMA Crc8Type ==
    ASSUME NEW type \in Byte, NEW seq \in Byte, NEW cmd \in Byte
    PROVE  Crc8(type, seq, cmd) \in Byte
  BY CrcOfFacts, XorFacts DEF Crc8

(* One byte after the start of a frame, whichever it is, has become        *)
(* another one: the checksum that bleUartParserFeed computes is not the    *)
(* one it reads, for every frame.                                          *)
THEOREM ChecksumCatchesAnyByte ==
    ASSUME NEW type \in Byte, NEW seq \in Byte, NEW cmd \in Byte,
           NEW i \in 3..6, NEW b \in Byte, b # Encode(type, seq, cmd)[i]
    PROVE  LET f == [Encode(type, seq, cmd) EXCEPT ![i] = b]
           IN ~Parsed(SubSeq(f, 1, 5), f[6])
  <1> DEFINE e == Encode(type, seq, cmd)
             f == [e EXCEPT ![i] = b]
             p == SubSeq(f, 1, 5)
             s(k) == IF k = i THEN b ELSE e[k]
  <1>1. e = <<SOF0, SOF1, type, seq, cmd, Crc8(type, seq, cmd)>>
    BY DEF Encode
  <1>2. f \in Seq(Byte \cup {SOF0, SOF1}) /\ Len(f) = 6
    BY <1>1, Crc8Type
  <1>3. \A k \in 1..6 : f[k] = s(k)
    BY <1>1
  <1>4. Len(p) = 5 /\ \A k \in 1..5 : p[k] = f[k]
    BY <1>2
  <1>5. Crc8(s(3), s(4), s(5)) # s(6)
    <2>1. CASE i = 6
      BY <1>1, <2>1
    <2>2. CASE i = 5
      <3>1. Crc8(type, seq, b) # Crc8(type, seq, cmd)
        BY <1>1, <2>2, CrcOfFacts, XorFacts DEF Crc8
      <3> QED BY <1>1, <2>2, <3>1
    <2>3. CASE i = 4
      <3>1. b # seq
        BY <1>1, <2>3
      <3>2. Crc8(type, b, cmd) # Crc8(type, seq, cmd)
        <4> DEFINE c(v) == CrcOf[Xor(CrcOf[type], v)]
        <4>1. CrcOf[type] \in Byte
          BY CrcOfFacts
        <4>2. \A v \in Byte : Xor(CrcOf[type], v) \in Byte /\ c(v) \in Byte
          BY <4>1, CrcOfFacts, XorFacts
        <4>3. Xor(CrcOf[type], b) # Xor(CrcOf[type], seq)
          BY <3>1, <4>1, XorFacts
        <4>4. c(b) # c(seq)
          BY <4>2, <4>3, CrcOfFacts
        <4> HIDE DEF c
        <4>5. /\ Xor(c(b), cmd) # Xor(c(seq), cmd)
              /\ Xor(c(b), cmd) \in Byte /\ Xor(c(seq), cmd) \in Byte
          BY <4>2, <4>4, XorFacts
        <4>6. CrcOf[Xor(c(b), cmd)] # CrcOf[Xor(c(seq), cmd)]
          BY <4>5, CrcOfFacts
        <4> QED BY <4>6 DEF c, Crc8
      <3> QED BY <1>1, <2>3, <3>2
    <2>4. CASE i = 3
      <3>1. Crc8(b, seq, cmd) # Crc8(type, seq, cmd)
        BY <1>1, <2>4, CrcOfFacts, XorFacts DEF Crc8
      <3> QED BY <1>1, <2>4, <3>1
    <2> QED BY <2>1, <2>2, <2>3, <2>4
  <1>6. ~Parsed(p, f[6])
    BY <1>3, <1>4, <1>5 DEF Parsed
  <1> QED
    BY <1>6

-----------------------------------------------------------------------------
(* Parsers and lines.                                                      *)

DataFrames == [type : {DATA}, seq : Numbers, cmd : Cmds]
AckFrames == [type : {ACK}, seq : Byte, cmd : {0}]

\* A line whose frames are of F, with what the ghost remembers of them.
Line(F) == Seq([b : Byte, of : F \cup {NoFrame}])

\* new has the frames of line in their order, some of them gone or repeated.
Thinned(new, line) ==
    \E g \in [DOMAIN new -> DOMAIN line] :
        /\ \A i, j \in DOMAIN new : i <= j => g[i] <= g[j]
        /\ \A i \in DOMAIN new : new[i].of \in {NoFrame, line[g[i]].of}

LEMMA ConstantFacts ==
    /\ Numbers \subseteq Byte /\ 0 \in Numbers
    /\ Cmds \subseteq Byte /\ 0 \in Cmds /\ NOP = 0
    /\ \A c \in Cmds : CmdIsValid(c) /\ c # FORCE
    /\ BufferSize \in Nat /\ RetryLimit \in Nat
    /\ \A n \in Numbers : (n + 1) % SeqSize \in Numbers
  <1>1. SeqSize \in 2..256 /\ BufferSize \in Nat /\ RetryLimit \in Nat
    BY BleAssumption
  <1>2. MakeCmd(0, 0) = 0 /\ MakeCmd(0, 1) = 4 /\ MakeCmd(1, 0) = 1 /\ MakeCmd(1, 1) = 5
    BY DEF MakeCmd
  <1>3. Cmds \subseteq {0, 1, 4, 5} /\ 0 \in Cmds
    BY <1>2, BleAssumption DEF SignalCmds
  <1>4. \A c \in {0, 1, 4, 5} : CmdIsValid(c) /\ c # FORCE
    BY DEF CmdIsValid, CmdDoor, CmdSlope, FORCE
  <1>5. \A n \in Numbers : (n + 1) % SeqSize \in Numbers
    BY <1>1 DEF Numbers
  <1> QED
    BY <1>1, <1>2, <1>3, <1>4, <1>5 DEF Numbers, Byte, NOP

LEMMA ParserFacts ==
    ASSUME NEW p \in Seq(Byte), Len(p) <= 5, NEW b \in Byte
    PROVE  ParserFeed(p, b) \in Seq(Byte) /\ Len(ParserFeed(p, b)) <= 5
  <1>1. SOF0 \in Byte /\ SOF1 \in Byte
    BY DEF SOF0, SOF1, Byte
  <1>2. CASE Len(p) \in 2..4
    <2>1. Append(p, b) \in Seq(Byte) /\ Len(Append(p, b)) = Len(p) + 1
      OBVIOUS
    <2>2. ParserFeed(p, b) = Append(p, b)
      BY <1>2 DEF ParserFeed
    <2> QED BY <1>2, <2>1, <2>2
  <1>3. CASE ~(Len(p) \in 2..4)
    <2>1. ParserFeed(p, b) \in {FrameStart, <<SOF0>>, <<>>}
      BY <1>3 DEF ParserFeed
    <2>2. <<>> \in Seq(Byte) /\ Len(<<>>) <= 5
      OBVIOUS
    <2>3. <<SOF0>> \in Seq(Byte) /\ Len(<<SOF0>>) <= 5
      BY <1>1
    <2>4. FrameStart \in Seq(Byte) /\ Len(FrameStart) <= 5
      BY <1>1 DEF FrameStart
    <2> QED BY <2>1, <2>2, <2>3, <2>4
  <1> QED
    BY <1>2, <1>3

LEMMA FrameInFacts ==
    ASSUME NEW p \in Seq(Byte), NEW b \in Byte, Parsed(p, b)
    PROVE  /\ Len(p) = 5
           /\ FrameIn(p).type = p[3] /\ FrameIn(p).seq = p[4] /\ FrameIn(p).cmd = p[5]
           /\ p[3] \in Byte /\ p[4] \in Byte /\ p[5] \in Byte
  BY DEF Parsed, FrameIn, Frame

LEMMA BegunFacts ==
    ASSUME NEW p, NEW of, NEW x
    PROVE  Begun(p, of, x) \in {NoFrame, of, x.of}
  BY DEF Begun

LEMMA WriteFacts ==
    ASSUME NEW F, NEW line \in Line(F), Len(line) <= BufferSize, NEW f \in F,
           f.type \in Byte, f.seq \in Byte, f.cmd \in Byte
    PROVE  LET new == Write(line, f)
           IN /\ new \in Line(F) /\ Len(new) <= BufferSize /\ Len(line) <= Len(new)
              /\ \A i \in 1..Len(new) :
                     /\ i <= Len(line) => new[i].of = line[i].of
                     /\ i = Len(line) + 1 => new[i].of = f
                     /\ i > Len(line) + 1 => new[i].of = NoFrame
  <1> DEFINE bytes == Encode(f.type, f.seq, f.cmd)
             tail == [i \in 1..6 |-> [b |-> bytes[i], of |-> IF i = 1 THEN f ELSE NoFrame]]
             all == line \o tail
             n == IF Len(all) < BufferSize THEN Len(all) ELSE BufferSize
             C == [b : Byte, of : F \cup {NoFrame}]
  <1>1. \A i \in 1..6 : bytes[i] \in Byte
    <2>1. SOF0 \in Byte /\ SOF1 \in Byte
      BY DEF SOF0, SOF1, Byte
    <2>2. Crc8(f.type, f.seq, f.cmd) \in Byte
      BY Crc8Type
    <2> QED BY <2>1, <2>2 DEF Encode
  <1>2. tail \in Seq(C) /\ Len(tail) = 6
    <2> HIDE DEF bytes
    <2>1. \A i \in 1..6 : tail[i] \in C
      BY <1>1
    <2> QED BY <2>1
  <1>3. line \in Seq(C) /\ Len(line) \in Nat
    BY DEF Line
  <1>4. \A i \in 1..6 : tail[i].of = IF i = 1 THEN f ELSE NoFrame
    OBVIOUS
  <1> HIDE DEF tail, C
  <1>5. /\ all \in Seq(C) /\ Len(all) = Len(line) + 6
        /\ \A i \in 1..(Len(line) + 6) :
               /\ i <= Len(line) => all[i] = line[i]
               /\ i > Len(line) => all[i] = tail[i - Len(line)]
    <2>1. /\ all \in Seq(C) /\ Len(all) = Len(line) + Len(tail)
          /\ \A i \in 1..(Len(line) + Len(tail)) :
                 all[i] = IF i <= Len(line) THEN line[i] ELSE tail[i - Len(line)]
      BY <1>2, <1>3, ConcatProperties, Zenon
    <2>2. ASSUME NEW i \in 1..(Len(line) + 6)
          PROVE  /\ i <= Len(line) => all[i] = line[i]
                 /\ i > Len(line) => all[i] = tail[i - Len(line)]
      <3>1. i \in 1..(Len(line) + Len(tail)) /\ (i > Len(line) => ~(i <= Len(line)))
        BY <1>2, <1>3
      <3> QED BY <2>1, <3>1, Zenon
    <2> QED BY <1>2, <2>1, <2>2
  <1>6. n \in Nat /\ n <= Len(all) /\ n <= BufferSize /\ Len(line) <= n /\ n <= Len(line) + 6
    BY <1>3, <1>5, ConstantFacts
  <1> HIDE DEF all, n
  <1> DEFINE new == SubSeq(all, 1, n)
  <1>7. new \in Seq(C) /\ Len(new) = n /\ \A i \in 1..n : new[i] = all[i]
    BY <1>5, <1>6
  <1>8. Write(line, f) = new
    BY DEF Write, new, all, n, tail
  <1> HIDE DEF new
  <1>9. ASSUME NEW i \in 1..n
        PROVE  /\ i <= Len(line) => new[i].of = line[i].of
               /\ i = Len(line) + 1 => new[i].of = f
               /\ i > Len(line) + 1 => new[i].of = NoFrame
    <2>1. i \in 1..(Len(line) + 6) /\ new[i] = all[i]
      BY <1>3, <1>6, <1>7
    <2>2. CASE i <= Len(line)
      <3>1. new[i] = line[i]
        BY <1>5, <2>1, <2>2
      <3>2. ~(i = Len(line) + 1) /\ ~(i > Len(line) + 1)
        BY <1>3, <2>2
      <3> QED BY <3>1, <3>2
    <2>3. CASE i > Len(line)
      <3> DEFINE k == i - Len(line)
      <3>1. k \in 1..6 /\ (k = 1 <=> i = Len(line) + 1)
        BY <1>3, <1>6, <2>3
      <3>2. new[i] = tail[k]
        BY <1>5, <2>1, <2>3
      <3> HIDE DEF k
      <3>3. new[i].of = IF k = 1 THEN f ELSE NoFrame
        BY <1>4, <3>1, <3>2
      <3>4. ~(i <= Len(line)) /\ (i > Len(line) + 1 => k # 1)
        BY <1>3, <2>3, <3>1
      <3> QED BY <3>1, <3>3, <3>4
    <2> QED BY <1>3, <2>2, <2>3
  <1> QED
    BY <1>6, <1>7, <1>8, <1>9 DEF Line, C

LEMMA PieceFacts ==
    ASSUME NEW S, NEW s \in Seq(S), NEW m \in Nat \ {0}, NEW n \in 0..Len(s), m <= n + 1
    PROVE  /\ SubSeq(s, m, n) \in Seq(S) /\ Len(SubSeq(s, m, n)) = n + 1 - m
           /\ \A i \in 1..(n + 1 - m) : SubSeq(s, m, n)[i] = s[m + i - 1]
  <1>1. m \in Int /\ n \in Int /\ n - m + 1 = n + 1 - m /\ Len(s) \in Nat
    OBVIOUS
  <1>2. \A i \in m..n : s[i] \in S
    <2>1. \A i \in m..n : i \in 1..Len(s)
      BY <1>1
    <2> QED BY <2>1, ElementOfSeq
  <1>3. /\ SubSeq(s, m, n) \in Seq(S)
        /\ Len(SubSeq(s, m, n)) = IF m <= n THEN n - m + 1 ELSE 0
        /\ \A i \in 1..(n - m + 1) : SubSeq(s, m, n)[i] = s[m + i - 1]
    BY <1>1, <1>2, SubSeqProperties
  <1> QED
    BY <1>1, <1>3

LEMMA UnchangedIsThinned ==
    ASSUME NEW F, NEW line \in Line(F)
    PROVE  Thinned(line, line)
  <1> DEFINE g == [i \in DOMAIN line |-> i]
  <1>1. g \in [DOMAIN line -> DOMAIN line] /\ \A i \in DOMAIN line : g[i] = i
    OBVIOUS
  <1> QED
    BY <1>1 DEF Thinned

LEMMA TailIsThinned ==
    ASSUME NEW F, NEW line \in Line(F), line # <<>>
    PROVE  /\ Tail(line) \in Line(F) /\ Len(Tail(line)) = Len(line) - 1 /\ Len(line) >= 1
           /\ \A i \in 1..Len(Tail(line)) : Tail(line)[i] = line[i + 1]
           /\ line[1].b \in Byte /\ line[1].of \in F \cup {NoFrame}
           /\ Thinned(Tail(line), line)
  <1> DEFINE C == [b : Byte, of : F \cup {NoFrame}]
             new == Tail(line)
             g == [i \in 1..Len(new) |-> i + 1]
  <1>1. line \in Seq(C)
    BY DEF Line
  <1>2. /\ line[1] \in C /\ Len(line) \in Nat /\ Len(line) >= 1
        /\ line[1].b \in Byte /\ line[1].of \in F \cup {NoFrame}
    <2>1. Len(line) \in Nat /\ Len(line) >= 1
      BY <1>1, EmptySeq
    <2>2. line[1] \in C
      <3>1. 1 \in 1..Len(line)
        BY <2>1
      <3> QED BY <1>1, <3>1, ElementOfSeq
    <2> QED BY <2>1, <2>2
  <1> HIDE DEF C
  <1>3. /\ new \in Seq(C) /\ Len(new) = Len(line) - 1
        /\ \A i \in 1..Len(new) : new[i] = line[i + 1]
    BY <1>1, HeadTailProperties
  <1>4. DOMAIN new = 1..Len(new) /\ DOMAIN line = 1..Len(line)
    BY <1>1, <1>3
  <1> HIDE DEF new
  <1>5. Thinned(new, line)
    <2>1. g \in [1..Len(new) -> 1..Len(line)] /\ \A i \in 1..Len(new) : g[i] = i + 1
      BY <1>2, <1>3
    <2> HIDE DEF g
    <2>2. \A i, j \in 1..Len(new) : i <= j => g[i] <= g[j]
      BY <2>1
    <2>3. \A i \in 1..Len(new) : new[i].of \in {NoFrame, line[g[i]].of}
      BY <1>3, <2>1
    <2> QED BY <1>4, <2>1, <2>2, <2>3 DEF Thinned
  <1> QED
    BY <1>1, <1>2, <1>3, <1>5 DEF Line, new, C

LEMMA LeftByIsThinned ==
    ASSUME NEW F, NEW line \in Line(F), NEW new \in LeftBy(line)
    PROVE  new \in Line(F) /\ Len(new) <= Len(line) /\ Thinned(new, line)
  <1> DEFINE C == [b : Byte, of : F \cup {NoFrame}]
  <1>1. line \in Seq(C) /\ Len(line) \in Nat /\ DOMAIN line = 1..Len(line)
    BY DEF Line
  <1> HIDE DEF C
  <1>2. CASE new = <<>>
    <2> DEFINE g == [i \in DOMAIN new |-> i]
    <2>1. DOMAIN new = {} /\ new \in Seq(C) /\ Len(new) = 0
      BY <1>2
    <2>2. g \in [DOMAIN new -> DOMAIN line]
      BY <2>1
    <2> HIDE DEF g
    <2>3. Thinned(new, line)
      BY <2>1, <2>2 DEF Thinned
    <2> QED BY <1>1, <2>1, <2>3 DEF C, Line
  <1>3. CASE new # <<>>
    <2>1. PICK n \in {Cut} \cap 1..Len(line) : new = SubSeq(line, Len(line) + 1 - n, Len(line))
      BY <1>3 DEF LeftBy
    <2> DEFINE k == Len(line) - n
               g == [i \in 1..n |-> i + k]
    <2>2. n \in 1..Len(line) /\ k \in Nat /\ Len(line) + 1 - n \in 1..Len(line)
      BY <1>1
    <2>3. new \in Seq(C) /\ Len(new) = n /\ \A i \in 1..n : new[i] = line[i + k]
      <3> DEFINE m == Len(line) + 1 - n
      <3>1. /\ m \in Nat \ {0} /\ Len(line) \in 0..Len(line) /\ m <= Len(line) + 1
            /\ Len(line) + 1 - m = n /\ \A i \in 1..n : m + i - 1 = i + k
        BY <1>1, <2>2
      <3>2. new = SubSeq(line, m, Len(line))
        BY <2>1
      <3> HIDE DEF m, k
      <3> QED BY <1>1, <3>1, <3>2, PieceFacts
    <2>4. DOMAIN new = 1..n
      BY <2>3
    <2>5. g \in [1..n -> 1..Len(line)] /\ \A i \in 1..n : g[i] = i + k
      BY <1>1, <2>2
    <2>6. n <= Len(line)
      BY <2>2, <1>1
    <2> HIDE DEF g
    <2>7. \A i, j \in 1..n : i <= j => g[i] <= g[j]
      BY <1>1, <2>2, <2>5
    <2>8. \A i \in 1..n : new[i].of \in {NoFrame, line[g[i]].of}
      BY <2>3, <2>5
    <2> QED BY <1>1, <2>3, <2>4, <2>5, <2>6, <2>7, <2>8 DEF Thinned, C, Line
  <1> QED
    BY <1>2, <1>3

LEMMA DamagedIsThinned ==
    ASSUME NEW F, NEW line \in Line(F), NEW new \in Damaged(line)
    PROVE  new \in Line(F) /\ Len(new) <= Len(line) /\ Thinned(new, line)
  <1> DEFINE C == [b : Byte, of : F \cup {NoFrame}]
  <1>1. line \in Seq(C) /\ Len(line) \in Nat /\ DOMAIN line = 1..Len(line)
    BY DEF Line
  <1> HIDE DEF C
  <1>2. ASSUME NEW i \in 1..Len(line),
               new = SubSeq(line, 1, i - 1) \o SubSeq(line, i + 1, Len(line))
        PROVE  new \in Line(F) /\ Len(new) <= Len(line) /\ Thinned(new, line)
    <2> DEFINE s == SubSeq(line, 1, i - 1)
               t == SubSeq(line, i + 1, Len(line))
               m == Len(line) - 1
               g == [j \in 1..m |-> IF j < i THEN j ELSE j + 1]
    <2>1. s \in Seq(C) /\ Len(s) = i - 1 /\ \A j \in 1..(i - 1) : s[j] = line[j]
      <3>1. /\ 1 \in Nat \ {0} /\ i - 1 \in 0..Len(line) /\ 1 <= (i - 1) + 1
            /\ (i - 1) + 1 - 1 = i - 1 /\ \A j \in 1..(i - 1) : 1 + j - 1 = j
        BY <1>1
      <3> QED BY <1>1, <3>1, PieceFacts
    <2>2. /\ t \in Seq(C) /\ Len(t) = Len(line) - i
          /\ \A j \in 1..(Len(line) - i) : t[j] = line[i + j]
      <3> DEFINE n == Len(line)
      <3>1. i \in 1..n /\ n \in Nat
        BY <1>1
      <3>2. line \in Seq(C) /\ n = Len(line)
        BY <1>1
      <3> HIDE DEF n
      <3>3. i + 1 \in Nat \ {0} /\ n \in 0..n /\ i + 1 <= n + 1 /\ n + 1 - (i + 1) = n - i
        BY <3>1
      <3>4. \A j \in 1..(n - i) : i + 1 + j - 1 = i + j
        BY <3>1
      <3>5. t = SubSeq(line, i + 1, n)
        BY DEF t, n
      <3>6. /\ t \in Seq(C) /\ Len(t) = n + 1 - (i + 1)
            /\ \A j \in 1..(n + 1 - (i + 1)) : t[j] = line[i + 1 + j - 1]
        BY <3>2, <3>3, <3>5, PieceFacts
      <3> QED BY <3>2, <3>3, <3>4, <3>6
    <2> HIDE DEF s, t
    <2>3. /\ s \o t \in Seq(C) /\ Len(s \o t) = Len(s) + Len(t)
          /\ \A j \in 1..(Len(s) + Len(t)) :
                 (s \o t)[j] = IF j <= Len(s) THEN s[j] ELSE t[j - Len(s)]
      BY <2>1, <2>2, ConcatProperties, Zenon
    <2>4. m \in Nat /\ Len(s) + Len(t) = m
      BY <1>1, <2>1, <2>2
    <2>5. new = s \o t
      BY <1>2 DEF s, t
    <2>6. new \in Seq(C) /\ Len(new) = m /\ DOMAIN new = 1..m
      BY <2>3, <2>4, <2>5
    <2>7. /\ g \in [1..m -> 1..Len(line)]
          /\ \A j \in 1..m : (j < i => g[j] = j) /\ (j >= i => g[j] = j + 1)
      BY <1>1
    <2> HIDE DEF g
    <2>8. \A j, k \in 1..m : j <= k => g[j] <= g[k]
      BY <1>1, <2>7
    <2>9. ASSUME NEW j \in 1..m PROVE new[j].of \in {NoFrame, line[g[j]].of}
      <3>1. CASE j < i
        <4>1. j <= Len(s) /\ j \in 1..(i - 1)
          BY <1>1, <2>1, <3>1
        <4>2. new[j] = s[j]
          BY <2>3, <2>4, <2>5, <4>1
        <4> QED BY <2>1, <2>7, <3>1, <4>1, <4>2
      <3>2. CASE j >= i
        <4>1. ~(j <= Len(s)) /\ j - Len(s) \in 1..(Len(line) - i) /\ i + (j - Len(s)) = j + 1
          BY <1>1, <2>1, <3>2
        <4>2. new[j] = t[j - Len(s)]
          BY <2>3, <2>4, <2>5, <4>1
        <4>3. t[j - Len(s)] = line[j + 1]
          BY <2>2, <4>1
        <4>4. g[j] = j + 1
          BY <2>7, <3>2
        <4> QED BY <4>2, <4>3, <4>4
      <3> QED BY <1>1, <3>1, <3>2
    <2>10. Thinned(new, line)
      BY <1>1, <2>6, <2>7, <2>8, <2>9 DEF Thinned
    <2>11. Len(new) <= Len(line)
      BY <1>1, <2>6
    <2> QED BY <2>6, <2>10, <2>11 DEF C, Line
  <1>3. ASSUME NEW v \in Byte, NEW i \in 1..Len(line),
               new = [line EXCEPT ![i] = [b |-> v, of |-> NoFrame]]
        PROVE  new \in Line(F) /\ Len(new) <= Len(line) /\ Thinned(new, line)
    <2> DEFINE g == [j \in 1..Len(line) |-> j]
    <2>1. new \in Seq(C) /\ Len(new) = Len(line) /\ DOMAIN new = 1..Len(line)
      <3>1. [b |-> v, of |-> NoFrame] \in C
        BY DEF C
      <3> QED BY <1>1, <1>3, <3>1
    <2>2. \A j \in 1..Len(line) : new[j].of \in {NoFrame, line[j].of}
      BY <1>1, <1>3
    <2>3. g \in [1..Len(line) -> 1..Len(line)] /\ \A j \in 1..Len(line) : g[j] = j
      OBVIOUS
    <2> HIDE DEF g
    <2>4. \A j, k \in 1..Len(line) : j <= k => g[j] <= g[k]
      BY <2>3
    <2>5. \A j \in 1..Len(line) : new[j].of \in {NoFrame, line[g[j]].of}
      BY <2>2, <2>3
    <2>6. Thinned(new, line)
      BY <1>1, <2>1, <2>3, <2>4, <2>5 DEF Thinned
    <2> QED BY <1>1, <2>1, <2>6 DEF C, Line
  <1>4. SOF0 \in Byte /\ 255 \in Byte
    BY DEF SOF0, Byte
  <1>5. CASE new \in {SubSeq(line, 1, i - 1) \o SubSeq(line, i + 1, Len(line)) : i \in DOMAIN line}
    BY <1>1, <1>2, <1>5
  <1>6. ASSUME NEW v \in Byte, new \in Damages(line, v)
        PROVE  new \in Line(F) /\ Len(new) <= Len(line) /\ Thinned(new, line)
    BY <1>1, <1>3, <1>6 DEF Damages
  <1> QED
    BY <1>4, <1>5, <1>6 DEF Damaged

-----------------------------------------------------------------------------
(* The order of the frames on the way to the ECU.                          *)

\* The frame in the parser, those on the line, and the one being sent.
Way(of, line, sending) ==
    [i \in 0..(Len(line) + 1) |->
        IF i = 0 THEN of ELSE IF i <= Len(line) THEN line[i].of ELSE sending]

Embeds(v, w) ==
    \E g \in [DOMAIN v -> DOMAIN w] :
        /\ \A i, j \in DOMAIN v : i <= j => g[i] <= g[j]
        /\ \A i \in DOMAIN v : v[i] \in {NoFrame, w[g[i]]}

\* A frame that is not new is the last one delivered, and so is all before it;
\* the frames of one number are next to each other.
Ordered(w, last, started) ==
    /\ \A i, j \in DOMAIN w :
           j <= i /\ w[i] # NoFrame /\ w[j] # NoFrame /\ w[i].seq \notin started
               => w[j].seq = last
    /\ \A i, j, k \in DOMAIN w :
           /\ i <= j /\ j <= k /\ w[i] # NoFrame /\ w[j] # NoFrame /\ w[k] # NoFrame
           /\ w[i].seq = w[k].seq
           => w[j].seq = w[i].seq

LEMMA EmbeddedIsOrdered ==
    ASSUME NEW v, NEW w, NEW last, NEW started, Embeds(v, w), Ordered(w, last, started)
    PROVE  Ordered(v, last, started)
  <1>1. PICK g \in [DOMAIN v -> DOMAIN w] :
            /\ \A i, j \in DOMAIN v : i <= j => g[i] <= g[j]
            /\ \A i \in DOMAIN v : v[i] \in {NoFrame, w[g[i]]}
    BY DEF Embeds
  <1>2. \A i \in DOMAIN v : g[i] \in DOMAIN w /\ (v[i] # NoFrame => v[i] = w[g[i]])
    BY <1>1
  <1>3. ASSUME NEW i \in DOMAIN v, NEW j \in DOMAIN v,
               j <= i, v[i] # NoFrame, v[j] # NoFrame, v[i].seq \notin started
        PROVE  v[j].seq = last
    <2>1. g[j] <= g[i]
      BY <1>1, <1>3
    <2> QED BY <1>2, <1>3, <2>1 DEF Ordered
  <1>4. ASSUME NEW i \in DOMAIN v, NEW j \in DOMAIN v, NEW k \in DOMAIN v,
               i <= j, j <= k, v[i] # NoFrame, v[j] # NoFrame, v[k] # NoFrame,
               v[i].seq = v[k].seq
        PROVE  v[j].seq = v[i].seq
    <2>1. g[i] <= g[j] /\ g[j] <= g[k]
      BY <1>1, <1>4
    <2> QED BY <1>2, <1>4, <2>1 DEF Ordered
  <1> QED
    BY <1>3, <1>4 DEF Ordered

\* Parser and line keep what they had, or less.
LEMMA ThinnedWay ==
    ASSUME NEW F, NEW line \in Line(F), NEW new \in Line(F), Thinned(new, line),
           NEW of, NEW of2 \in {NoFrame, of}, NEW s, NEW s2 \in {NoFrame, s}
    PROVE  Embeds(Way(of2, new, s2), Way(of, line, s))
  <1>1. /\ Len(line) \in Nat /\ DOMAIN line = 1..Len(line)
        /\ Len(new) \in Nat /\ DOMAIN new = 1..Len(new)
    BY DEF Line
  <1>2. PICK h \in [1..Len(new) -> 1..Len(line)] :
            /\ \A i, j \in 1..Len(new) : i <= j => h[i] <= h[j]
            /\ \A i \in 1..Len(new) : new[i].of \in {NoFrame, line[h[i]].of}
    BY <1>1 DEF Thinned
  <1> DEFINE m == Len(new) + 1
             n == Len(line) + 1
             v == Way(of2, new, s2)
             w == Way(of, line, s)
             g == [i \in 0..m |-> IF i = 0 THEN 0 ELSE IF i <= Len(new) THEN h[i] ELSE n]
  <1>3. /\ DOMAIN v = 0..m /\ DOMAIN w = 0..n
        /\ v[0] = of2 /\ w[0] = of /\ v[m] = s2 /\ w[n] = s
        /\ \A i \in 1..Len(new) : v[i] = new[i].of
        /\ \A i \in 1..Len(line) : w[i] = line[i].of
    BY <1>1 DEF Way
  <1>4. /\ g \in [0..m -> 0..n] /\ g[0] = 0 /\ g[m] = n
        /\ \A i \in 1..Len(new) : g[i] = h[i] /\ h[i] \in 1..Len(line)
    <2>1. \A i \in 1..Len(new) : h[i] \in 1..Len(line) /\ h[i] \in 0..n
      BY <1>1
    <2>2. 0 \in 0..m /\ m \in 0..m /\ 0 \in 0..n /\ n \in 0..n /\ m # 0 /\ ~(m <= Len(new))
      BY <1>1
    <2>3. \A i \in 0..m : i # 0 /\ i <= Len(new) => i \in 1..Len(new)
      BY <1>1
    <2>4. \A i \in 1..Len(new) : i \in 0..m /\ i # 0 /\ i <= Len(new)
      BY <1>1
    <2> HIDE DEF m, n
    <2> QED BY <2>1, <2>2, <2>3, <2>4
  <1>5. \A i \in 0..m : i = 0 \/ i = m \/ i \in 1..Len(new)
    BY <1>1
  <1> HIDE DEF g, v, w
  <1>6. ASSUME NEW i \in 0..m, NEW j \in 0..m, i <= j PROVE g[i] <= g[j]
    <2>0. g[i] \in 0..n /\ g[j] \in 0..n /\ n \in Nat
      BY <1>1, <1>4
    <2>1. CASE i = 0
      <3>1. g[i] = 0
        BY <1>4, <2>1
      <3> QED BY <2>0, <3>1
    <2>2. CASE j = m
      <3>1. g[j] = n
        BY <1>4, <2>2
      <3> QED BY <2>0, <3>1
    <2>3. CASE i \in 1..Len(new) /\ j \in 1..Len(new)
      BY <1>2, <1>4, <1>6, <2>3
    <2>4. CASE i = m \/ j = 0
      <3>1. i = j \/ i = 0 \/ j = m
        BY <1>1, <1>6, <2>4
      <3> QED BY <2>0, <2>1, <2>2, <3>1
    <2> QED BY <1>5, <2>1, <2>2, <2>3, <2>4
  <1>7. ASSUME NEW i \in 0..m PROVE v[i] \in {NoFrame, w[g[i]]}
    <2>1. CASE i \in 1..Len(new)
      <3>1. v[i] \in {NoFrame, line[h[i]].of} /\ w[g[i]] = line[h[i]].of
        BY <1>2, <1>3, <1>4, <2>1
      <3> QED BY <3>1
    <2>2. CASE i = 0 \/ i = m
      BY <1>3, <1>4, <2>2
    <2> QED BY <1>5, <2>1, <2>2
  <1> QED
    BY <1>3, <1>4, <1>6, <1>7 DEF Embeds, v, w

\* A frame that is being sent is written.
LEMMA WrittenWay ==
    ASSUME NEW F, NEW line \in Line(F), Len(line) <= BufferSize, NEW f \in F,
           f.type \in Byte, f.seq \in Byte, f.cmd \in Byte, NEW of
    PROVE  Embeds(Way(of, Write(line, f), f), Way(of, line, f))
  <1> DEFINE new == Write(line, f)
  <1>1. /\ new \in Line(F) /\ Len(line) <= Len(new)
        /\ \A i \in 1..Len(new) :
               /\ i <= Len(line) => new[i].of = line[i].of
               /\ i = Len(line) + 1 => new[i].of = f
               /\ i > Len(line) + 1 => new[i].of = NoFrame
    BY WriteFacts
  <1> HIDE DEF new
  <1>2. Len(line) \in Nat /\ Len(new) \in Nat
    BY <1>1 DEF Line
  <1> DEFINE m == Len(new) + 1
             n == Len(line) + 1
             v == Way(of, new, f)
             w == Way(of, line, f)
             g == [i \in 0..m |-> IF i <= n THEN i ELSE n]
  <1>3. /\ DOMAIN v = 0..m /\ DOMAIN w = 0..n
        /\ v[0] = of /\ w[0] = of /\ v[m] = f /\ w[n] = f
        /\ \A i \in 1..Len(new) : v[i] = new[i].of
        /\ \A i \in 1..Len(line) : w[i] = line[i].of
    BY <1>2 DEF Way
  <1>4. g \in [0..m -> 0..n] /\ \A i \in 0..m : (i <= n => g[i] = i) /\ (i >= n => g[i] = n)
    BY <1>1, <1>2
  <1> HIDE DEF g, v, w
  <1>5. ASSUME NEW i \in 0..m, NEW j \in 0..m, i <= j PROVE g[i] <= g[j]
    BY <1>2, <1>4, <1>5
  <1>6. ASSUME NEW i \in 0..m PROVE v[i] \in {NoFrame, w[g[i]]}
    <2>1. CASE i = 0
      BY <1>2, <1>3, <1>4, <2>1
    <2>2. CASE i \in 1..Len(line)
      BY <1>1, <1>2, <1>3, <1>4, <2>2
    <2>3. CASE i = m
      BY <1>1, <1>2, <1>3, <1>4, <2>3
    <2>4. CASE i \in n..Len(new)
      <3>1. v[i] \in {NoFrame, f} /\ g[i] = n
        BY <1>1, <1>2, <1>3, <1>4, <2>4
      <3> QED BY <1>3, <3>1
    <2> QED BY <1>2, <2>1, <2>2, <2>3, <2>4
  <1> QED
    BY <1>3, <1>4, <1>5, <1>6 DEF Embeds, v, w, new

\* The parser takes a byte from the line.
LEMMA ReadWay ==
    ASSUME NEW F, NEW line \in Line(F), line # <<>>,
           NEW of, NEW of2 \in {NoFrame, of, line[1].of}, NEW s
    PROVE  Embeds(Way(of2, Tail(line), s), Way(of, line, s))
  <1> DEFINE new == Tail(line)
  <1>1. /\ new \in Line(F) /\ Len(new) = Len(line) - 1 /\ Len(line) >= 1
        /\ \A i \in 1..Len(new) : new[i] = line[i + 1]
    BY TailIsThinned
  <1> HIDE DEF new
  <1>2. Len(line) \in Nat /\ Len(new) \in Nat
    BY <1>1 DEF Line
  <1> DEFINE m == Len(new) + 1
             n == Len(line) + 1
             v == Way(of2, new, s)
             w == Way(of, line, s)
             g == [i \in 0..m |-> IF i = 0 THEN IF of2 = of THEN 0 ELSE 1 ELSE i + 1]
  <1>3. /\ DOMAIN v = 0..m /\ DOMAIN w = 0..n
        /\ v[0] = of2 /\ w[0] = of /\ v[m] = s /\ w[n] = s
        /\ \A i \in 1..Len(new) : v[i] = new[i].of
        /\ \A i \in 1..Len(line) : w[i] = line[i].of
    BY <1>2 DEF Way
  <1>4. /\ g \in [0..m -> 0..n] /\ g[0] \in {0, 1}
        /\ (of2 = of => g[0] = 0) /\ (of2 # of => g[0] = 1)
        /\ \A i \in 1..m : g[i] = i + 1
    BY <1>1, <1>2
  <1> HIDE DEF g, v, w
  <1>5. ASSUME NEW i \in 0..m, NEW j \in 0..m, i <= j PROVE g[i] <= g[j]
    <2>1. \A k \in 0..m : k = 0 \/ k \in 1..m
      BY <1>2
    <2> QED BY <1>2, <1>4, <1>5, <2>1
  <1>6. ASSUME NEW i \in 0..m PROVE v[i] \in {NoFrame, w[g[i]]}
    <2>1. CASE i = 0
      <3>1. 1 \in 1..Len(line)
        BY <1>1, <1>2
      <3> QED BY <1>3, <1>4, <2>1, <3>1
    <2>2. CASE i \in 1..Len(new)
      <3>1. i + 1 \in 1..Len(line) /\ i \in 1..m
        BY <1>1, <1>2, <2>2
      <3>2. v[i] = new[i].of /\ new[i] = line[i + 1] /\ g[i] = i + 1
        BY <1>1, <1>3, <1>4, <2>2, <3>1
      <3> QED BY <1>3, <3>1, <3>2
    <2>3. CASE i = m
      <3>1. m \in 1..m /\ m + 1 = n
        BY <1>1, <1>2
      <3> QED BY <1>3, <1>4, <2>3, <3>1
    <2> QED BY <1>2, <2>1, <2>2, <2>3
  <1> QED
    BY <1>3, <1>4, <1>5, <1>6 DEF Embeds, v, w, new

\* A number nothing on the way has is started.
LEMMA StartOrdered ==
    ASSUME NEW F, NEW line \in Line(F), NEW of, NEW f, NEW last, NEW started,
           Ordered(Way(of, line, NoFrame), last, started),
           of # NoFrame => of.seq # f.seq,
           \A i \in DOMAIN line : line[i].of # NoFrame => line[i].of.seq # f.seq
    PROVE  Ordered(Way(of, line, f), last, started \cup {f.seq})
  <1> DEFINE n == Len(line) + 1
             v == Way(of, line, f)
             w == Way(of, line, NoFrame)
  <1>1. Len(line) \in Nat /\ DOMAIN line = 1..Len(line)
    BY DEF Line
  <1>2. /\ DOMAIN v = 0..n /\ DOMAIN w = 0..n /\ v[n] = f
        /\ \A i \in 0..(n - 1) : v[i] = w[i] /\ (v[i] # NoFrame => v[i].seq # f.seq)
    BY <1>1 DEF Way
  <1> HIDE DEF v, w
  <1>3. \A i \in 0..n : i = n \/ i \in 0..(n - 1)
    BY <1>1
  <1>4. ASSUME NEW i \in 0..n, NEW j \in 0..n, j <= i, v[i] # NoFrame, v[j] # NoFrame,
               v[i].seq \notin started \cup {f.seq}
        PROVE  v[j].seq = last
    <2>1. i # n
      BY <1>2, <1>4
    <2>2. j # n
      BY <1>1, <1>4, <2>1
    <2> QED BY <1>2, <1>3, <1>4, <2>1, <2>2 DEF Ordered, w
  <1>5. ASSUME NEW i \in 0..n, NEW j \in 0..n, NEW k \in 0..n, i <= j, j <= k,
               v[i] # NoFrame, v[j] # NoFrame, v[k] # NoFrame, v[i].seq = v[k].seq
        PROVE  v[j].seq = v[i].seq
    <2>1. CASE k = n
      <3>1. i = n
        BY <1>2, <1>3, <1>5, <2>1
      <3>2. j = n
        BY <1>1, <1>5, <3>1
      <3> QED BY <3>1, <3>2
    <2>2. CASE k # n
      <3>1. i # n /\ j # n
        BY <1>1, <1>5, <2>2
      <3> QED BY <1>2, <1>3, <1>5, <2>2, <3>1 DEF Ordered, w
    <2> QED BY <2>1, <2>2
  <1> QED
    BY <1>2, <1>4, <1>5 DEF Ordered, v

\* The frame in the parser is delivered.
LEMMA DeliverOrdered ==
    ASSUME NEW line, Len(line) \in Nat, NEW of, of # NoFrame, NEW s, NEW last, of.seq # last,
           NEW started, Ordered(Way(of, line, s), last, started)
    PROVE  of.seq \in started /\ Ordered(Way(of, line, s), of.seq, started \ {of.seq})
  <1> DEFINE w == Way(of, line, s)
             n == Len(line) + 1
  <1>1. DOMAIN w = 0..n /\ w[0] = of /\ 0 \in 0..n /\ \A i \in 0..n : 0 <= i
    BY DEF Way
  <1> HIDE DEF w, n
  <1>2. \A i \in 0..n : w[i] # NoFrame => w[i].seq \in started
    BY <1>1 DEF Ordered, w
  <1>3. ASSUME NEW i \in 0..n, NEW j \in 0..n, j <= i, w[i] # NoFrame, w[j] # NoFrame,
               w[i].seq \notin started \ {of.seq}
        PROVE  w[j].seq = of.seq
    <2>1. w[i].seq = of.seq
      BY <1>2, <1>3
    <2> QED BY <1>1, <1>3, <2>1 DEF Ordered, w
  <1> QED
    BY <1>1, <1>2, <1>3 DEF Ordered, w

-----------------------------------------------------------------------------
(* The inductive invariant.                                                *)

ValidCmds == {c \in Byte : CmdIsValid(c)}

Senders == [pc : {"RX", "SCAN"}, waiting : BOOLEAN, seq : Numbers, cmd : Cmds,
            retries : 0..RetryLimit, aged : BOOLEAN, next : Numbers,
            queued : Cmds \cup {FORCE}, parser : Seq(Byte), of : AckFrames \cup {NoFrame}]

Receivers == [parser : Seq(Byte), of : DataFrames \cup {NoFrame}, last : Byte \cup {None},
              mailbox : ValidCmds \cup {None}, taken : ValidCmds \cup {None}]

\* What holds whatever the line makes of the bytes.
WireOK ==
    /\ esp \in Senders
    /\ ecu \in Receivers
    /\ Len(esp.parser) <= 5 /\ Len(ecu.parser) <= 5
    /\ down \in Line(DataFrames) /\ Len(down) <= BufferSize
    /\ up \in Line(AckFrames) /\ Len(up) <= BufferSize
    /\ signal \in Cmds /\ fresh \subseteq Numbers /\ delivered \in BOOLEAN
    /\ excused \subseteq {"sent", "known", "emptied"}

\* What the ECU holds has been sent to it.
Meant ==
    /\ ecu.last \in Numbers \cup {None}
    /\ ecu.mailbox \in Cmds \cup {None} /\ ecu.taken \in Cmds \cup {None}

Sending(e) == IF e.waiting THEN Frame(DATA, e.seq, e.cmd) ELSE NoFrame

InOrder ==
    "sent" \notin excused => Ordered(Way(ecu.of, down, Sending(esp)), ecu.last, fresh)

\* Nothing answers a command that has not been delivered, now or later.
NotAnswered ==
    esp.waiting /\ ~delivered /\ "known" \notin excused
        => /\ ecu.last # esp.seq
           /\ \A f \in OnTheWay(esp, up) : f # NoFrame => f.seq # esp.seq

IInv == WireOK /\ Meant /\ InOrder /\ NotAnswered

LEMMA FrameFacts ==
    /\ \A type, seq, cmd : /\ Frame(type, seq, cmd).type = type
                           /\ Frame(type, seq, cmd).seq = seq
                           /\ Frame(type, seq, cmd).cmd = cmd
    /\ \A f \in DataFrames : /\ f # NoFrame /\ f.type = DATA /\ f.type \in Byte
                             /\ f.seq \in Numbers /\ f.seq \in Byte
                             /\ f.cmd \in Cmds /\ f.cmd \in Byte
    /\ \A f \in AckFrames : /\ f # NoFrame /\ f.type = ACK /\ f.type \in Byte
                            /\ f.seq \in Byte /\ f.cmd \in Byte
    /\ \A seq \in Numbers, cmd \in Cmds : Frame(DATA, seq, cmd) \in DataFrames
    /\ \A seq \in Byte : Frame(ACK, seq, 0) \in AckFrames
  <1>1. \A type, seq, cmd : /\ Frame(type, seq, cmd).type = type
                           /\ Frame(type, seq, cmd).seq = seq
                           /\ Frame(type, seq, cmd).cmd = cmd
    BY DEF Frame
  <1>2. DATA \in Byte /\ ACK \in Byte /\ 0 \in Byte /\ DATA # 0 /\ ACK # 0
    BY DEF DATA, ACK, Byte
  <1>3. NoFrame.type = 0
    BY <1>1 DEF NoFrame
  <1>4. ASSUME NEW f \in DataFrames
        PROVE  /\ f # NoFrame /\ f.type = DATA /\ f.type \in Byte
               /\ f.seq \in Numbers /\ f.seq \in Byte
               /\ f.cmd \in Cmds /\ f.cmd \in Byte
    <2>1. f.type = DATA /\ f.seq \in Numbers /\ f.cmd \in Cmds
      BY DEF DataFrames
    <2> QED BY <1>2, <1>3, <2>1, ConstantFacts
  <1>5. ASSUME NEW f \in AckFrames
        PROVE  /\ f # NoFrame /\ f.type = ACK /\ f.type \in Byte
               /\ f.seq \in Byte /\ f.cmd \in Byte
    <2>1. f.type = ACK /\ f.seq \in Byte /\ f.cmd = 0
      BY DEF AckFrames
    <2> QED BY <1>2, <1>3, <2>1
  <1>6. /\ \A seq \in Numbers, cmd \in Cmds : Frame(DATA, seq, cmd) \in DataFrames
        /\ \A seq \in Byte : Frame(ACK, seq, 0) \in AckFrames
    BY DEF Frame, DataFrames, AckFrames
  <1> QED
    BY <1>1, <1>4, <1>5, <1>6

\* What is not longer than a line fits into its buffer.
LEMMA ShorterFits ==
    ASSUME NEW F, NEW line \in Line(F), Len(line) <= BufferSize,
           NEW new \in Line(F), Len(new) <= Len(line)
    PROVE  Len(new) <= BufferSize
  <1>1. Len(line) \in Nat /\ Len(new) \in Nat /\ BufferSize \in Nat
    BY ConstantFacts DEF Line
  <1> QED
    BY <1>1

LEMMA FedFacts ==
    ASSUME NEW F, NEW u, u.parser \in Seq(Byte), Len(u.parser) <= 5, u.of \in F \cup {NoFrame},
           NEW line \in Line(F), line # <<>>
    PROVE  /\ ParserFeed(u.parser, line[1].b) \in Seq(Byte)
           /\ Len(ParserFeed(u.parser, line[1].b)) <= 5
           /\ Begun(u.parser, u.of, line[1]) \in F \cup {NoFrame}
  <1>1. line[1].b \in Byte /\ line[1].of \in F \cup {NoFrame}
    BY TailIsThinned
  <1> DEFINE p == u.parser
             b == line[1].b
  <1>2. p \in Seq(Byte) /\ Len(p) <= 5 /\ b \in Byte
    BY <1>1
  <1> HIDE DEF p, b
  <1>3. ParserFeed(p, b) \in Seq(Byte) /\ Len(ParserFeed(p, b)) <= 5
    BY <1>2, ParserFacts
  <1>4. Begun(u.parser, u.of, line[1]) \in {NoFrame, u.of, line[1].of}
    BY BegunFacts
  <1> QED
    BY <1>1, <1>3, <1>4 DEF p, b

LEMMA LineFacts ==
    ASSUME NEW F, NEW line \in Line(F), NEW i \in DOMAIN line
    PROVE  line[i].of \in F \cup {NoFrame}
  <1> DEFINE C == [b : Byte, of : F \cup {NoFrame}]
  <1>1. line \in Seq(C) /\ i \in 1..Len(line)
    BY DEF Line
  <1> HIDE DEF C
  <1>2. line[i] \in C
    BY <1>1, ElementOfSeq
  <1> QED
    BY <1>2 DEF C

LEMMA WireInit == Init => WireOK
  <1> SUFFICES ASSUME Init PROVE WireOK
    OBVIOUS
  <1>1. <<>> \in Seq(Byte) /\ Len(<<>>) = 0 /\ <<>> \in Line(DataFrames) /\ <<>> \in Line(AckFrames)
    BY DEF Line
  <1>2. esp \in Senders
    BY <1>1, ConstantFacts DEF Init, Idle, Senders
  <1>3. ecu \in Receivers
    BY <1>1 DEF Init, Fresh, Receivers
  <1>4. esp.parser = <<>> /\ ecu.parser = <<>> /\ down = <<>> /\ up = <<>>
    BY DEF Init, Idle, Fresh
  <1>5. signal \in Cmds /\ fresh \subseteq Numbers /\ delivered \in BOOLEAN /\ excused = {}
    BY ConstantFacts DEF Init
  <1>6. 0 <= BufferSize /\ 0 <= 5
    BY ConstantFacts
  <1> QED
    BY <1>1, <1>2, <1>3, <1>4, <1>5, <1>6 DEF WireOK

LEMMA WireStep == WireOK /\ [Next]_vars => WireOK'
  <1> SUFFICES ASSUME WireOK, [Next]_vars PROVE WireOK'
    OBVIOUS
  <1>e. /\ esp \in Senders /\ Len(esp.parser) <= 5
        /\ esp.parser \in Seq(Byte) /\ esp.of \in AckFrames \cup {NoFrame}
        /\ esp.seq \in Numbers /\ esp.next \in Numbers /\ esp.cmd \in Cmds
    BY DEF WireOK, Senders
  <1>u. /\ ecu \in Receivers /\ Len(ecu.parser) <= 5
        /\ ecu.parser \in Seq(Byte) /\ ecu.of \in DataFrames \cup {NoFrame}
    BY DEF WireOK, Receivers
  <1>l. /\ down \in Line(DataFrames) /\ Len(down) <= BufferSize
        /\ up \in Line(AckFrames) /\ Len(up) <= BufferSize
    BY DEF WireOK
  <1>r. /\ signal \in Cmds /\ fresh \subseteq Numbers /\ delivered \in BOOLEAN
        /\ excused \subseteq {"sent", "known", "emptied"}
    BY DEF WireOK
  <1>q. ASSUME esp' \in Senders, Len(esp'.parser) <= 5, ecu' \in Receivers, Len(ecu'.parser) <= 5,
               down' \in Line(DataFrames), Len(down') <= BufferSize,
               up' \in Line(AckFrames), Len(up') <= BufferSize,
               signal' \in Cmds, fresh' \subseteq Numbers, delivered' \in BOOLEAN,
               excused' \subseteq {"sent", "known", "emptied"}
        PROVE  WireOK'
    BY <1>q DEF WireOK
  <1>1. CASE ProcessRx
    <2> DEFINE p == ParserFeed(esp.parser, up[1].b)
               of == Begun(esp.parser, esp.of, up[1])
    <2>1. p \in Seq(Byte) /\ Len(p) <= 5 /\ of \in AckFrames \cup {NoFrame}
      BY <1>1, <1>e, <1>l, FedFacts DEF ProcessRx
    <2>2. PICK w \in BOOLEAN : esp' = [esp EXCEPT !.parser = p, !.of = of, !.waiting = w]
      BY <1>1, <1>e DEF ProcessRx, Fed
    <2> HIDE DEF p, of
    <2>3. esp' \in Senders /\ Len(esp'.parser) <= 5
      BY <1>e, <2>1, <2>2 DEF Senders
    <2>4. up' \in Line(AckFrames) /\ Len(up') <= BufferSize
      <3>1. Len(Tail(up)) <= Len(up) /\ Tail(up) \in Line(AckFrames) /\ up' = Tail(up)
        <4>1. Len(up) \in Nat
          BY <1>l DEF Line
        <4> QED BY <1>1, <1>l, <4>1, TailIsThinned DEF ProcessRx
      <3> QED BY <1>l, <3>1, ShorterFits
    <2> QED BY <1>1, <1>q, <1>u, <1>l, <1>r, <2>3, <2>4 DEF ProcessRx
  <1>2. CASE PollRetry
    <2> DEFINE e == [esp EXCEPT !.pc = "SCAN"]
    <2>1. /\ e \in Senders /\ e.parser = esp.parser /\ e.seq = esp.seq /\ e.cmd = esp.cmd
          /\ e.retries \in 0..RetryLimit
      BY <1>e DEF Senders
    <2>2. CASE Resend(e)
      <3>1. esp' = [e EXCEPT !.retries = @ + 1, !.aged = FALSE] /\ e.retries + 1 \in 0..RetryLimit
        BY <2>1, <2>2, ConstantFacts DEF Resend
      <3>2. esp' \in Senders /\ esp'.parser = esp.parser
        BY <2>1, <3>1 DEF Senders
      <3>3. down' = Write(down, Frame(DATA, esp.seq, esp.cmd))
        BY <2>1, <2>2 DEF Resend
      <3>4. down' \in Line(DataFrames) /\ Len(down') <= BufferSize
        BY <1>e, <1>l, <3>3, FrameFacts, WriteFacts
      <3> QED BY <1>2, <1>e, <1>q, <1>u, <1>l, <1>r, <3>2, <3>4 DEF PollRetry
    <2>3. CASE GiveUp(e) \/ NothingDue(e)
      <3>1. esp' \in Senders /\ esp'.parser = esp.parser /\ down' = down
        BY <2>1, <2>3 DEF GiveUp, NothingDue, Senders
      <3> QED BY <1>2, <1>e, <1>q, <1>u, <1>l, <1>r, <3>1 DEF PollRetry
    <2> QED BY <1>2, <2>2, <2>3 DEF PollRetry
  <1>3. ASSUME NEW c \in Cmds, ScanAndSend(c) PROVE WireOK'
    <2> DEFINE e == [esp EXCEPT !.pc = "RX", !.aged = TRUE]
    <2>1. e \in Senders /\ e.parser = esp.parser /\ e.next = esp.next
      BY <1>e DEF Senders
    <2>2. signal' = c /\ ecu' = ecu /\ up' = up
      BY <1>3 DEF ScanAndSend, Detect
    <2>3. CASE MaySend(e, c)
      <3>1. /\ esp' = SenderStart(e, c) /\ down' = Write(down, Frame(DATA, e.next, c))
            /\ fresh' = fresh \cup {e.next} /\ delivered' = FALSE
            /\ excused' = excused \cup Mistakable(e.next)
        BY <1>3, <2>3 DEF ScanAndSend
      <3>2. esp' \in Senders /\ esp'.parser = esp.parser
        <4>1. (e.next + 1) % SeqSize \in Numbers /\ e.next \in Numbers /\ 0 \in 0..RetryLimit
          BY <1>e, <2>1, ConstantFacts
        <4>2. esp' = [e EXCEPT !.waiting = TRUE, !.seq = e.next, !.cmd = c, !.retries = 0,
                        !.aged = FALSE, !.next = (e.next + 1) % SeqSize, !.queued = c]
          BY <2>1, <3>1 DEF SenderStart
        <4> HIDE DEF e
        <4> QED BY <2>1, <4>1, <4>2 DEF Senders
      <3>3. down' \in Line(DataFrames) /\ Len(down') <= BufferSize
        BY <1>e, <1>l, <2>1, <3>1, FrameFacts, WriteFacts
      <3>4. fresh' \subseteq Numbers /\ excused' \subseteq {"sent", "known", "emptied"}
        BY <1>e, <1>r, <2>1, <3>1 DEF Mistakable
      <3> QED BY <1>e, <1>q, <1>u, <1>l, <2>2, <3>1, <3>2, <3>3, <3>4
    <2>4. CASE ~MaySend(e, c)
      <3>1. esp' = e /\ UNCHANGED <<down, fresh, delivered, excused>>
        BY <1>3, <2>4 DEF ScanAndSend
      <3> QED BY <1>e, <1>q, <1>u, <1>l, <1>r, <2>1, <2>2, <3>1
    <2> QED BY <2>3, <2>4
  <1>4. CASE EspRestart
    <2>1. esp' \in Senders /\ Len(esp'.parser) <= 5
      <3>1. <<>> \in Seq(Byte) /\ Len(<<>>) = 0
        OBVIOUS
      <3> QED BY <1>4, <3>1, ConstantFacts DEF EspRestart, Idle, Senders
    <2>2. up' \in Line(AckFrames) /\ Len(up') <= BufferSize
      BY <1>4, <1>l, LeftByIsThinned, ShorterFits DEF EspRestart
    <2> QED BY <1>4, <1>q, <1>u, <1>l, <1>r, <2>1, <2>2 DEF EspRestart
  <1>5. CASE EcuPoll
    <2> DEFINE p == ParserFeed(ecu.parser, down[1].b)
               of == Begun(ecu.parser, ecu.of, down[1])
               f == FrameIn(ecu.parser)
    <2>1. p \in Seq(Byte) /\ Len(p) <= 5 /\ of \in DataFrames \cup {NoFrame} /\ down[1].b \in Byte
      BY <1>5, <1>u, <1>l, FedFacts, TailIsThinned DEF EcuPoll
    <2>2. down' \in Line(DataFrames) /\ Len(down') <= BufferSize
      <3>1. Len(Tail(down)) <= Len(down) /\ Tail(down) \in Line(DataFrames) /\ down' = Tail(down)
        <4>1. Len(down) \in Nat
          BY <1>l DEF Line
        <4> QED BY <1>5, <1>l, <4>1, TailIsThinned DEF EcuPoll
      <3> QED BY <1>l, <3>1, ShorterFits
    <2>3. CASE Parsed(ecu.parser, down[1].b) /\ Accepted(f)
      <3>1. f.seq \in Byte /\ f.cmd \in ValidCmds
        BY <1>u, <2>1, <2>3, FrameInFacts DEF Accepted, ValidCmds
      <3>2. /\ ecu' = ReceiverOnFrame(Fed(ecu, down), f)
            /\ up' = Write(up, Frame(ACK, f.seq, 0))
            /\ fresh' \subseteq fresh
            /\ delivered' = (delivered \/ esp.seq \in {f.seq} \ {ecu.last})
        BY <1>5, <2>3 DEF EcuPoll
      <3>3. Fed(ecu, down) \in Receivers /\ Fed(ecu, down).parser = p
        <4> HIDE DEF p, of
        <4>1. Fed(ecu, down) = [ecu EXCEPT !.parser = p, !.of = of]
          BY DEF Fed, p, of
        <4> QED BY <1>u, <2>1, <4>1 DEF Receivers
      <3> HIDE DEF f, p
      <3>4. ecu' \in Receivers /\ ecu'.parser = p
        BY <3>1, <3>2, <3>3 DEF ReceiverOnFrame, Deliver, Receivers
      <3>5. up' \in Line(AckFrames) /\ Len(up') <= BufferSize
        BY <1>l, <3>1, <3>2, FrameFacts, WriteFacts
      <3>6. UNCHANGED <<esp, signal, excused>>
        BY <1>5 DEF EcuPoll
      <3> QED BY <1>e, <1>q, <1>r, <2>1, <2>2, <3>2, <3>4, <3>5, <3>6
    <2>4. CASE ~(Parsed(ecu.parser, down[1].b) /\ Accepted(f))
      <3>1. ecu' = Fed(ecu, down) /\ UNCHANGED <<esp, up, fresh, delivered, signal, excused>>
        BY <1>5, <2>4 DEF EcuPoll
      <3> HIDE DEF p, of
      <3>2. ecu' = [ecu EXCEPT !.parser = p, !.of = of]
        BY <3>1 DEF Fed, p, of
      <3>3. ecu' \in Receivers /\ Len(ecu'.parser) <= 5
        BY <1>u, <2>1, <3>2 DEF Receivers
      <3> QED BY <1>e, <1>q, <1>l, <1>r, <2>2, <3>1, <3>3
    <2> QED BY <2>3, <2>4
  <1>6. CASE ConsumeCmd
    <2>1. ecu' \in Receivers /\ Len(ecu'.parser) <= 5
      BY <1>6, <1>u DEF ConsumeCmd, Receivers
    <2> QED BY <1>6, <1>e, <1>q, <1>l, <1>r, <2>1 DEF ConsumeCmd
  <1>7. CASE EcuRestart
    <2>1. ecu' \in Receivers /\ Len(ecu'.parser) <= 5
      <3>1. <<>> \in Seq(Byte) /\ Len(<<>>) = 0
        OBVIOUS
      <3>2. ecu.taken \in ValidCmds \cup {None}
        BY <1>u DEF Receivers
      <3>3. ecu' = [parser |-> <<>>, of |-> NoFrame, last |-> None, mailbox |-> None,
                    taken |-> ecu.taken]
        BY <1>7 DEF EcuRestart, Fresh
      <3> QED BY <3>1, <3>2, <3>3 DEF Receivers
    <2>2. down' \in Line(DataFrames) /\ Len(down') <= BufferSize
      BY <1>7, <1>l, LeftByIsThinned, ShorterFits DEF EcuRestart
    <2>3. fresh' \subseteq Numbers /\ excused' \subseteq {"sent", "known", "emptied"}
      BY <1>7, <1>r DEF EcuRestart
    <2> QED BY <1>7, <1>e, <1>q, <1>l, <1>r, <2>1, <2>2, <2>3 DEF EcuRestart
  <1>8. CASE Noise
    <2>1. down' \in Line(DataFrames) /\ Len(down') <= BufferSize
      BY <1>8, <1>l, DamagedIsThinned, ShorterFits DEF Noise
    <2>2. up' \in Line(AckFrames) /\ Len(up') <= BufferSize
      BY <1>8, <1>l, DamagedIsThinned, ShorterFits DEF Noise
    <2> QED BY <1>8, <1>e, <1>q, <1>u, <1>r, <2>1, <2>2 DEF Noise
  <1>9. CASE UNCHANGED vars
    BY <1>9, <1>e, <1>q, <1>u, <1>l, <1>r DEF vars
  <1> QED
    BY <1>1, <1>2, <1>3, <1>4, <1>5, <1>6, <1>7, <1>8, <1>9 DEF Next

(* Whatever the line makes of the bytes, the frames and the numbers, the   *)
(* mailbox that the control loop empties holds a command of two requests   *)
(* that exist: bleUartReceiverOnFrame lets no other pass.                  *)
THEOREM OnlyValidCommands == Spec => [](ecu.mailbox # None => CmdIsValid(ecu.mailbox))
  <1>1. WireOK => (ecu.mailbox # None => CmdIsValid(ecu.mailbox))
    BY DEF WireOK, ValidCmds, Receivers
  <1> QED
    BY <1>1, WireInit, WireStep, PTL DEF Spec

-----------------------------------------------------------------------------
(* What follows when the ends take genuine frames only.                    *)

LEMMA EcuTakesGenuine ==
    ASSUME WireOK, Genuine, down # <<>>, Parsed(ecu.parser, down[1].b)
    PROVE  ecu.of = FrameIn(ecu.parser) /\ ecu.of \in DataFrames
  <1>1. ecu.of = FrameIn(ecu.parser)
    BY DEF Genuine
  <1>2. down[1].b \in Byte /\ ecu.parser \in Seq(Byte) /\ ecu.of \in DataFrames \cup {NoFrame}
    BY TailIsThinned DEF WireOK, Receivers
  <1>3. FrameIn(ecu.parser).type = ecu.parser[3]
    BY <1>2, FrameInFacts
  <1>4. ecu.parser[3] # 0
    BY DEF Parsed, DATA, ACK
  <1>5. NoFrame.type = 0
    BY FrameFacts DEF NoFrame
  <1> QED
    BY <1>1, <1>2, <1>3, <1>4, <1>5

\* The acknowledgement that ends a wait was under way for its number.
LEMMA EspTakesGenuine ==
    ASSUME Genuine, up # <<>>, Parsed(esp.parser, up[1].b),
           SenderOnFrame(esp, FrameIn(esp.parser))
    PROVE  esp.of # NoFrame /\ esp.of.seq = esp.seq
  <1>1. esp.of = FrameIn(esp.parser)
    BY DEF Genuine
  <1>2. esp.of.type = ACK /\ esp.of.seq = esp.seq
    BY <1>1 DEF SenderOnFrame
  <1>3. NoFrame.type = 0 /\ ACK # 0
    BY FrameFacts DEF NoFrame, ACK
  <1> QED
    BY <1>2, <1>3

LEMMA MeantStep == WireOK /\ Genuine /\ Meant /\ [Next]_vars => Meant'
  <1> SUFFICES ASSUME WireOK, Genuine, Meant, [Next]_vars PROVE Meant'
    OBVIOUS
  <1>1. ASSUME ecu' = ecu PROVE Meant'
    BY <1>1 DEF Meant
  <1>2. CASE EcuPoll
    <2> DEFINE f == FrameIn(ecu.parser)
               u == Fed(ecu, down)
    <2>1. u.last = ecu.last /\ u.mailbox = ecu.mailbox /\ u.taken = ecu.taken
      BY DEF Fed, WireOK
    <2>2. CASE Parsed(ecu.parser, down[1].b) /\ Accepted(f)
      <3>1. f.seq \in Numbers /\ f.cmd \in Cmds
        BY <1>2, <2>2, EcuTakesGenuine, FrameFacts DEF EcuPoll
      <3>2. ecu' = ReceiverOnFrame(u, f)
        BY <1>2, <2>2 DEF EcuPoll
      <3>3. u \in [parser : {u.parser}, of : {u.of}, last : {u.last},
                   mailbox : {u.mailbox}, taken : {u.taken}]
        BY DEF Fed, WireOK, Receivers
      <3> HIDE DEF u, f
      <3>4. CASE f.seq # u.last
        <4>1. ecu' = [u EXCEPT !.last = f.seq, !.mailbox = f.cmd]
          BY <3>2, <3>4 DEF ReceiverOnFrame, Deliver
        <4>2. ecu'.last = f.seq /\ ecu'.mailbox = f.cmd /\ ecu'.taken = u.taken
          BY <3>3, <4>1
        <4> QED BY <2>1, <3>1, <4>2 DEF Meant
      <3>5. CASE f.seq = u.last
        <4>1. ecu' = u
          BY <3>2, <3>5 DEF ReceiverOnFrame
        <4> QED BY <2>1, <4>1 DEF Meant
      <3> QED BY <3>4, <3>5
    <2>3. CASE ~(Parsed(ecu.parser, down[1].b) /\ Accepted(f))
      <3>1. ecu' = u
        BY <1>2, <2>3 DEF EcuPoll
      <3> HIDE DEF u
      <3> QED BY <2>1, <3>1 DEF Meant
    <2> QED BY <2>2, <2>3
  <1>3. CASE ConsumeCmd
    <2>1. ecu'.last = ecu.last /\ ecu'.mailbox = None /\ ecu'.taken = ecu.mailbox
      BY <1>3 DEF ConsumeCmd, WireOK
    <2> QED BY <2>1 DEF Meant
  <1>4. CASE EcuRestart
    <2>1. ecu'.last = None /\ ecu'.mailbox = None /\ ecu'.taken = ecu.taken
      BY <1>4 DEF EcuRestart, Fresh
    <2> QED BY <2>1 DEF Meant
  <1> QED
    BY <1>1, <1>2, <1>3, <1>4
       DEF Next, vars, ProcessRx, PollRetry, ScanAndSend, EspRestart, Noise

-----------------------------------------------------------------------------
(* Each step keeps the order of the frames.                                *)

LEMMA StartFields ==
    ASSUME NEW u \in Senders, NEW c
    PROVE  LET e == SenderStart([u EXCEPT !.pc = "RX", !.aged = TRUE], c)
           IN e.waiting /\ e.seq = u.next /\ e.cmd = c /\ e.of = u.of
  <1> DEFINE v == [u EXCEPT !.pc = "RX", !.aged = TRUE]
  <1>1. v \in Senders /\ v.next = u.next /\ v.of = u.of
    BY DEF Senders
  <1> HIDE DEF v
  <1>2. SenderStart(v, c).waiting /\ SenderStart(v, c).seq = v.next
    BY <1>1 DEF SenderStart, Senders
  <1>3. SenderStart(v, c).cmd = c /\ SenderStart(v, c).of = v.of
    BY <1>1 DEF SenderStart, Senders
  <1> QED
    BY <1>1, <1>2, <1>3 DEF v

LEMMA SendingFacts ==
    ASSUME WireOK
    PROVE  /\ Sending(esp) \in DataFrames \cup {NoFrame}
           /\ esp.waiting => /\ Sending(esp) = Frame(DATA, esp.seq, esp.cmd)
                             /\ Sending(esp) \in DataFrames
  <1>1. esp.seq \in Numbers /\ esp.cmd \in Cmds /\ esp.waiting \in BOOLEAN
    BY DEF WireOK, Senders
  <1>2. Frame(DATA, esp.seq, esp.cmd) \in DataFrames
    BY <1>1, FrameFacts
  <1> QED
    BY <1>1, <1>2 DEF Sending

\* Lines get shorter and frames are given up.
LEMMA ThinnedInOrder ==
    ASSUME WireOK, WireOK', InOrder, excused \subseteq excused',
           Thinned(down', down), ecu'.of \in {NoFrame, ecu.of},
           Sending(esp') \in {NoFrame, Sending(esp)},
           ecu'.last = ecu.last, fresh' = fresh
    PROVE  InOrder'
  <1>1. down \in Line(DataFrames) /\ down' \in Line(DataFrames)
    BY DEF WireOK
  <1>2. Embeds(Way(ecu'.of, down', Sending(esp')), Way(ecu.of, down, Sending(esp)))
    BY <1>1, ThinnedWay
  <1>3. ASSUME "sent" \notin excused'
        PROVE  Ordered(Way(ecu'.of, down', Sending(esp')), ecu'.last, fresh')
    <2>1. Ordered(Way(ecu.of, down, Sending(esp)), ecu.last, fresh)
      BY <1>3 DEF InOrder
    <2> QED BY <1>2, <2>1, EmbeddedIsOrdered
  <1> QED
    BY <1>3 DEF InOrder

\* What the way of an ECU that starts again holds are frames of all numbers.
LEMMA RestartOrdered ==
    ASSUME NEW line \in Line(DataFrames), NEW s \in DataFrames \cup {NoFrame},
           NEW of \in DataFrames \cup {NoFrame}, NEW last, NEW started, NEW new,
           Ordered(Way(of, line, s), last, started)
    PROVE  Ordered(Way(of, line, s), new, Numbers)
  <1> DEFINE w == Way(of, line, s)
  <1>1. Len(line) \in Nat /\ DOMAIN line = 1..Len(line)
    BY DEF Line
  <1>2. ASSUME NEW i \in DOMAIN w, w[i] # NoFrame PROVE w[i].seq \in Numbers
    <2>1. /\ i \in 0..(Len(line) + 1)
          /\ w[i] = IF i = 0 THEN of ELSE IF i <= Len(line) THEN line[i].of ELSE s
      BY DEF Way
    <2>2. \A j \in DOMAIN line : line[j].of \in DataFrames \cup {NoFrame}
      BY LineFacts
    <2>3. w[i] \in DataFrames \cup {NoFrame}
      <3>1. CASE i = 0
        BY <2>1, <3>1
      <3>2. CASE i # 0 /\ i <= Len(line)
        <4>1. i \in DOMAIN line
          BY <1>1, <2>1, <3>2
        <4>2. w[i] = line[i].of
          BY <2>1, <3>2
        <4> QED BY <2>2, <4>1, <4>2
      <3>3. CASE i # 0 /\ ~(i <= Len(line))
        BY <2>1, <3>3
      <3> QED BY <3>1, <3>2, <3>3
    <2> HIDE DEF w
    <2> QED BY <1>2, <2>3, FrameFacts
  <1> HIDE DEF w
  <1> QED
    BY <1>2 DEF Ordered, w

LEMMA OrderStep == WireOK /\ WireOK' /\ Genuine /\ InOrder /\ [Next]_vars => InOrder'
  <1> SUFFICES ASSUME WireOK, WireOK', Genuine, InOrder, [Next]_vars PROVE InOrder'
    OBVIOUS
  <1>d. /\ down \in Line(DataFrames) /\ Len(down) <= BufferSize
        /\ ecu.of \in DataFrames \cup {NoFrame}
    BY DEF WireOK, Receivers
  <1>t. Thinned(down, down)
    BY <1>d, UnchangedIsThinned
  <1>w. /\ Sending(esp) \in DataFrames \cup {NoFrame}
        /\ esp.waiting => /\ Sending(esp) = Frame(DATA, esp.seq, esp.cmd)
                          /\ Sending(esp) \in DataFrames
    BY SendingFacts
  <1>o. ASSUME "sent" \notin excused
        PROVE  Ordered(Way(ecu.of, down, Sending(esp)), ecu.last, fresh)
    BY <1>o DEF InOrder
  <1>1. CASE ProcessRx
    <2>1. esp'.seq = esp.seq /\ esp'.cmd = esp.cmd /\ (esp'.waiting => esp.waiting)
      <3>1. PICK w : esp' = [Fed(esp, up) EXCEPT !.waiting = @ /\ ~w]
        BY <1>1 DEF ProcessRx
      <3> QED BY <3>1 DEF Fed, WireOK, Senders
    <2>2. Sending(esp') \in {NoFrame, Sending(esp)}
      BY <2>1 DEF Sending
    <2> QED BY <1>1, <1>t, <2>2, ThinnedInOrder DEF ProcessRx
  <1>2. CASE PollRetry
    <2> DEFINE e == [esp EXCEPT !.pc = "SCAN"]
    <2>1. /\ e.waiting = esp.waiting /\ e.seq = esp.seq /\ e.cmd = esp.cmd
          /\ UNCHANGED <<ecu, fresh, excused>>
      BY <1>2 DEF PollRetry, WireOK
    <2>2. CASE Resend(e)
      <3> DEFINE f == Frame(DATA, esp.seq, esp.cmd)
      <3>1. esp'.waiting /\ esp'.seq = esp.seq /\ esp'.cmd = esp.cmd /\ esp.waiting
        BY <2>1, <2>2 DEF Resend, WireOK
      <3>2. Sending(esp) = f /\ f \in DataFrames
        BY <1>w, <3>1
      <3>3. Sending(esp') = f
        BY <3>1 DEF Sending
      <3>4. down' = Write(down, f)
        BY <2>1, <2>2 DEF Resend
      <3> HIDE DEF f
      <3>5. f.type \in Byte /\ f.seq \in Byte /\ f.cmd \in Byte
        BY <3>2, FrameFacts
      <3>6. Embeds(Way(ecu.of, down', f), Way(ecu.of, down, f))
        BY <1>d, <3>2, <3>4, <3>5, WrittenWay
      <3>7. ASSUME "sent" \notin excused
            PROVE  Ordered(Way(ecu.of, down', f), ecu.last, fresh)
        BY <1>o, <3>2, <3>6, <3>7, EmbeddedIsOrdered
      <3> QED BY <2>1, <3>3, <3>7 DEF InOrder
    <2>3. CASE GiveUp(e) \/ NothingDue(e)
      <3>1. /\ esp'.seq = esp.seq /\ esp'.cmd = esp.cmd /\ (esp'.waiting => esp.waiting)
            /\ down' = down
        <4>1. e \in Senders
          BY DEF WireOK, Senders
        <4> HIDE DEF e
        <4> QED BY <2>1, <2>3, <4>1 DEF GiveUp, NothingDue, Senders
      <3>2. Sending(esp') \in {NoFrame, Sending(esp)}
        BY <3>1 DEF Sending
      <3> QED BY <1>t, <2>1, <3>1, <3>2, ThinnedInOrder
    <2> QED BY <1>2, <2>2, <2>3 DEF PollRetry
  <1>3. ASSUME NEW c \in Cmds, ScanAndSend(c) PROVE InOrder'
    <2> DEFINE e == [esp EXCEPT !.pc = "RX", !.aged = TRUE]
    <2>1. /\ e.waiting = esp.waiting /\ e.seq = esp.seq /\ e.cmd = esp.cmd /\ e.next = esp.next
          /\ esp.next \in Numbers /\ ecu' = ecu
      BY <1>3 DEF ScanAndSend, WireOK, Senders
    <2>2. CASE MaySend(e, c)
      <3> DEFINE f == Frame(DATA, esp.next, c)
      <3>1. /\ ~esp.waiting /\ esp' = SenderStart(e, c) /\ down' = Write(down, f)
            /\ fresh' = fresh \cup {esp.next}
            /\ excused' = excused \cup Mistakable(esp.next)
        BY <1>3, <2>1, <2>2 DEF ScanAndSend, MaySend
      <3>2. esp'.waiting /\ esp'.seq = esp.next /\ esp'.cmd = c
        BY <2>1, <3>1, StartFields, Zenon DEF WireOK
      <3>3. Sending(esp) = NoFrame /\ Sending(esp') = f
        BY <3>1, <3>2 DEF Sending
      <3>4. f \in DataFrames /\ f.type \in Byte /\ f.seq \in Byte /\ f.cmd \in Byte /\ f.seq = esp.next
        BY <2>1, FrameFacts
      <3> HIDE DEF f
      <3>5. ASSUME "sent" \notin excused'
            PROVE  Ordered(Way(ecu.of, down', f), ecu.last, fresh')
        <4>1. esp.next \notin NumbersOf(OnTheWay(ecu, down)) /\ "sent" \notin excused
          BY <3>1, <3>5 DEF Mistakable
        <4>2. /\ ecu.of # NoFrame => ecu.of.seq # f.seq
              /\ \A i \in DOMAIN down : down[i].of # NoFrame => down[i].of.seq # f.seq
          BY <3>4, <4>1 DEF NumbersOf, OnTheWay
        <4>3. Ordered(Way(ecu.of, down, NoFrame), ecu.last, fresh)
          BY <1>o, <3>3, <4>1
        <4>4. Ordered(Way(ecu.of, down, f), ecu.last, fresh \cup {f.seq})
          BY <1>d, <4>2, <4>3, StartOrdered
        <4>5. Embeds(Way(ecu.of, down', f), Way(ecu.of, down, f))
          BY <1>d, <3>1, <3>4, WrittenWay
        <4> QED BY <3>1, <3>4, <4>4, <4>5, EmbeddedIsOrdered
      <3> QED BY <2>1, <3>3, <3>5 DEF InOrder
    <2>3. CASE ~MaySend(e, c)
      <3>1. esp' = e /\ UNCHANGED <<down, fresh, excused>>
        BY <1>3, <2>3 DEF ScanAndSend
      <3>2. Sending(esp') \in {NoFrame, Sending(esp)}
        <4>1. esp'.waiting = esp.waiting /\ esp'.seq = esp.seq /\ esp'.cmd = esp.cmd
          BY <2>1, <3>1
        <4> QED BY <4>1 DEF Sending
      <3> QED BY <1>t, <2>1, <3>1, <3>2, ThinnedInOrder
    <2> QED BY <2>2, <2>3
  <1>4. CASE EspRestart
    <2>1. ~esp'.waiting /\ UNCHANGED <<ecu, down, fresh, excused>>
      BY <1>4 DEF EspRestart, Idle
    <2> QED BY <1>t, <2>1, ThinnedInOrder DEF Sending
  <1>5. CASE EcuPoll
    <2> DEFINE f == FrameIn(ecu.parser)
               of2 == Begun(ecu.parser, ecu.of, down[1])
               u == Fed(ecu, down)
    <2>1. down # <<>> /\ down' = Tail(down) /\ esp' = esp /\ excused' = excused
      BY <1>5 DEF EcuPoll
    <2>2. u.last = ecu.last /\ u.of = of2
      BY DEF Fed, WireOK
    <2>3. of2 \in {NoFrame, ecu.of, down[1].of}
      BY BegunFacts
    <2> HIDE DEF of2
    <2>4. Embeds(Way(of2, Tail(down), Sending(esp)), Way(ecu.of, down, Sending(esp)))
      BY <1>d, <2>1, <2>3, ReadWay
    <2>5. ASSUME ecu'.last = ecu.last, ecu'.of = of2, fresh' = fresh PROVE InOrder'
      <3>1. ASSUME "sent" \notin excused
            PROVE  Ordered(Way(of2, Tail(down), Sending(esp)), ecu.last, fresh)
        BY <1>o, <2>4, <3>1, EmbeddedIsOrdered
      <3> QED BY <2>1, <2>5, <3>1 DEF InOrder
    <2>6. CASE Parsed(ecu.parser, down[1].b) /\ Accepted(f)
      <3>1. /\ ecu' = ReceiverOnFrame(u, f) /\ fresh' = fresh \ ({f.seq} \ {ecu.last})
            /\ ecu.of = f /\ ecu.of \in DataFrames
        BY <1>5, <2>6, EcuTakesGenuine DEF EcuPoll
      <3>2. CASE f.seq = ecu.last
        <4>1. ecu' = u /\ fresh' = fresh
          BY <2>2, <3>1, <3>2 DEF ReceiverOnFrame
        <4> HIDE DEF u
        <4> QED BY <2>2, <2>5, <4>1
      <3>3. CASE f.seq # ecu.last
        <4>1. ecu' = Deliver(u, f.seq, f.cmd) /\ fresh' = fresh \ {ecu.of.seq}
          BY <2>2, <3>1, <3>3 DEF ReceiverOnFrame
        <4>2. ecu'.last = ecu.of.seq /\ ecu'.of = of2
          <5>1. u \in [parser : {u.parser}, of : {u.of}, last : {u.last},
                       mailbox : {u.mailbox}, taken : {u.taken}]
            BY DEF Fed, WireOK, Receivers
          <5> HIDE DEF u, f
          <5>2. ecu' = [u EXCEPT !.last = f.seq, !.mailbox = f.cmd]
            BY <4>1 DEF Deliver
          <5>3. ecu'.last = f.seq /\ ecu'.of = u.of
            BY <5>1, <5>2
          <5> QED BY <2>2, <3>1, <5>3
        <4>3. ASSUME "sent" \notin excused
              PROVE  Ordered(Way(of2, Tail(down), Sending(esp)), ecu.of.seq, fresh \ {ecu.of.seq})
          <5>1. Len(down) \in Nat
            BY <1>d DEF Line
          <5>2. ecu.of # NoFrame /\ ecu.of.seq # ecu.last
            BY <3>1, <3>3, FrameFacts
          <5>3. Ordered(Way(ecu.of, down, Sending(esp)), ecu.of.seq, fresh \ {ecu.of.seq})
            BY <1>o, <4>3, <5>1, <5>2, DeliverOrdered
          <5> QED BY <2>4, <5>3, EmbeddedIsOrdered
        <4> QED BY <2>1, <4>1, <4>2, <4>3 DEF InOrder
      <3> QED BY <3>2, <3>3
    <2>7. CASE ~(Parsed(ecu.parser, down[1].b) /\ Accepted(f))
      <3>1. ecu' = u /\ fresh' = fresh
        BY <1>5, <2>7 DEF EcuPoll
      <3> HIDE DEF u
      <3> QED BY <2>2, <2>5, <3>1
    <2> QED BY <2>6, <2>7
  <1>6. CASE ConsumeCmd
    <2>1. ecu'.of = ecu.of /\ ecu'.last = ecu.last /\ UNCHANGED <<esp, down, fresh, excused>>
      BY <1>6 DEF ConsumeCmd, WireOK
    <2> QED BY <1>t, <2>1, ThinnedInOrder
  <1>7. CASE EcuRestart
    <2>1. /\ ecu'.of = NoFrame /\ ecu'.last = None /\ fresh' = Numbers
          /\ esp' = esp /\ excused \subseteq excused'
      BY <1>7 DEF EcuRestart, Fresh
    <2>2. down' \in Line(DataFrames) /\ Thinned(down', down)
      BY <1>7, <1>d, LeftByIsThinned DEF EcuRestart
    <2>3. Embeds(Way(NoFrame, down', Sending(esp)), Way(ecu.of, down, Sending(esp)))
      BY <1>d, <2>2, ThinnedWay
    <2>4. ASSUME "sent" \notin excused'
          PROVE  Ordered(Way(NoFrame, down', Sending(esp)), None, Numbers)
      <3>1. Ordered(Way(ecu.of, down, Sending(esp)), None, Numbers)
        BY <1>d, <1>o, <1>w, <2>1, <2>4, RestartOrdered
      <3> QED BY <2>3, <3>1, EmbeddedIsOrdered
    <2> QED BY <2>1, <2>4 DEF InOrder
  <1>8. CASE Noise
    <2>1. Thinned(down', down)
      BY <1>8, <1>d, <1>t, DamagedIsThinned DEF Noise
    <2> QED BY <1>8, <2>1, ThinnedInOrder DEF Noise
  <1>9. CASE UNCHANGED vars
    BY <1>9, <1>t, ThinnedInOrder DEF vars
  <1> QED
    BY <1>1, <1>2, <1>3, <1>4, <1>5, <1>6, <1>7, <1>8, <1>9 DEF Next

-----------------------------------------------------------------------------
(* Nothing answers a command before it has been delivered.                 *)

LEMMA AnswersThinned ==
    ASSUME NEW F, NEW line \in Line(F), NEW new \in Line(F), Thinned(new, line),
           NEW u, NEW u2, u2.of \in {NoFrame, u.of}
    PROVE  OnTheWay(u2, new) \subseteq OnTheWay(u, line) \cup {NoFrame}
  <1>1. \A i \in DOMAIN new : \E j \in DOMAIN line : new[i].of \in {NoFrame, line[j].of}
    BY DEF Thinned
  <1> QED
    BY <1>1 DEF OnTheWay

LEMMA AnswersRead ==
    ASSUME NEW F, NEW line \in Line(F), line # <<>>,
           NEW u, NEW u2, u2.of \in {NoFrame, u.of, line[1].of}
    PROVE  OnTheWay(u2, Tail(line)) \subseteq OnTheWay(u, line) \cup {NoFrame}
  <1>1. Thinned(Tail(line), line) /\ Len(line) >= 1
    BY TailIsThinned
  <1>2. \A i \in DOMAIN Tail(line) :
            \E j \in DOMAIN line : Tail(line)[i].of \in {NoFrame, line[j].of}
    BY <1>1 DEF Thinned
  <1>3. 1 \in DOMAIN line
    BY <1>1 DEF Line
  <1> QED
    BY <1>2, <1>3 DEF OnTheWay

LEMMA AnswersWritten ==
    ASSUME NEW F, NEW line \in Line(F), Len(line) <= BufferSize, NEW f \in F,
           f.type \in Byte, f.seq \in Byte, f.cmd \in Byte, NEW u
    PROVE  OnTheWay(u, Write(line, f)) \subseteq OnTheWay(u, line) \cup {NoFrame, f}
  <1> DEFINE new == Write(line, f)
  <1>1. /\ new \in Line(F)
        /\ \A i \in 1..Len(new) :
               /\ i <= Len(line) => new[i].of = line[i].of
               /\ i = Len(line) + 1 => new[i].of = f
               /\ i > Len(line) + 1 => new[i].of = NoFrame
    BY WriteFacts
  <1> HIDE DEF new
  <1>2. DOMAIN new = 1..Len(new) /\ DOMAIN line = 1..Len(line) /\ Len(line) \in Nat /\ Len(new) \in Nat
    BY <1>1 DEF Line
  <1>3. ASSUME NEW i \in DOMAIN new
        PROVE  new[i].of \in OnTheWay(u, line) \cup {NoFrame, f}
    <2>1. CASE i <= Len(line)
      <3>1. i \in DOMAIN line /\ new[i].of = line[i].of
        BY <1>1, <1>2, <1>3, <2>1
      <3> QED BY <3>1 DEF OnTheWay
    <2>2. CASE i = Len(line) + 1 \/ i > Len(line) + 1
      BY <1>1, <1>2, <1>3, <2>2
    <2> QED BY <1>2, <1>3, <2>1, <2>2
  <1>4. OnTheWay(u, new) \subseteq OnTheWay(u, line) \cup {NoFrame, f}
    BY <1>3 DEF OnTheWay
  <1> QED
    BY <1>4 DEF new

\* A step that brings no answer.
LEMMA StillNotAnswered ==
    ASSUME NotAnswered, esp'.waiting => esp.waiting, esp'.seq = esp.seq,
           delivered' = delivered, excused \subseteq excused',
           ecu'.last \in {ecu.last, None}, esp.seq # None,
           OnTheWay(esp', up') \subseteq OnTheWay(esp, up) \cup {NoFrame}
    PROVE  NotAnswered'
  BY DEF NotAnswered

LEMMA AnswerStep == WireOK /\ WireOK' /\ NotAnswered /\ [Next]_vars => NotAnswered'
  <1> SUFFICES ASSUME WireOK, WireOK', NotAnswered, [Next]_vars PROVE NotAnswered'
    OBVIOUS
  <1>n. esp.seq # None
    BY DEF WireOK, Numbers, None, Senders
  <1>u. up \in Line(AckFrames) /\ Len(up) <= BufferSize /\ up' \in Line(AckFrames)
    BY DEF WireOK
  <1>t. Thinned(up, up)
    BY <1>u, UnchangedIsThinned
  <1>s. ASSUME esp'.of = esp.of, up' = up
        PROVE  OnTheWay(esp', up') \subseteq OnTheWay(esp, up) \cup {NoFrame}
    BY <1>s DEF OnTheWay
  <1>1. CASE ProcessRx
    <2>1. /\ esp'.seq = esp.seq /\ (esp'.waiting => esp.waiting)
          /\ esp'.of = Begun(esp.parser, esp.of, up[1])
      <3>1. PICK w : esp' = [Fed(esp, up) EXCEPT !.waiting = @ /\ ~w]
        BY <1>1 DEF ProcessRx
      <3> QED BY <3>1 DEF Fed, WireOK, Senders
    <2>2. OnTheWay(esp', Tail(up)) \subseteq OnTheWay(esp, up) \cup {NoFrame}
      <3>1. esp'.of \in {NoFrame, esp.of, up[1].of} /\ up # <<>>
        BY <1>1, <2>1, BegunFacts DEF ProcessRx
      <3>2. \A u, u2 : u2.of \in {NoFrame, u.of, up[1].of}
                => OnTheWay(u2, Tail(up)) \subseteq OnTheWay(u, up) \cup {NoFrame}
        BY <1>u, <3>1, AnswersRead
      <3> QED BY <3>1, <3>2
    <2> QED BY <1>1, <1>n, <2>1, <2>2, StillNotAnswered DEF ProcessRx
  <1>2. CASE PollRetry
    <2> DEFINE e == [esp EXCEPT !.pc = "SCAN"]
    <2>1. /\ e.waiting = esp.waiting /\ e.seq = esp.seq /\ e.of = esp.of
          /\ UNCHANGED <<ecu, up, delivered, excused>>
      BY <1>2 DEF PollRetry, WireOK
    <2>2. esp'.seq = esp.seq /\ esp'.of = esp.of /\ (esp'.waiting => esp.waiting)
      <3>1. e \in Senders
        BY DEF WireOK, Senders
      <3>2. Resend(e) \/ GiveUp(e) \/ NothingDue(e)
        BY <1>2 DEF PollRetry
      <3> HIDE DEF e
      <3>3. esp'.seq = e.seq /\ esp'.of = e.of /\ (esp'.waiting => e.waiting)
        BY <3>1, <3>2 DEF Resend, GiveUp, NothingDue, Senders
      <3> QED BY <2>1, <3>3
    <2> QED BY <1>n, <1>s, <2>1, <2>2, StillNotAnswered
  <1>3. ASSUME NEW c \in Cmds, ScanAndSend(c) PROVE NotAnswered'
    <2> DEFINE e == [esp EXCEPT !.pc = "RX", !.aged = TRUE]
    <2>1. /\ e.waiting = esp.waiting /\ e.seq = esp.seq /\ e.next = esp.next /\ e.of = esp.of
          /\ ecu' = ecu /\ up' = up
      BY <1>3 DEF ScanAndSend, WireOK
    <2>2. CASE MaySend(e, c)
      <3>1. esp' = SenderStart(e, c) /\ excused' = excused \cup Mistakable(esp.next)
        BY <1>3, <2>1, <2>2 DEF ScanAndSend
      <3>2. esp'.seq = esp.next /\ esp'.of = esp.of
        BY <2>1, <3>1, StartFields, Zenon DEF WireOK
      <3>3. ASSUME "known" \notin excused'
            PROVE  /\ ecu.last # esp.next
                   /\ \A f \in OnTheWay(esp, up) : f # NoFrame => f.seq # esp.next
        BY <3>1, <3>3 DEF Mistakable, NumbersOf
      <3>4. OnTheWay(esp', up') = OnTheWay(esp, up)
        BY <2>1, <3>2 DEF OnTheWay
      <3> QED BY <2>1, <3>2, <3>3, <3>4 DEF NotAnswered
    <2>3. CASE ~MaySend(e, c)
      <3>1. esp' = e /\ UNCHANGED <<delivered, excused>>
        BY <1>3, <2>3 DEF ScanAndSend
      <3>2. esp'.waiting = esp.waiting /\ esp'.seq = esp.seq /\ esp'.of = esp.of
        BY <2>1, <3>1
      <3> QED BY <1>n, <1>s, <2>1, <3>1, <3>2, StillNotAnswered
    <2> QED BY <2>2, <2>3
  <1>4. CASE EspRestart
    <2>1. ~esp'.waiting
      BY <1>4 DEF EspRestart, Idle
    <2> QED BY <2>1 DEF NotAnswered
  <1>5. CASE EcuPoll
    <2> DEFINE f == FrameIn(ecu.parser)
               u == Fed(ecu, down)
    <2>1. esp' = esp /\ excused' = excused /\ u.last = ecu.last
      BY <1>5 DEF EcuPoll, Fed, WireOK
    <2>2. CASE Parsed(ecu.parser, down[1].b) /\ Accepted(f)
      <3> DEFINE a == Frame(ACK, f.seq, 0)
      <3>1. /\ ecu' = ReceiverOnFrame(u, f) /\ up' = Write(up, a)
            /\ delivered' = (delivered \/ esp.seq \in {f.seq} \ {ecu.last})
        BY <1>5, <2>2 DEF EcuPoll
      <3>2. f.seq \in Byte
        <4>1. down[1].b \in Byte /\ ecu.parser \in Seq(Byte)
          BY <1>5, TailIsThinned DEF EcuPoll, WireOK, Receivers
        <4> QED BY <2>2, <4>1, FrameInFacts
      <3>3. a \in AckFrames /\ a.type \in Byte /\ a.seq \in Byte /\ a.cmd \in Byte /\ a.seq = f.seq
        BY <3>2, FrameFacts
      <3>4. ecu'.last = f.seq
        <4>1. u \in [parser : {u.parser}, of : {u.of}, last : {u.last},
                     mailbox : {u.mailbox}, taken : {u.taken}]
          BY DEF Fed, WireOK, Receivers
        <4> HIDE DEF u, f
        <4>2. CASE f.seq = u.last
          BY <3>1, <4>2 DEF ReceiverOnFrame
        <4>3. CASE f.seq # u.last
          <5>1. ecu' = [u EXCEPT !.last = f.seq, !.mailbox = f.cmd]
            BY <3>1, <4>3 DEF ReceiverOnFrame, Deliver
          <5> QED BY <4>1, <5>1
        <4> QED BY <4>2, <4>3
      <3> HIDE DEF a, f
      <3>5. OnTheWay(esp, up') \subseteq OnTheWay(esp, up) \cup {NoFrame, a}
        BY <1>u, <3>1, <3>3, AnswersWritten
      <3>6. ASSUME esp'.waiting, ~delivered', "known" \notin excused'
            PROVE  /\ ecu'.last # esp'.seq
                   /\ \A g \in OnTheWay(esp', up') : g # NoFrame => g.seq # esp'.seq
        <4>1. ecu.last # esp.seq /\ \A g \in OnTheWay(esp, up) : g # NoFrame => g.seq # esp.seq
          BY <2>1, <3>1, <3>6 DEF NotAnswered
        <4>2. f.seq # esp.seq
          BY <3>1, <3>6, <4>1
        <4> QED BY <2>1, <3>3, <3>4, <3>5, <4>1, <4>2
      <3> QED BY <3>6 DEF NotAnswered
    <2>3. CASE ~(Parsed(ecu.parser, down[1].b) /\ Accepted(f))
      <3>1. ecu' = u /\ up' = up /\ delivered' = delivered
        BY <1>5, <2>3 DEF EcuPoll
      <3> HIDE DEF u
      <3> QED BY <1>n, <1>s, <2>1, <3>1, StillNotAnswered
    <2> QED BY <2>2, <2>3
  <1>6. CASE ConsumeCmd
    <2>1. ecu'.last = ecu.last /\ UNCHANGED <<esp, up, delivered, excused>>
      BY <1>6 DEF ConsumeCmd, WireOK
    <2> QED BY <1>n, <1>s, <2>1, StillNotAnswered
  <1>7. CASE EcuRestart
    <2>1. ecu'.last = None /\ UNCHANGED <<esp, up, delivered>> /\ excused \subseteq excused'
      BY <1>7 DEF EcuRestart, Fresh
    <2> QED BY <1>n, <1>s, <2>1, StillNotAnswered
  <1>8. CASE Noise
    <2>1. UNCHANGED <<esp, ecu, delivered, excused>> /\ Thinned(up', up)
      BY <1>8, <1>u, <1>t, DamagedIsThinned DEF Noise
    <2>2. OnTheWay(esp', up') \subseteq OnTheWay(esp, up) \cup {NoFrame}
      BY <1>u, <2>1, AnswersThinned
    <2> QED BY <1>n, <2>1, <2>2, StillNotAnswered
  <1>9. CASE UNCHANGED vars
    BY <1>9, <1>n, <1>s, StillNotAnswered DEF vars
  <1> QED
    BY <1>1, <1>2, <1>3, <1>4, <1>5, <1>6, <1>7, <1>8, <1>9 DEF Next

-----------------------------------------------------------------------------
(* The theorems.                                                           *)

LEMMA InitOK == Init => IInv
  <1> SUFFICES ASSUME Init PROVE IInv
    OBVIOUS
  <1>1. WireOK
    BY WireInit
  <1>2. Meant
    BY DEF Init, Fresh, Meant
  <1>3. InOrder
    <2> DEFINE w == Way(NoFrame, <<>>, NoFrame)
    <2>1. \A i \in DOMAIN w : w[i] = NoFrame
      BY DEF Way
    <2> HIDE DEF w
    <2>2. Ordered(w, None, {})
      BY <2>1 DEF Ordered
    <2>3. ecu.of = NoFrame /\ ecu.last = None /\ down = <<>> /\ fresh = {} /\ Sending(esp) = NoFrame
      BY DEF Init, Fresh, Idle, Sending
    <2> QED BY <2>2, <2>3 DEF InOrder, w
  <1>4. NotAnswered
    BY DEF Init, Idle, NotAnswered
  <1> QED
    BY <1>1, <1>2, <1>3, <1>4 DEF IInv

LEMMA StepOK == IInv /\ Genuine /\ [Next]_vars => IInv'
  BY WireStep, MeantStep, OrderStep, AnswerStep DEF IInv

(* As long as the checksum tells a damaged frame from a whole one, the     *)
(* numbers and commands of both ends are the sender's, and neither parser  *)
(* nor input buffer holds more than its code has room for.                 *)
THEOREM TypeTheorem == Spec /\ []Genuine => []TypeOK
  <1>1. ASSUME IInv, Genuine PROVE TypeOK
    <2>1. WireOK /\ Meant
      BY <1>1 DEF IInv
    <2> QED BY <1>1, <2>1 DEF WireOK, Meant, TypeOK, Senders, Receivers
  <1> QED
    BY <1>1, InitOK, StepOK, PTL DEF Spec

(* bleUartSenderOnFrame ends a wait with success only for a command that   *)
(* the ECU has delivered, for every number space, retry limit, buffer and  *)
(* sequence of losses and restarts, unless the number it went out with was *)
(* already known at the other end.                                         *)
THEOREM AckTheorem == Spec /\ []Genuine => AckMeansDelivered
  <1>1. ASSUME IInv, Genuine, [Next]_vars, esp.waiting, ~esp'.waiting, esp'.queued # FORCE
        PROVE  delivered \/ "known" \in excused
    <2> SUFFICES ASSUME ~delivered, "known" \notin excused PROVE FALSE
      OBVIOUS
    <2>w. WireOK
      BY <1>1 DEF IInv
    <2>n. \A f \in OnTheWay(esp, up) : f # NoFrame => f.seq # esp.seq
      BY <1>1 DEF IInv, NotAnswered
    <2>1. CASE ProcessRx
      <3>1. Parsed(esp.parser, up[1].b) /\ SenderOnFrame(esp, FrameIn(esp.parser)) /\ up # <<>>
        <4> DEFINE acked == Parsed(esp.parser, up[1].b) /\ SenderOnFrame(esp, FrameIn(esp.parser))
        <4>1. esp' = [Fed(esp, up) EXCEPT !.waiting = @ /\ ~acked] /\ up # <<>>
          BY <2>1 DEF ProcessRx
        <4> HIDE DEF acked
        <4>2. esp'.waiting = (esp.waiting /\ ~acked)
          BY <2>w, <4>1 DEF Fed, WireOK
        <4> QED BY <1>1, <4>1, <4>2 DEF acked
      <3>2. esp.of # NoFrame /\ esp.of.seq = esp.seq
        BY <1>1, <3>1, EspTakesGenuine
      <3> QED BY <2>n, <3>2 DEF OnTheWay
    <2>2. CASE PollRetry
      <3> DEFINE e == [esp EXCEPT !.pc = "SCAN"]
      <3>1. e.waiting = esp.waiting
        BY <2>w DEF WireOK
      <3>2. e \in Senders
        BY <2>w DEF WireOK, Senders
      <3>3. Resend(e) \/ GiveUp(e) \/ NothingDue(e)
        BY <2>2 DEF PollRetry
      <3> HIDE DEF e
      <3> QED BY <1>1, <3>1, <3>2, <3>3 DEF Resend, GiveUp, NothingDue, Senders
    <2>3. ASSUME NEW c \in Cmds, ScanAndSend(c) PROVE FALSE
      <3> DEFINE e == [esp EXCEPT !.pc = "RX", !.aged = TRUE]
      <3>1. e.waiting
        BY <1>1, <2>w DEF WireOK
      <3>2. esp' = e
        BY <2>3, <3>1 DEF ScanAndSend, MaySend
      <3> QED BY <1>1, <3>1, <3>2
    <2>4. CASE EspRestart
      BY <1>1, <2>4 DEF EspRestart, Idle
    <2>5. CASE UNCHANGED esp
      BY <1>1, <2>5
    <2> QED
      BY <1>1, <2>1, <2>2, <2>3, <2>4, <2>5
         DEF Next, vars, EcuPoll, ConsumeCmd, EcuRestart, Noise
  <1>2. IInv /\ Genuine /\ [Next]_vars
           => [esp.waiting /\ ~esp'.waiting /\ esp'.queued # FORCE
                  => delivered \/ "known" \in excused]_vars
    BY <1>1
  <1> QED
    BY <1>2, InitOK, StepOK, PTL DEF Spec, AckMeansDelivered

(* bleUartReceiverOnFrame fills the mailbox with a command it has not      *)
(* delivered before, however often and however late the frames of it come, *)
(* unless the number was used again while an older frame of it was still   *)
(* under way.                                                              *)
THEOREM OnceTheorem == Spec /\ []Genuine => DeliveredOnce
  <1>1. ASSUME IInv, Genuine, [Next]_vars, ecu.mailbox = None, ecu'.mailbox # None
        PROVE  fresh' # fresh \/ "sent" \in excused
    <2> SUFFICES ASSUME "sent" \notin excused PROVE fresh' # fresh
      OBVIOUS
    <2>w. WireOK
      BY <1>1 DEF IInv
    <2>o. Ordered(Way(ecu.of, down, Sending(esp)), ecu.last, fresh)
      BY <1>1 DEF IInv, InOrder
    <2>1. CASE EcuPoll
      <3> DEFINE f == FrameIn(ecu.parser)
                 u == Fed(ecu, down)
      <3>1. u.last = ecu.last /\ u.mailbox = ecu.mailbox
        BY <2>w DEF Fed, WireOK
      <3>2. Parsed(ecu.parser, down[1].b) /\ Accepted(f)
        <4>1. CASE ~(Parsed(ecu.parser, down[1].b) /\ Accepted(f))
          <5>1. ecu' = u
            BY <2>1, <4>1 DEF EcuPoll
          <5> HIDE DEF u
          <5> QED BY <1>1, <3>1, <5>1
        <4> QED BY <4>1
      <3>3. /\ ecu' = ReceiverOnFrame(u, f) /\ fresh' = fresh \ ({f.seq} \ {ecu.last})
            /\ ecu.of = f /\ ecu.of \in DataFrames
        BY <1>1, <2>1, <2>w, <3>2, EcuTakesGenuine DEF EcuPoll
      <3> HIDE DEF u
      <3>4. f.seq # ecu.last
        BY <1>1, <3>1, <3>3 DEF ReceiverOnFrame
      <3>5. ecu.of # NoFrame /\ ecu.of.seq # ecu.last /\ Len(down) \in Nat
        <4>1. Len(down) \in Nat
          BY <2>w DEF WireOK, Line
        <4> QED BY <3>3, <3>4, <4>1, FrameFacts
      <3>6. ecu.of.seq \in fresh
        BY <2>o, <3>5, DeliverOrdered
      <3> QED BY <3>3, <3>4, <3>6
    <2>2. CASE ConsumeCmd
      BY <1>1, <2>2 DEF ConsumeCmd
    <2>3. CASE EcuRestart
      BY <1>1, <2>3 DEF EcuRestart, Fresh
    <2>4. CASE UNCHANGED ecu
      BY <1>1, <2>4
    <2> QED
      BY <1>1, <2>1, <2>2, <2>3, <2>4
         DEF Next, vars, ProcessRx, PollRetry, ScanAndSend, EspRestart, Noise
  <1>2. IInv /\ Genuine /\ [Next]_vars
           => [ecu.mailbox = None /\ ecu'.mailbox # None
                  => fresh' # fresh \/ "sent" \in excused]_vars
    BY <1>1
  <1> QED
    BY <1>2, InitOK, StepOK, PTL DEF Spec, DeliveredOnce

-----------------------------------------------------------------------------
(* A line that is left alone: parser and line hold one frame between them, *)
(* and only one of the two lines is in use.                                *)

\* The end with parser p, begun on of, has read Len(p) bytes of the frame on its line.
Aligned(p, of, line, F) ==
    \/ p = <<>> /\ line = <<>>
    \/ \E f \in F : LET bytes == Encode(f.type, f.seq, f.cmd) IN
           /\ Len(p) \in 0..5 /\ Len(line) = 6 - Len(p)
           /\ \A i \in 1..Len(p) : p[i] = bytes[i]
           /\ \A i \in 1..Len(line) : line[i].b = bytes[i + Len(p)]
           /\ IF p = <<>> THEN line[1].of = f ELSE of = f

\* What a line can carry.
Sendable(F) ==
    \A f \in F : /\ f = Frame(f.type, f.seq, f.cmd)
                 /\ f.type \in Byte /\ f.seq \in Byte /\ f.cmd \in Byte

Quiet ==
    /\ Aligned(ecu.parser, ecu.of, down, DataFrames)
    /\ Aligned(esp.parser, esp.of, up, AckFrames)
    /\ down = <<>> \/ up = <<>>
    /\ esp.aged => down = <<>>
    /\ ~esp.waiting => down = <<>> /\ up = <<>>
    /\ faults \in Nat /\ restarts \in Nat

LEMMA EncodeFacts ==
    ASSUME NEW f, f.type \in Byte, f.seq \in Byte, f.cmd \in Byte,
           NEW bytes, bytes = Encode(f.type, f.seq, f.cmd)
    PROVE  /\ bytes \in Seq(Byte) /\ Len(bytes) = 6
           /\ bytes[1] = SOF0 /\ bytes[2] = SOF1
           /\ bytes[3] = f.type /\ bytes[4] = f.seq /\ bytes[5] = f.cmd
  <1>1. SOF0 \in Byte /\ SOF1 \in Byte
    BY DEF SOF0, SOF1, Byte
  <1>2. Crc8(f.type, f.seq, f.cmd) \in Byte
    BY Crc8Type
  <1> QED
    BY <1>1, <1>2 DEF Encode

\* An end that reads on stays aligned.
LEMMA ReadAligned ==
    ASSUME NEW F, Sendable(F),
           NEW p \in Seq(Byte), NEW of, NEW line \in Line(F), line # <<>>,
           Aligned(p, of, line, F)
    PROVE  Aligned(ParserFeed(p, line[1].b), Begun(p, of, line[1]), Tail(line), F)
  <1> DEFINE q == ParserFeed(p, line[1].b)
             new == Tail(line)
             k == Len(p)
  <1>1. PICK f \in F : LET bytes == Encode(f.type, f.seq, f.cmd) IN
            /\ k \in 0..5 /\ Len(line) = 6 - k
            /\ \A i \in 1..k : p[i] = bytes[i]
            /\ \A i \in 1..Len(line) : line[i].b = bytes[i + k]
            /\ IF p = <<>> THEN line[1].of = f ELSE of = f
    BY DEF Aligned
  <1> DEFINE bytes == Encode(f.type, f.seq, f.cmd)
  <1>2. bytes \in Seq(Byte) /\ Len(bytes) = 6 /\ bytes[1] = SOF0 /\ bytes[2] = SOF1
    <2>1. f.type \in Byte /\ f.seq \in Byte /\ f.cmd \in Byte
      BY DEF Sendable
    <2> HIDE DEF bytes
    <2>2. bytes = Encode(f.type, f.seq, f.cmd)
      BY DEF bytes
    <2> QED BY <2>1, <2>2, EncodeFacts, Zenon
  <1>3. /\ k \in 0..5 /\ Len(line) = 6 - k
        /\ \A i \in 1..k : p[i] = bytes[i]
        /\ \A i \in 1..Len(line) : line[i].b = bytes[i + k]
        /\ (p = <<>> => line[1].of = f) /\ (p # <<>> => of = f)
    BY <1>1
  <1> HIDE DEF bytes
  <1>4. /\ new \in Line(F) /\ Len(new) = 5 - k
        /\ \A i \in 1..Len(new) : new[i] = line[i + 1]
    BY <1>3, TailIsThinned
  <1>5. /\ line[1].b = bytes[k + 1]
        /\ \A i \in 1..Len(new) : new[i].b = bytes[i + (k + 1)]
    <2>1. 1 \in 1..Len(line) /\ 1 + k = k + 1
      BY <1>3
    <2>2. ASSUME NEW i \in 1..Len(new) PROVE new[i].b = bytes[i + (k + 1)]
      <3>1. i + 1 \in 1..Len(line) /\ (i + 1) + k = i + (k + 1)
        BY <1>3, <1>4
      <3> QED BY <1>3, <1>4, <3>1
    <2> QED BY <1>3, <2>1, <2>2
  <1>6. SOF0 # SOF1
    BY DEF SOF0, SOF1
  <1>7. k = 0 <=> p = <<>>
    BY EmptySeq
  <1> HIDE DEF new
  <1>8. ASSUME Len(q) = k + 1, k < 5, \A i \in 1..(k + 1) : q[i] = bytes[i],
               Begun(p, of, line[1]) = f
        PROVE  Aligned(q, Begun(p, of, line[1]), new, F)
    <2>1. q # <<>> /\ Len(q) \in 0..5 /\ Len(new) = 6 - Len(q)
      BY <1>3, <1>4, <1>8
    <2> HIDE DEF q, k
    <2> QED BY <1>5, <1>8, <2>1 DEF Aligned, bytes
  <1>9. CASE k = 0
    <2>1. line[1].b = SOF0
      BY <1>2, <1>5, <1>9
    <2>2. q = <<SOF0>>
      BY <1>6, <1>9, <2>1 DEF ParserFeed
    <2>3. Begun(p, of, line[1]) = f
      BY <1>3, <1>7, <1>9, <2>1 DEF Begun
    <2>4. Len(q) = k + 1 /\ k < 5 /\ \A i \in 1..(k + 1) : q[i] = bytes[i]
      BY <1>2, <1>9, <2>2
    <2> QED BY <1>8, <2>3, <2>4 DEF new
  <1>10. CASE k = 1
    <2>1. line[1].b = SOF1
      BY <1>2, <1>5, <1>10
    <2>2. q = <<SOF0, SOF1>>
      BY <1>10, <2>1 DEF ParserFeed, FrameStart
    <2>3. Begun(p, of, line[1]) = f
      BY <1>3, <1>6, <1>7, <1>10, <2>1, <2>2 DEF Begun
    <2>4. Len(q) = k + 1 /\ k < 5 /\ \A i \in 1..(k + 1) : q[i] = bytes[i]
      BY <1>2, <1>10, <2>2
    <2> QED BY <1>8, <2>3, <2>4 DEF new
  <1>11. CASE k \in 2..4
    <2>1. q = Append(p, line[1].b)
      BY <1>11 DEF ParserFeed
    <2>2. Len(q) = k + 1 /\ q # <<>>
      BY <2>1
    <2>3. \A i \in 1..(k + 1) : q[i] = bytes[i]
      BY <1>3, <1>5, <2>1
    <2>4. Begun(p, of, line[1]) = f
      <3>1. ~(Len(p) <= 1) /\ Len(p) \in 1..4 /\ p # <<>>
        BY <1>7, <1>11
      <3> QED BY <1>3, <2>2, <3>1 DEF Begun
    <2>5. k < 5
      <3>1. k \in 2..4
        BY <1>11, Zenon
      <3> HIDE DEF k
      <3> QED BY <3>1
    <2> HIDE DEF q, k
    <2> QED BY <1>8, <2>2, <2>3, <2>4, <2>5 DEF new, q
  <1>12. CASE k = 5
    <2>1. q = <<>>
      BY <1>12 DEF ParserFeed
    <2>2. new = <<>>
      BY <1>4, <1>12, EmptySeq DEF Line
    <2> QED BY <2>1, <2>2 DEF Aligned, new
  <1>13. k = 0 \/ k = 1 \/ k \in 2..4 \/ k = 5
    BY <1>3
  <1> QED
    BY <1>9, <1>10, <1>11, <1>12, <1>13, Zenon

\* What an end has read of a frame, but for its checksum, is that frame.
LEMMA AlignedIsGenuine ==
    ASSUME NEW F, Sendable(F),
           NEW p \in Seq(Byte), NEW of, NEW line, Aligned(p, of, line, F), Len(p) = 5
    PROVE  of = FrameIn(p)
  <1>1. p # <<>>
    OBVIOUS
  <1>2. PICK f \in F : LET bytes == Encode(f.type, f.seq, f.cmd) IN
            (\A i \in 1..5 : p[i] = bytes[i]) /\ of = f
    BY <1>1 DEF Aligned
  <1>3. f.type \in Byte /\ f.seq \in Byte /\ f.cmd \in Byte /\ f = Frame(f.type, f.seq, f.cmd)
    BY DEF Sendable
  <1>4. p[3] = f.type /\ p[4] = f.seq /\ p[5] = f.cmd
    <2>1. /\ Encode(f.type, f.seq, f.cmd)[3] = f.type /\ Encode(f.type, f.seq, f.cmd)[4] = f.seq
          /\ Encode(f.type, f.seq, f.cmd)[5] = f.cmd
      <3> DEFINE bytes == Encode(f.type, f.seq, f.cmd)
      <3>1. bytes = Encode(f.type, f.seq, f.cmd)
        OBVIOUS
      <3> HIDE DEF bytes
      <3>2. bytes[3] = f.type /\ bytes[4] = f.seq /\ bytes[5] = f.cmd
        BY <1>3, <3>1, EncodeFacts, Zenon
      <3> QED BY <3>1, <3>2, Zenon
    <2>2. 3 \in 1..5 /\ 4 \in 1..5 /\ 5 \in 1..5
      OBVIOUS
    <2> QED BY <1>2, <2>1, <2>2, Zenon
  <1> QED
    BY <1>2, <1>3, <1>4 DEF FrameIn

\* A frame written to an empty line is there, whole.
LEMMA WriteAligned ==
    ASSUME NEW F, NEW f \in F, f.type \in Byte, f.seq \in Byte, f.cmd \in Byte,
           BufferSize >= 6, NEW of
    PROVE  Aligned(<<>>, of, Write(<<>>, f), F)
  <1> DEFINE bytes == Encode(f.type, f.seq, f.cmd)
             C == [b : Byte, of : {f, NoFrame}]
             cells == [i \in 1..6 |-> [b |-> bytes[i], of |-> IF i = 1 THEN f ELSE NoFrame]]
  <1>1. bytes \in Seq(Byte) /\ Len(bytes) = 6
    <2> HIDE DEF bytes
    <2>1. bytes = Encode(f.type, f.seq, f.cmd)
      BY DEF bytes
    <2> QED BY <2>1, EncodeFacts, Zenon
  <1> HIDE DEF bytes
  <1>2. cells \in Seq(C) /\ Len(cells) = 6
    <2>1. \A i \in 1..6 : bytes[i] \in Byte
      BY <1>1, ElementOfSeq
    <2>2. \A i \in 1..6 : cells[i] \in C
      BY <2>1
    <2> QED BY <2>2
  <1>3. \A i \in 1..6 : cells[i].b = bytes[i]
    OBVIOUS
  <1>4. cells[1].of = f
    OBVIOUS
  <1> HIDE DEF cells, C
  <1>5. <<>> \o cells = cells
    BY <1>2
  <1>6. SubSeq(cells, 1, 6) = cells
    BY <1>2, SubSeqFull
  <1>7. Write(<<>>, f) = cells
    <2>1. (IF Len(cells) < BufferSize THEN Len(cells) ELSE BufferSize) = 6
      BY <1>2, ConstantFacts
    <2>2. Write(<<>>, f) = LET all == <<>> \o cells
                           IN SubSeq(all, 1, IF Len(all) < BufferSize THEN Len(all) ELSE BufferSize)
      BY DEF Write, cells, bytes
    <2> QED BY <1>5, <1>6, <2>1, <2>2
  <1>8. \A i \in 1..6 : cells[i].b = bytes[i + 0]
    BY <1>3
  <1> QED
    BY <1>2, <1>4, <1>7, <1>8 DEF Aligned, bytes

\* What the lines carry can be sent, and an end that has all but the checksum has it next.
LEMMA AlignedFacts ==
    /\ Sendable(DataFrames) /\ Sendable(AckFrames)
    /\ \A p \in Seq(Byte) : \A of, line, F : Aligned(p, of, line, F) =>
           /\ line = <<>> => p = <<>>
           /\ Len(p) = 5 => Len(line) = 1
    /\ \A of, F : Aligned(<<>>, of, <<>>, F)
  <1>1. Sendable(DataFrames) /\ Sendable(AckFrames)
    <2>1. ASSUME NEW f \in DataFrames
          PROVE  f = Frame(f.type, f.seq, f.cmd) /\ f.type \in Byte /\ f.seq \in Byte /\ f.cmd \in Byte
      <3>1. f = Frame(f.type, f.seq, f.cmd)
        BY DEF DataFrames, Frame
      <3> QED BY <3>1, FrameFacts
    <2>2. ASSUME NEW f \in AckFrames
          PROVE  f = Frame(f.type, f.seq, f.cmd) /\ f.type \in Byte /\ f.seq \in Byte /\ f.cmd \in Byte
      <3>1. f = Frame(f.type, f.seq, f.cmd)
        BY DEF AckFrames, Frame
      <3> QED BY <3>1, FrameFacts
    <2> QED BY <2>1, <2>2 DEF Sendable
  <1>2. ASSUME NEW p \in Seq(Byte), NEW of, NEW line, NEW F, Aligned(p, of, line, F)
        PROVE  (line = <<>> => p = <<>>) /\ (Len(p) = 5 => Len(line) = 1)
    <2>1. CASE p = <<>> /\ line = <<>>
      BY <2>1
    <2>2. CASE Len(p) \in 0..5 /\ Len(line) = 6 - Len(p)
      <3> DEFINE k == Len(p)
                 m == Len(line)
      <3>1. k \in 0..5 /\ m = 6 - k
        BY <2>2
      <3>2. line = <<>> => m = 0
        OBVIOUS
      <3> HIDE DEF k, m
      <3>3. m # 0 /\ (k = 5 => m = 1)
        BY <3>1
      <3> QED BY <3>2, <3>3 DEF k, m
    <2> QED BY <1>2, <2>1, <2>2, Zenon DEF Aligned
  <1> QED
    BY <1>1, <1>2 DEF Aligned

LEMMA QuietIsGenuine == WireOK /\ Quiet => Genuine
  <1> SUFFICES ASSUME WireOK, Quiet PROVE Genuine
    OBVIOUS
  <1>1. ASSUME Parsed(ecu.parser, down[1].b) PROVE ecu.of = FrameIn(ecu.parser)
    <2>1. ecu.parser \in Seq(Byte) /\ Len(ecu.parser) = 5
      BY <1>1 DEF Parsed, WireOK, Receivers
    <2> QED BY <2>1, AlignedFacts, AlignedIsGenuine DEF Quiet
  <1>2. ASSUME Parsed(esp.parser, up[1].b) PROVE esp.of = FrameIn(esp.parser)
    <2>1. esp.parser \in Seq(Byte) /\ Len(esp.parser) = 5
      BY <1>2 DEF Parsed, WireOK, Senders
    <2> QED BY <2>1, AlignedFacts, AlignedIsGenuine DEF Quiet
  <1> QED
    BY <1>1, <1>2 DEF Genuine

LEMMA QuietInit == Init => WireOK /\ Quiet
  <1> SUFFICES ASSUME Init PROVE Quiet
    BY WireInit
  <1>1. /\ ecu.parser = <<>> /\ esp.parser = <<>> /\ down = <<>> /\ up = <<>>
        /\ ~esp.aged /\ faults = 0 /\ restarts = 0
    BY DEF Init, Idle, Fresh
  <1> QED
    BY <1>1, AlignedFacts DEF Quiet

LEMMA QuietStep ==
    BufferSize >= 6 /\ WireOK /\ WireOK' /\ Quiet /\ [Next]_vars /\ UNCHANGED <<faults, restarts>>
        => Quiet'
  <1> SUFFICES ASSUME BufferSize >= 6, WireOK, WireOK', Quiet, [Next]_vars,
                      faults' = faults, restarts' = restarts
               PROVE  Quiet'
    BY Zenon
  <1>t. /\ esp \in Senders /\ ecu \in Receivers
        /\ esp.parser \in Seq(Byte) /\ ecu.parser \in Seq(Byte)
        /\ down \in Line(DataFrames) /\ up \in Line(AckFrames)
    BY DEF WireOK, Senders, Receivers
  <1>q. /\ Aligned(ecu.parser, ecu.of, down, DataFrames)
        /\ Aligned(esp.parser, esp.of, up, AckFrames)
        /\ down = <<>> \/ up = <<>>
        /\ esp.aged => down = <<>>
        /\ ~esp.waiting => down = <<>> /\ up = <<>>
        /\ faults' \in Nat /\ restarts' \in Nat
    BY DEF Quiet
  <1>e. (down = <<>> => ecu.parser = <<>>) /\ (up = <<>> => esp.parser = <<>>)
    BY <1>t, <1>q, AlignedFacts, Zenon
  <1>1. CASE ProcessRx
    <2> DEFINE acked == Parsed(esp.parser, up[1].b) /\ SenderOnFrame(esp, FrameIn(esp.parser))
    <2>1. /\ up # <<>> /\ up' = Tail(up) /\ down' = down /\ ecu' = ecu
          /\ esp' = [Fed(esp, up) EXCEPT !.waiting = @ /\ ~acked]
      BY <1>1 DEF ProcessRx
    <2> HIDE DEF acked
    <2>2. /\ esp'.parser = ParserFeed(esp.parser, up[1].b)
          /\ esp'.of = Begun(esp.parser, esp.of, up[1])
          /\ esp'.waiting = (esp.waiting /\ ~acked) /\ esp'.aged = esp.aged
      BY <1>t, <2>1 DEF Fed, Senders
    <2>3. Aligned(esp'.parser, esp'.of, up', AckFrames)
      BY <1>t, <1>q, <2>1, <2>2, AlignedFacts, ReadAligned
    <2>4. down = <<>> /\ esp.waiting
      BY <1>q, <2>1
    <2>5. acked => up' = <<>>
      <3> SUFFICES ASSUME acked PROVE up' = <<>>
        OBVIOUS
      <3>1. Len(esp.parser) = 5
        BY DEF acked, Parsed
      <3>2. Len(up) = 1
        BY <1>t, <1>q, <3>1, AlignedFacts
      <3>3. up' \in Seq([b : Byte, of : AckFrames \cup {NoFrame}]) /\ Len(up') = 0
        BY <1>t, <2>1, <3>2, TailIsThinned DEF Line
      <3> QED BY <3>3, EmptySeq
    <2> QED BY <1>q, <2>1, <2>2, <2>3, <2>4, <2>5 DEF Quiet
  <1>2. CASE PollRetry
    <2> DEFINE e == [esp EXCEPT !.pc = "SCAN"]
    <2>1. /\ up = <<>> /\ up' = up /\ ecu' = ecu
          /\ Resend(e) \/ GiveUp(e) \/ NothingDue(e)
      BY <1>2 DEF PollRetry
    <2>2. /\ e \in Senders /\ e.parser = esp.parser /\ e.of = esp.of
          /\ e.waiting = esp.waiting /\ e.aged = esp.aged /\ e.seq \in Numbers /\ e.cmd \in Cmds
      BY <1>t DEF Senders
    <2> HIDE DEF e
    <2>3. CASE Resend(e)
      <3> DEFINE f == Frame(DATA, e.seq, e.cmd)
      <3>1. /\ esp'.parser = esp.parser /\ esp'.of = esp.of /\ esp'.waiting /\ ~esp'.aged
            /\ down = <<>> /\ down' = Write(<<>>, f)
        <4>1. e.waiting /\ e.aged /\ down' = Write(down, f)
              /\ esp' = [e EXCEPT !.retries = @ + 1, !.aged = FALSE]
          BY <2>3 DEF Resend
        <4>2. down = <<>>
          BY <1>q, <2>2, <4>1
        <4> HIDE DEF f
        <4>3. /\ esp'.parser = e.parser /\ esp'.of = e.of /\ esp'.waiting = e.waiting /\ ~esp'.aged
          BY <2>2, <4>1 DEF Senders
        <4> QED BY <2>2, <4>1, <4>2, <4>3
      <3>2. f \in DataFrames /\ f.type \in Byte /\ f.seq \in Byte /\ f.cmd \in Byte
        BY <2>2, FrameFacts, Zenon
      <3> HIDE DEF f
      <3>3. Aligned(ecu'.parser, ecu'.of, down', DataFrames)
        BY <1>e, <2>1, <3>1, <3>2, WriteAligned
      <3> QED BY <1>q, <2>1, <3>1, <3>3 DEF Quiet
    <2>4. CASE GiveUp(e)
      <3>1. /\ esp' = [e EXCEPT !.waiting = FALSE, !.queued = FORCE] /\ e.aged /\ down' = down
        BY <2>4 DEF GiveUp
      <3>2. /\ esp'.parser = esp.parser /\ esp'.of = esp.of /\ esp'.aged = esp.aged /\ down = <<>>
        BY <1>q, <2>2, <3>1 DEF Senders
      <3> QED BY <1>q, <2>1, <3>1, <3>2 DEF Quiet
    <2>5. CASE NothingDue(e)
      BY <1>q, <2>1, <2>2, <2>5 DEF Quiet, NothingDue
    <2> QED BY <2>1, <2>3, <2>4, <2>5
  <1>3. ASSUME NEW c \in Cmds, ScanAndSend(c) PROVE Quiet'
    <2> DEFINE e == [esp EXCEPT !.pc = "RX", !.aged = TRUE]
    <2>1. /\ down = <<>> /\ up' = up /\ ecu' = ecu
          /\ IF MaySend(e, c)
             THEN esp' = SenderStart(e, c) /\ down' = Write(down, Frame(DATA, e.next, c))
             ELSE esp' = e /\ down' = down
      <3>1. down = <<>>
        BY <1>3, <1>q DEF ScanAndSend
      <3> QED BY <1>3, <3>1 DEF ScanAndSend
    <2>2. /\ e \in Senders /\ e.parser = esp.parser /\ e.of = esp.of
          /\ e.waiting = esp.waiting /\ e.next \in Numbers
      BY <1>t DEF Senders
    <2> HIDE DEF e
    <2>3. CASE MaySend(e, c)
      <3> DEFINE f == Frame(DATA, e.next, c)
      <3>1. up = <<>>
        BY <1>q, <2>2, <2>3 DEF MaySend
      <3>2. /\ esp'.parser = esp.parser /\ esp'.of = esp.of /\ esp'.waiting /\ ~esp'.aged
        BY <2>1, <2>2, <2>3 DEF SenderStart, Senders
      <3>3. f \in DataFrames /\ f.type \in Byte /\ f.seq \in Byte /\ f.cmd \in Byte
        BY <2>2, FrameFacts, Zenon
      <3>4. down' = Write(<<>>, f)
        BY <2>1, <2>3
      <3> HIDE DEF f
      <3>5. Aligned(ecu'.parser, ecu'.of, down', DataFrames)
        BY <1>e, <2>1, <3>3, <3>4, WriteAligned
      <3> QED BY <1>q, <2>1, <3>1, <3>2, <3>5 DEF Quiet
    <2>4. CASE ~MaySend(e, c)
      BY <1>q, <2>1, <2>2, <2>4 DEF Quiet
    <2> QED BY <2>3, <2>4
  <1>4. CASE EcuPoll
    <2> DEFINE g == FrameIn(ecu.parser)
               u == Fed(ecu, down)
               taken == Parsed(ecu.parser, down[1].b) /\ Accepted(g)
               f == Frame(ACK, g.seq, 0)
    <2>1. /\ down # <<>> /\ down' = Tail(down) /\ esp' = esp
          /\ taken => ecu' = ReceiverOnFrame(u, g) /\ up' = Write(up, f)
          /\ ~taken => ecu' = u /\ up' = up
      BY <1>4 DEF EcuPoll
    <2>2. up = <<>> /\ esp.waiting /\ ~esp.aged
      BY <1>q, <2>1
    <2>3. /\ ecu'.parser = ParserFeed(ecu.parser, down[1].b)
          /\ ecu'.of = Begun(ecu.parser, ecu.of, down[1])
      <3>1. u.parser = ParserFeed(ecu.parser, down[1].b) /\ u.of = Begun(ecu.parser, ecu.of, down[1])
        BY <1>t DEF Fed, Receivers
      <3>2. \A v : v = u => ReceiverOnFrame(v, g).parser = v.parser /\ ReceiverOnFrame(v, g).of = v.of
        BY <1>t DEF ReceiverOnFrame, Deliver, Fed, Receivers
      <3> HIDE DEF u, g, taken
      <3>3. ecu' = u \/ ecu' = ReceiverOnFrame(u, g)
        BY <2>1
      <3> QED BY <3>1, <3>2, <3>3
    <2>4. Aligned(ecu'.parser, ecu'.of, down', DataFrames)
      BY <1>t, <1>q, <2>1, <2>3, AlignedFacts, ReadAligned
    <2>5. CASE taken
      <3>1. Len(ecu.parser) = 5 /\ g.seq \in Byte
        BY <1>t, <2>5 DEF Parsed, FrameIn, Frame
      <3>2. Len(down) = 1
        BY <1>t, <1>q, <3>1, AlignedFacts
      <3>3. down' \in Seq([b : Byte, of : DataFrames \cup {NoFrame}]) /\ Len(down') = 0
        BY <1>t, <2>1, <3>2, TailIsThinned DEF Line
      <3>4. down' = <<>>
        BY <3>3, EmptySeq
      <3>5. f \in AckFrames /\ f.type \in Byte /\ f.seq \in Byte /\ f.cmd \in Byte
        BY <3>1, FrameFacts, Zenon
      <3>6. esp'.parser = <<>> /\ up' = Write(<<>>, f)
        BY <1>e, <2>1, <2>2, <2>5
      <3> HIDE DEF f
      <3>7. Aligned(esp'.parser, esp'.of, up', AckFrames)
        BY <3>5, <3>6, WriteAligned
      <3> QED BY <1>q, <2>1, <2>2, <2>4, <3>4, <3>7 DEF Quiet
    <2>6. CASE ~taken
      BY <1>q, <2>1, <2>2, <2>4, <2>6 DEF Quiet
    <2> QED BY <2>5, <2>6
  <1>5. CASE ConsumeCmd
    <2>1. /\ ecu' = [ecu EXCEPT !.taken = ecu.mailbox, !.mailbox = None]
          /\ esp' = esp /\ down' = down /\ up' = up
      BY <1>5 DEF ConsumeCmd
    <2>2. ecu'.parser = ecu.parser /\ ecu'.of = ecu.of
      BY <1>t, <2>1 DEF Receivers
    <2> QED BY <1>q, <2>1, <2>2 DEF Quiet
  <1>6. CASE UNCHANGED vars
    BY <1>q, <1>6 DEF Quiet, vars
  <1>7. ~EspRestart /\ ~EcuRestart /\ ~Noise
    <2>1. faults' # faults + 1 /\ restarts' # restarts + 1
      BY <1>q
    <2> QED BY <2>1 DEF EspRestart, EcuRestart, Noise
  <1> QED
    BY <1>1, <1>2, <1>3, <1>4, <1>5, <1>6, <1>7 DEF Next

LEMMA QuietIsAlwaysGenuine ==
    ASSUME BufferSize >= 6
    PROVE  Spec /\ [][UNCHANGED <<faults, restarts>>]_vars => []Genuine
  <1>1. WireOK /\ Quiet /\ [Next]_vars /\ [UNCHANGED <<faults, restarts>>]_vars
            => (WireOK /\ Quiet)'
    <2> SUFFICES ASSUME WireOK, Quiet, [Next]_vars, [UNCHANGED <<faults, restarts>>]_vars
                 PROVE  WireOK' /\ Quiet'
      BY Zenon
    <2>1. UNCHANGED <<faults, restarts>>
      BY DEF vars
    <2> QED BY <2>1, WireStep, QuietStep
  <1> QED
    BY <1>1, QuietInit, QuietIsGenuine, PTL DEF Spec

(* As long as no byte is lost or damaged, the ECU polls in every turn and  *)
(* neither side restarts, every frame that a parser completes is the one   *)
(* that was written, and what the theorems above say holds without their   *)
(* hypothesis, for every number space, retry limit and input buffer with   *)
(* room for a frame.                                                       *)
THEOREM QuietTheorem ==
    ASSUME BufferSize >= 6
    PROVE  Spec /\ [][UNCHANGED <<faults, restarts>>]_vars
               => []TypeOK /\ AckMeansDelivered /\ DeliveredOnce
  BY QuietIsAlwaysGenuine, TypeTheorem, AckTheorem, OnceTheorem, PTL

=============================================================================
