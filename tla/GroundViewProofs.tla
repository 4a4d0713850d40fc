-------------------------- MODULE GroundViewProofs ---------------------------
(***************************************************************************)
(* Proofs about LoraFrame and GroundView.  First the wire format alone: what *)
(* parse_telemetry reads from a frame is what make_lora_packet was given     *)
(* (RoundTrip), and a damaged frame is refused if the CRC works (CrcWorks).  *)
(* Then the way from the aircraft to the screen: ViewInv follows a packet    *)
(* over the network, the socket's buffer and the GUI's record, and bounds    *)
(* its age at each of them by the redraws it may have waited for.            *)
(***************************************************************************)
EXTENDS GroundView, SequenceTheorems, FiniteSetTheorems, TLAPS

LEMMA Sizes == Base \in Nat /\ Base >= 4 /\ Word \in Nat /\ Word >= 16 /\ Word = Base * Base
<1>1. Base \in Int
  BY FrameAssumption DEF Base
<1> HIDE DEF Base
<1> QED BY <1>1, FrameAssumption DEF Word

\* Quotient and remainder are what they are because of their size.
LEMMA Division ==
  ASSUME NEW m \in Nat \ {0}, NEW v \in Int, NEW q \in Int, NEW r \in 0..(m - 1), v = m * q + r
  PROVE  v \div m = q /\ v % m = r
  OBVIOUS

LEMMA Join ==
  ASSUME NEW b \in Nat \ {0}, NEW c \in Nat \ {0}, NEW v \in Int
  PROVE  (v % b) + b * ((v \div b) % c) = v % (b * c)
<1> DEFINE q == v \div b
<1>1. q \in Int /\ v = b * q + (v % b) /\ v % b \in 0..(b - 1)
  OBVIOUS
<1>2. q \div c \in Int /\ q = c * (q \div c) + (q % c) /\ q % c \in 0..(c - 1)
  BY <1>1
<1> HIDE DEF q
<1>3. b * c \in Nat \ {0}
  OBVIOUS
<1> DEFINE r == (v % b) + b * (q % c)
<1>4. r \in 0..(b * c - 1)
  <2>1. q % c <= c - 1 /\ q % c \in Nat /\ v % b <= b - 1 /\ v % b \in Nat
    BY <1>1, <1>2
  <2>2. b * (q % c) <= b * (c - 1) /\ b * (q % c) >= 0
    BY <2>1
  <2>3. b * (c - 1) = b * c - b
    OBVIOUS
  <2> QED BY <2>1, <2>2, <2>3
<1>5. v = (b * c) * (q \div c) + r
  <2> DEFINE x == q \div c
             y == q % c
  <2>1. x \in Int /\ y \in Int /\ q = c * x + y
    BY <1>2
  <2> HIDE DEF x, y
  <2>2. b * (c * x + y) = (b * c) * x + b * y
    BY <2>1
  <2>3. v = (b * c) * x + ((v % b) + b * y)
    BY <1>1, <2>1, <2>2
  <2> QED BY <2>3 DEF x, y
<1>6. v % (b * c) = r
  <2> HIDE DEF r
  <2> QED BY <1>2, <1>3, <1>4, <1>5, Division
<1> QED BY <1>6 DEF q

LEMMA SignedBack ==
  ASSUME NEW m \in Nat, m >= 2, NEW v \in -(m \div 2)..(m \div 2 - 1)
  PROVE  Signed(v % m, m) = v
<1>1. CASE v >= 0
  <2>1. v % m = v
    <3>1. v \in 0..(m - 1) /\ v = m * 0 + v
      BY <1>1
    <3> QED BY <3>1, Division
  <2> QED BY <1>1, <2>1 DEF Signed
<1>2. CASE v < 0
  <2>1. v % m = v + m
    <3>1. v + m \in 0..(m - 1) /\ v = m * (-1) + (v + m)
      BY <1>2
    <3> QED BY <3>1, Division
  <2> QED BY <1>2, <2>1 DEF Signed
<1> QED BY <1>1, <1>2


\* A number that is put is got back, but for what its bytes cannot hold.
LEMMA GetPut16 ==
  ASSUME NEW v \in Int, NEW f, NEW i,
         f[i + 1] = v % Base, f[i + 2] = (v \div Base) % Base
  PROVE  get_u16_le(f, i) = v % Word
<1>1. (v % Base) + Base * ((v \div Base) % Base) = v % (Base * Base)
  <2> Base \in Nat \ {0}
    BY Sizes
  <2> HIDE DEF Base
  <2> QED BY Join
<1> QED BY <1>1 DEF get_u16_le, Word

LEMMA GetPut32 ==
  ASSUME NEW v \in Int, NEW f, NEW i,
         get_u16_le(f, i) = v % Word, get_u16_le(f, i + 2) = (v \div Word) % Word
  PROVE  get_u32_le(f, i) = v % (Word * Word)
<1>1. (v % Word) + Word * ((v \div Word) % Word) = v % (Word * Word)
  <2> Word \in Nat \ {0}
    BY Sizes
  <2> HIDE DEF Word
  <2> QED BY Join
<1> QED BY <1>1 DEF get_u32_le

LEMMA GetPut64 ==
  ASSUME NEW v \in Int, NEW f, NEW i,
         get_u32_le(f, i) = v % (Word * Word),
         get_u32_le(f, i + 4) = (v \div (Word * Word)) % (Word * Word)
  PROVE  get_u64_le(f, i) = v % ((Word * Word) * (Word * Word))
<1> DEFINE w == Word * Word
<1>1. (v % w) + w * ((v \div w) % w) = v % (w * w)
  <2> w \in Nat \ {0}
    BY Sizes
  <2> HIDE DEF w
  <2> QED BY Join
<1> QED BY <1>1 DEF get_u64_le


\* v is what put_u16_le left at offset i of f.
PutAt(f, i, v) == f[i + 1] = v % Base /\ f[i + 2] = (v \div Base) % Base

LEMMA ConcatBytes ==
  ASSUME NEW s \in Seq(Byte), NEW u \in Seq(Byte)
  PROVE  s \o u \in Seq(Byte) /\ Len(s \o u) = Len(s) + Len(u)
BY ConcatProperties

LEMMA Put16Bytes ==
  ASSUME NEW v \in Int PROVE put_u16_le(v) \in Seq(Byte) /\ Len(put_u16_le(v)) = 2
<1>1. v % Base \in Byte /\ (v \div Base) % Base \in Byte
  <2> Base \in Nat /\ Base >= 4
    BY Sizes
  <2> HIDE DEF Base
  <2>1. v \div Base \in Int
    OBVIOUS
  <2> QED BY <2>1 DEF Byte
<1> QED BY <1>1 DEF put_u16_le

LEMMA Put32Bytes ==
  ASSUME NEW v \in Int PROVE put_u32_le(v) \in Seq(Byte) /\ Len(put_u32_le(v)) = 4
<1> DEFINE lo == put_u16_le(v)
           hi == put_u16_le(v \div Word)
<1>1. v \div Word \in Int
  BY Sizes
<1>2. lo \in Seq(Byte) /\ Len(lo) = 2 /\ hi \in Seq(Byte) /\ Len(hi) = 2
  BY <1>1, Put16Bytes
<1>3. put_u32_le(v) = lo \o hi
  BY DEF put_u32_le
<1> HIDE DEF lo, hi
<1>4. lo \o hi \in Seq(Byte) /\ Len(lo \o hi) = Len(lo) + Len(hi)
  BY <1>2, ConcatBytes, Zenon
<1> QED BY <1>2, <1>3, <1>4

LEMMA Put64Bytes ==
  ASSUME NEW v \in Int PROVE put_u64_le(v) \in Seq(Byte) /\ Len(put_u64_le(v)) = 8
<1> DEFINE lo == put_u32_le(v)
           hi == put_u32_le(v \div (Word * Word))
<1>1. v \div (Word * Word) \in Int
  <2>1. Word * Word \in Nat \ {0}
    BY Sizes
  <2> QED BY <2>1
<1>2. lo \in Seq(Byte) /\ Len(lo) = 4 /\ hi \in Seq(Byte) /\ Len(hi) = 4
  BY <1>1, Put32Bytes
<1>3. put_u64_le(v) = lo \o hi
  BY DEF put_u64_le
<1> HIDE DEF lo, hi
<1>4. lo \o hi \in Seq(Byte) /\ Len(lo \o hi) = Len(lo) + Len(hi)
  BY <1>2, ConcatBytes, Zenon
<1> QED BY <1>2, <1>3, <1>4

\* s is n bytes; one field more.
Bytes(s, n) == s \in Seq(Byte) /\ Len(s) = n
LEMMA Appended ==
  ASSUME NEW s, NEW n \in Nat, Bytes(s, n)
  PROVE  /\ \A u, k : Bytes(u, k) => Bytes(s \o u, n + k)
         /\ \A v \in Int : /\ Bytes(s \o put_u16_le(v), n + 2)
                          /\ Bytes(s \o put_u32_le(v), n + 4)
                          /\ Bytes(s \o put_u64_le(v), n + 8)
<1>1. ASSUME NEW u, NEW k, Bytes(u, k) PROVE Bytes(s \o u, n + k)
  <2>1. s \o u \in Seq(Byte) /\ Len(s \o u) = Len(s) + Len(u)
    BY <1>1, ConcatBytes, Zenon DEF Bytes
  <2> QED BY <1>1, <2>1, Zenon DEF Bytes
<1>2. ASSUME NEW v \in Int
      PROVE  Bytes(put_u16_le(v), 2) /\ Bytes(put_u32_le(v), 4) /\ Bytes(put_u64_le(v), 8)
  BY Put16Bytes, Put32Bytes, Put64Bytes, Zenon DEF Bytes
<1> QED BY <1>1, <1>2, Zenon

\* g begins with the bytes of s.
Begins(s, g) == \A i \in 1..Len(s) : g[i] = s[i]
LEMMA BeginsShorter ==
  ASSUME NEW s, NEW n \in Nat, Bytes(s, n), NEW u, NEW k \in Nat, Bytes(u, k),
         NEW g, Begins(s \o u, g)
  PROVE  Begins(s, g) /\ \A i \in 1..k : g[n + i] = u[i]
<1>1. /\ s \in Seq(Byte) /\ u \in Seq(Byte) /\ Len(s) = n /\ Len(u) = k
      /\ Len(s) \in Nat /\ Len(u) \in Nat
  BY DEF Bytes
<1> DEFINE su == s \o u
<1>2. /\ Len(su) = Len(s) + Len(u)
      /\ \A i \in 1..(Len(s) + Len(u)) :
           su[i] = IF i <= Len(s) THEN s[i] ELSE u[i - Len(s)]
  BY <1>1, ConcatProperties, Zenon
<1> HIDE DEF su
<1>3. ASSUME NEW i \in 1..Len(s) PROVE g[i] = s[i]
  <2>1. i \in 1..(Len(s) + Len(u)) /\ i <= Len(s) /\ i \in 1..Len(su)
    BY <1>1, <1>2
  <2>2. g[i] = su[i]
    BY <2>1 DEF Begins, su
  <2> QED BY <1>2, <2>1, <2>2
<1>4. ASSUME NEW i \in 1..k PROVE g[n + i] = u[i]
  <2>1. /\ n + i \in 1..(Len(s) + Len(u)) /\ n + i \in 1..Len(su)
        /\ ~(n + i <= Len(s)) /\ n + i - Len(s) = i
    BY <1>1, <1>2
  <2>2. g[n + i] = su[n + i]
    BY <2>1 DEF Begins, su
  <2>3. su[n + i] = u[n + i - Len(s)]
    <3> DEFINE j == n + i
    <3>1. j \in 1..(Len(s) + Len(u)) /\ ~(j <= Len(s))
      BY <2>1
    <3> HIDE DEF j
    <3>2. su[j] = u[j - Len(s)]
      BY <1>2, <3>1, Zenon
    <3> QED BY <3>2 DEF j
  <2> QED BY <2>1, <2>2, <2>3
<1> QED BY <1>3, <1>4 DEF Begins

\* The numbers as put_u16_le, put_u32_le and put_u64_le lay them out.
LEMMA Layout16 ==
  ASSUME NEW v \in Int
  PROVE  put_u16_le(v)[1] = v % Base /\ put_u16_le(v)[2] = (v \div Base) % Base
BY DEF put_u16_le

LEMMA Layout32 ==
  ASSUME NEW v \in Int
  PROVE  LET u == put_u32_le(v)
             w == v \div Word
         IN  /\ u[1] = v % Base /\ u[2] = (v \div Base) % Base
             /\ u[3] = w % Base /\ u[4] = (w \div Base) % Base
<1> DEFINE w == v \div Word
           lo == put_u16_le(v)
           hi == put_u16_le(w)
           u == put_u32_le(v)
<1>1. w \in Int
  BY Sizes
<1>2. Bytes(lo, 2) /\ Bytes(hi, 2)
  BY <1>1, Put16Bytes, Zenon DEF Bytes
<1>3. u = lo \o hi
  BY Zenon DEF put_u32_le
<1>4. /\ lo[1] = v % Base /\ lo[2] = (v \div Base) % Base
      /\ hi[1] = w % Base /\ hi[2] = (w \div Base) % Base
  BY <1>1, Layout16, Zenon
<1> HIDE DEF w, lo, hi, u
<1>5. (\A i \in 1..2 : u[i] = lo[i]) /\ (\A i \in 1..2 : u[2 + i] = hi[i])
  <2>1. Begins(lo \o hi, u)
    BY <1>3, Zenon DEF Begins
  <2>2. Begins(lo, u) /\ \A i \in 1..2 : u[2 + i] = hi[i]
    BY <1>2, <2>1, BeginsShorter
  <2> QED BY <1>2, <2>2, Zenon DEF Begins, Bytes
<1>6. u[1] = lo[1] /\ u[2] = lo[2] /\ u[3] = hi[1] /\ u[4] = hi[2]
  BY <1>5
<1> QED BY <1>4, <1>6, Zenon DEF u, w

LEMMA Layout64 ==
  ASSUME NEW v \in Int
  PROVE  LET u == put_u64_le(v)
             w == v \div Word
             h == v \div (Word * Word)
             x == h \div Word
         IN  /\ u[1] = v % Base /\ u[2] = (v \div Base) % Base
             /\ u[3] = w % Base /\ u[4] = (w \div Base) % Base
             /\ u[5] = h % Base /\ u[6] = (h \div Base) % Base
             /\ u[7] = x % Base /\ u[8] = (x \div Base) % Base
<1> DEFINE w == v \div Word
           h == v \div (Word * Word)
           x == h \div Word
           lo == put_u32_le(v)
           hi == put_u32_le(h)
           u == put_u64_le(v)
<1>1. h \in Int
  <2>1. Word * Word \in Nat \ {0}
    BY Sizes
  <2> QED BY <2>1
<1>2. Bytes(lo, 4) /\ Bytes(hi, 4)
  BY <1>1, Put32Bytes, Zenon DEF Bytes
<1>3. u = lo \o hi
  BY Zenon DEF put_u64_le
<1>4. /\ lo[1] = v % Base /\ lo[2] = (v \div Base) % Base
      /\ lo[3] = w % Base /\ lo[4] = (w \div Base) % Base
  BY Layout32, Zenon
<1>5. /\ hi[1] = h % Base /\ hi[2] = (h \div Base) % Base
      /\ hi[3] = x % Base /\ hi[4] = (x \div Base) % Base
  <2> HIDE DEF h
  <2> QED BY <1>1, Layout32, Zenon
<1> HIDE DEF w, h, x, lo, hi, u
<1>6. (\A i \in 1..4 : u[i] = lo[i]) /\ (\A i \in 1..4 : u[4 + i] = hi[i])
  <2>1. Begins(lo \o hi, u)
    BY <1>3, Zenon DEF Begins
  <2>2. Begins(lo, u) /\ \A i \in 1..4 : u[4 + i] = hi[i]
    BY <1>2, <2>1, BeginsShorter
  <2> QED BY <1>2, <2>2, Zenon DEF Begins, Bytes
<1>7. /\ u[1] = lo[1] /\ u[2] = lo[2] /\ u[3] = lo[3] /\ u[4] = lo[4]
      /\ u[5] = hi[1] /\ u[6] = hi[2] /\ u[7] = hi[3] /\ u[8] = hi[4]
  BY <1>6
<1> QED BY <1>4, <1>5, <1>7, Zenon DEF u, x, h, w

LEMMA PutLast ==
  ASSUME NEW s, NEW n \in Nat, Bytes(s, n), NEW g, NEW v \in Int
  PROVE  /\ Begins(s \o put_u16_le(v), g) => Begins(s, g) /\ PutAt(g, n, v)
         /\ Begins(s \o put_u32_le(v), g) =>
              Begins(s, g) /\ PutAt(g, n, v) /\ PutAt(g, n + 2, v \div Word)
<1>1. ASSUME Begins(s \o put_u16_le(v), g) PROVE Begins(s, g) /\ PutAt(g, n, v)
  <2> DEFINE u == put_u16_le(v)
  <2>1. Bytes(u, 2) /\ u[1] = v % Base /\ u[2] = (v \div Base) % Base
    <3>1. Bytes(u, 2)
      BY Put16Bytes DEF Bytes
    <3> QED BY <3>1 DEF put_u16_le
  <2> HIDE DEF u
  <2>2. Begins(s, g) /\ \A i \in 1..2 : g[n + i] = u[i]
    <3>1. Begins(s \o u, g)
      BY <1>1 DEF u
    <3> QED BY <2>1, <3>1, BeginsShorter
  <2> QED BY <2>1, <2>2 DEF PutAt
<1>2. ASSUME Begins(s \o put_u32_le(v), g)
      PROVE  Begins(s, g) /\ PutAt(g, n, v) /\ PutAt(g, n + 2, v \div Word)
  <2> DEFINE u == put_u32_le(v)
             w == v \div Word
  <2>1. Bytes(u, 4)
    BY Put32Bytes DEF Bytes
  <2>2. /\ u[1] = v % Base /\ u[2] = (v \div Base) % Base
        /\ u[3] = w % Base /\ u[4] = (w \div Base) % Base
    BY Layout32, Zenon
  <2> HIDE DEF u, w
  <2>3. Begins(s, g) /\ \A i \in 1..4 : g[n + i] = u[i]
    <3>1. Begins(s \o u, g)
      BY <1>2 DEF u
    <3> QED BY <2>1, <3>1, BeginsShorter
  <2>4. /\ g[n + 1] = v % Base /\ g[n + 2] = (v \div Base) % Base
        /\ g[n + 3] = w % Base /\ g[n + 4] = (w \div Base) % Base
    BY <2>2, <2>3
  <2>5. PutAt(g, n, v)
    BY <2>4 DEF PutAt
  <2>6. PutAt(g, n + 2, w)
    <3>1. n + 2 + 1 = n + 3 /\ n + 2 + 2 = n + 4
      OBVIOUS
    <3> QED BY <2>4, <3>1 DEF PutAt
  <2> QED BY <2>3, <2>5, <2>6 DEF w
<1> QED BY <1>1, <1>2

LEMMA PutLast64 ==
  ASSUME NEW s, NEW n \in Nat, Bytes(s, n), NEW g, NEW v \in Int,
         Begins(s \o put_u64_le(v), g)
  PROVE  /\ Begins(s, g)
         /\ PutAt(g, n, v) /\ PutAt(g, n + 2, v \div Word)
         /\ PutAt(g, n + 4, v \div (Word * Word))
         /\ PutAt(g, n + 6, (v \div (Word * Word)) \div Word)
<1> DEFINE u == put_u64_le(v)
           h == v \div (Word * Word)
           w == v \div Word
           x == h \div Word
<1>1. Bytes(u, 8)
  BY Put64Bytes DEF Bytes
<1>2. /\ u[1] = v % Base /\ u[2] = (v \div Base) % Base
      /\ u[3] = w % Base /\ u[4] = (w \div Base) % Base
      /\ u[5] = h % Base /\ u[6] = (h \div Base) % Base
      /\ u[7] = x % Base /\ u[8] = (x \div Base) % Base
  BY Layout64, Zenon
<1> HIDE DEF u, h, w, x
<1>3. Begins(s, g) /\ \A i \in 1..8 : g[n + i] = u[i]
  <2>1. Begins(s \o u, g)
    BY DEF u
  <2> QED BY <1>1, <2>1, BeginsShorter
<1>4. /\ g[n + 1] = v % Base /\ g[n + 2] = (v \div Base) % Base
      /\ g[n + 3] = w % Base /\ g[n + 4] = (w \div Base) % Base
      /\ g[n + 5] = h % Base /\ g[n + 6] = (h \div Base) % Base
      /\ g[n + 7] = x % Base /\ g[n + 8] = (x \div Base) % Base
  BY <1>2, <1>3
<1>5. /\ n + 2 + 1 = n + 3 /\ n + 2 + 2 = n + 4 /\ n + 4 + 1 = n + 5
      /\ n + 4 + 2 = n + 6 /\ n + 6 + 1 = n + 7 /\ n + 6 + 2 = n + 8
  OBVIOUS
<1>6. PutAt(g, n, v) /\ PutAt(g, n + 2, w) /\ PutAt(g, n + 4, h) /\ PutAt(g, n + 6, x)
  BY <1>4, <1>5 DEF PutAt
<1> QED BY <1>3, <1>6 DEF h, w, x

\* What make_lora_packet puts into g, and where.
Laid(g, t, at) ==
  /\ g[4] = Flags(t)
  /\ PutAt(g, 8, at)
  /\ PutAt(g, 10, at \div Word)
  /\ PutAt(g, 12, at \div (Word * Word))
  /\ PutAt(g, 14, (at \div (Word * Word)) \div Word)
  /\ PutAt(g, 16, Toward0(t.roll, AngleUnit))
  /\ PutAt(g, 18, Toward0(t.pitch, AngleUnit))
  /\ PutAt(g, 20, Toward0(t.yaw, AngleUnit))
  /\ g[23] = t.gps_fix_type /\ g[24] = t.gps_satellites
  /\ PutAt(g, 24, t.latitude_e7)
  /\ PutAt(g, 26, t.latitude_e7 \div Word)
  /\ PutAt(g, 28, t.longitude_e7)
  /\ PutAt(g, 30, t.longitude_e7 \div Word)
  /\ PutAt(g, 32, Toward0(t.altitude_mm, MmPerDm))
  /\ PutAt(g, 34, Toward0(t.relative_altitude_mm, MmPerDm))
  /\ PutAt(g, 36, t.velocity_x_cms)
  /\ PutAt(g, 38, t.velocity_y_cms)
  /\ PutAt(g, 40, t.velocity_z_cms)
  /\ PutAt(g, 42, t.ground_course_cdeg)

\* The fields take 44 bytes, and where make_lora_packet puts them is where
\* parse_telemetry looks for them.
LEMMA FieldsLaid ==
  ASSUME NEW t \in Reading, NEW n \in Int, NEW at \in Int
  PROVE  /\ Fields(t, n, at) \in Seq(Byte) /\ Len(Fields(t, n, at)) = 44
         /\ \A g : Begins(Fields(t, n, at), g) => Laid(g, t, at)
<1> DEFINE head == <<Magic0, Magic1, Version, Flags(t)>>
           fix == <<t.gps_fix_type, t.gps_satellites>>
<1>1. Base \in Nat /\ Base >= 4 /\ Word \in Nat /\ AngleUnit \in Nat \ {0}
      /\ MmPerDm \in Nat \ {0}
  BY Sizes, FrameAssumption
<1>2. head \in Seq(Byte) /\ Len(head) = 4 /\ head[4] = Flags(t)
  <2>1. Flags(t) \in 0..3
    BY DEF Flags
  <2>2. Flags(t) \in Byte
    BY <1>1, <2>1 DEF Byte
  <2> QED BY <2>2, FrameAssumption
<1>3. fix \in Seq(Byte) /\ Len(fix) = 2
      /\ fix[1] = t.gps_fix_type /\ fix[2] = t.gps_satellites
  BY DEF Reading
<1>4. /\ t.roll \in Int /\ t.pitch \in Int /\ t.yaw \in Int
      /\ t.latitude_e7 \in Int /\ t.longitude_e7 \in Int
      /\ t.altitude_mm \in Int /\ t.relative_altitude_mm \in Int
      /\ t.velocity_x_cms \in Int /\ t.velocity_y_cms \in Int /\ t.velocity_z_cms \in Int
      /\ t.ground_course_cdeg \in Int
  BY <1>1 DEF Reading, Int16, Int32
<1>5. ASSUME NEW x \in Int, NEW u \in Nat \ {0} PROVE Toward0(x, u) \in Int
  BY DEF Toward0
<1> DEFINE roll == Toward0(t.roll, AngleUnit)
           pitch == Toward0(t.pitch, AngleUnit)
           yaw == Toward0(t.yaw, AngleUnit)
           alt == Toward0(t.altitude_mm, MmPerDm)
           rel == Toward0(t.relative_altitude_mm, MmPerDm)
           lat == t.latitude_e7
           lon == t.longitude_e7
           vx == t.velocity_x_cms
           vy == t.velocity_y_cms
           vz == t.velocity_z_cms
           course == t.ground_course_cdeg
<1>6. roll \in Int /\ pitch \in Int /\ yaw \in Int /\ alt \in Int /\ rel \in Int
      /\ lat \in Int /\ lon \in Int /\ vx \in Int /\ vy \in Int /\ vz \in Int
      /\ course \in Int
  BY <1>1, <1>4, <1>5
<1> HIDE DEF head, fix, roll, pitch, yaw, alt, rel,
         lat, lon, vx, vy, vz, course
<1> DEFINE f1 == head \o put_u32_le(n)
           f2 == f1 \o put_u64_le(at)
           f3 == f2 \o put_u16_le(roll)
           f4 == f3 \o put_u16_le(pitch)
           f5 == f4 \o put_u16_le(yaw)
           f6 == f5 \o fix
           f7 == f6 \o put_u32_le(lat)
           f8 == f7 \o put_u32_le(lon)
           f9 == f8 \o put_u16_le(alt)
           f10 == f9 \o put_u16_le(rel)
           f11 == f10 \o put_u16_le(vx)
           f12 == f11 \o put_u16_le(vy)
           f13 == f12 \o put_u16_le(vz)
           f14 == f13 \o put_u16_le(course)
<1>7. Bytes(head, 4) /\ Bytes(fix, 2)
  BY <1>2, <1>3 DEF Bytes
<1>8. Bytes(f1, 8)
  BY <1>7, Appended
<1> HIDE DEF f1
<1>9. Bytes(f2, 16)
  BY <1>8, Appended
<1> HIDE DEF f2
<1>10. Bytes(f3, 18)
  BY <1>6, <1>9, Appended
<1> HIDE DEF f3
<1>11. Bytes(f4, 20)
  BY <1>6, <1>10, Appended
<1> HIDE DEF f4
<1>12. Bytes(f5, 22)
  BY <1>6, <1>11, Appended
<1> HIDE DEF f5
<1>13. Bytes(f6, 24)
  <2>1. Bytes(f6, 22 + 2)
    BY <1>7, <1>12, Appended, Zenon
  <2> QED BY <2>1
<1> HIDE DEF f6
<1>14. Bytes(f7, 28)
  BY <1>6, <1>13, Appended
<1> HIDE DEF f7
<1>15. Bytes(f8, 32)
  BY <1>6, <1>14, Appended
<1> HIDE DEF f8
<1>16. Bytes(f9, 34)
  BY <1>6, <1>15, Appended
<1> HIDE DEF f9
<1>17. Bytes(f10, 36)
  BY <1>6, <1>16, Appended
<1> HIDE DEF f10
<1>18. Bytes(f11, 38)
  BY <1>6, <1>17, Appended
<1> HIDE DEF f11
<1>19. Bytes(f12, 40)
  BY <1>6, <1>18, Appended
<1> HIDE DEF f12
<1>20. Bytes(f13, 42)
  BY <1>6, <1>19, Appended
<1> HIDE DEF f13
<1>21. Bytes(f14, 44)
  BY <1>6, <1>20, Appended
<1> HIDE DEF f14
<1>22. Fields(t, n, at) = f14
  BY DEF Fields, f14, f13, f12, f11, f10, f9, f8, f7, f6, f5, f4, f3, f2, f1,
         head, fix, roll, pitch, yaw, alt, rel,
         lat, lon, vx, vy, vz, course
<1>23. ASSUME NEW g, Begins(f14, g) PROVE Laid(g, t, at)
  <2>1. Begins(f13, g) /\ PutAt(g, 42, course)
    <3>1. Begins(f13 \o put_u16_le(course), g)
      BY <1>23 DEF f14
    <3> QED BY <1>6, <1>20, <3>1, PutLast
  <2>2. Begins(f12, g) /\ PutAt(g, 40, vz)
    <3>1. Begins(f12 \o put_u16_le(vz), g)
      BY <2>1 DEF f13
    <3> QED BY <1>6, <1>19, <3>1, PutLast
  <2>3. Begins(f11, g) /\ PutAt(g, 38, vy)
    <3>1. Begins(f11 \o put_u16_le(vy), g)
      BY <2>2 DEF f12
    <3> QED BY <1>6, <1>18, <3>1, PutLast
  <2>4. Begins(f10, g) /\ PutAt(g, 36, vx)
    <3>1. Begins(f10 \o put_u16_le(vx), g)
      BY <2>3 DEF f11
    <3> QED BY <1>6, <1>17, <3>1, PutLast
  <2>5. Begins(f9, g) /\ PutAt(g, 34, rel)
    <3>1. Begins(f9 \o put_u16_le(rel), g)
      BY <2>4 DEF f10
    <3> QED BY <1>6, <1>16, <3>1, PutLast
  <2>6. Begins(f8, g) /\ PutAt(g, 32, alt)
    <3>1. Begins(f8 \o put_u16_le(alt), g)
      BY <2>5 DEF f9
    <3> QED BY <1>6, <1>15, <3>1, PutLast
  <2>7. Begins(f7, g) /\ PutAt(g, 28, lon) /\ PutAt(g, 30, lon \div Word)
    <3>1. Begins(f7 \o put_u32_le(lon), g)
      BY <2>6 DEF f8
    <3>2. PutAt(g, 28 + 2, lon \div Word) /\ 28 + 2 = 30
      BY <1>6, <1>14, <3>1, PutLast
    <3> QED BY <1>6, <1>14, <3>1, <3>2, PutLast
  <2>8. Begins(f6, g) /\ PutAt(g, 24, lat) /\ PutAt(g, 26, lat \div Word)
    <3>1. Begins(f6 \o put_u32_le(lat), g)
      BY <2>7 DEF f7
    <3>2. PutAt(g, 24 + 2, lat \div Word) /\ 24 + 2 = 26
      BY <1>6, <1>13, <3>1, PutLast
    <3> QED BY <1>6, <1>13, <3>1, <3>2, PutLast
  <2>9. Begins(f5, g) /\ g[23] = t.gps_fix_type /\ g[24] = t.gps_satellites
    <3>1. Begins(f5 \o fix, g)
      BY <2>8 DEF f6
    <3>2. Begins(f5, g) /\ \A i \in 1..2 : g[22 + i] = fix[i]
      BY <1>7, <1>12, <3>1, BeginsShorter
    <3>3. g[22 + 1] = fix[1] /\ g[22 + 2] = fix[2]
      BY <3>2
    <3> QED BY <1>3, <3>2, <3>3
  <2>10. Begins(f4, g) /\ PutAt(g, 20, yaw)
    <3>1. Begins(f4 \o put_u16_le(yaw), g)
      BY <2>9 DEF f5
    <3> QED BY <1>6, <1>11, <3>1, PutLast
  <2>11. Begins(f3, g) /\ PutAt(g, 18, pitch)
    <3>1. Begins(f3 \o put_u16_le(pitch), g)
      BY <2>10 DEF f4
    <3> QED BY <1>6, <1>10, <3>1, PutLast
  <2>12. Begins(f2, g) /\ PutAt(g, 16, roll)
    <3>1. Begins(f2 \o put_u16_le(roll), g)
      BY <2>11 DEF f3
    <3> QED BY <1>6, <1>9, <3>1, PutLast
  <2>13. Begins(f1, g) /\ PutAt(g, 8, at) /\ PutAt(g, 10, at \div Word)
        /\ PutAt(g, 12, at \div (Word * Word))
        /\ PutAt(g, 14, (at \div (Word * Word)) \div Word)
    <3>1. Begins(f1 \o put_u64_le(at), g)
      BY <2>12 DEF f2
    <3>2. /\ Begins(f1, g) /\ PutAt(g, 8, at) /\ PutAt(g, 8 + 2, at \div Word)
          /\ PutAt(g, 8 + 4, at \div (Word * Word))
          /\ PutAt(g, 8 + 6, (at \div (Word * Word)) \div Word)
      BY <1>8, <3>1, PutLast64
    <3>3. 8 + 2 = 10 /\ 8 + 4 = 12 /\ 8 + 6 = 14
      OBVIOUS
    <3> QED BY <3>2, <3>3
  <2>14. Begins(head, g)
    <3>1. Begins(head \o put_u32_le(n), g)
      BY <2>13 DEF f1
    <3> QED BY <1>7, <3>1, PutLast
  <2>15. g[4] = Flags(t)
    <3>1. 4 \in 1..Len(head)
      BY <1>2
    <3> QED BY <1>2, <2>14, <3>1 DEF Begins
  <2> HIDE DEF PutAt
  <2> QED BY <2>1, <2>2, <2>3, <2>4, <2>5, <2>6, <2>7, <2>8, <2>9, <2>10, <2>11, <2>12,
             <2>13, <2>15
          DEF Laid, roll, pitch, yaw, alt, rel, lat, lon, vx, vy, vz, course
<1> QED BY <1>21, <1>22, <1>23 DEF Bytes

\* ... in the whole frame, too, which is two bytes longer.
LEMMA FieldBytes ==
  ASSUME NEW t \in Reading, NEW n \in Int, NEW at \in Int
  PROVE  Laid(make_lora_packet(t, n, at), t, at)
<1> DEFINE s == Fields(t, n, at)
           c == put_u16_le(crc16_ccitt(s, Len(s)))
<1>1. s \in Seq(Byte) /\ \A g : Begins(s, g) => Laid(g, t, at)
  BY FieldsLaid
<1>2. make_lora_packet(t, n, at) = s \o c
  BY DEF make_lora_packet
<1>3. PICK S : s \in Seq(S) /\ c \in Seq(S)
  <2>1. PICK a, b : c = <<a, b>>
    BY DEF put_u16_le
  <2> DEFINE S == Byte \cup {a, b}
  <2>2. \A i \in 1..Len(s) : s[i] \in Byte
    BY <1>1, ElementOfSeq
  <2>3. s \in Seq(Byte \cup {a, b}) /\ c \in Seq(Byte \cup {a, b})
    <3> HIDE DEF s, c
    <3> QED BY <1>1, <2>1
  <2> QED BY <2>3
<1> HIDE DEF s, c
<1> DEFINE f == s \o c
<1>4. Len(s) \in Nat /\ Len(c) \in Nat
  BY <1>3
<1>5. \A i \in 1..(Len(s) + Len(c)) : f[i] = IF i <= Len(s) THEN s[i] ELSE c[i - Len(s)]
  BY <1>3, ConcatProperties, Zenon
<1> HIDE DEF f
<1>6. Begins(s, f)
  <2>1. \A i \in 1..Len(s) : i \in 1..(Len(s) + Len(c)) /\ i <= Len(s)
    BY <1>4
  <2> QED BY <1>5, <2>1 DEF Begins
<1>7. Laid(f, t, at)
  BY <1>1, <1>6
<1> QED BY <1>2, <1>7 DEF f

LEMMA Get16 ==
  ASSUME NEW f, NEW i \in Nat, NEW v \in Int, PutAt(f, i, v)
  PROVE  /\ get_u16_le(f, i) = v % Word
         /\ v \in 0..(Word - 1) => get_u16_le(f, i) = v
         /\ v \in Int16 => get_i16_le(f, i) = v
<1>1. get_u16_le(f, i) = v % Word
  BY GetPut16 DEF PutAt
<1>2. Word \in Nat /\ Word >= 2
  BY Sizes
<1>3. ASSUME v \in 0..(Word - 1) PROVE v % Word = v
  <2>1. v = Word * 0 + v
    BY <1>2
  <2> QED BY <1>2, <1>3, <2>1, Division
<1>4. ASSUME v \in Int16 PROVE Signed(v % Word, Word) = v
  BY <1>2, <1>4, SignedBack DEF Int16
<1> QED BY <1>1, <1>3, <1>4 DEF get_i16_le

LEMMA Get32 ==
  ASSUME NEW f, NEW i \in Nat, NEW v \in Int32, PutAt(f, i, v), PutAt(f, i + 2, v \div Word)
  PROVE  get_i32_le(f, i) = v
<1>1. v \in Int /\ Word \in Nat /\ Word >= 16
  BY Sizes DEF Int32
<1>2. v \div Word \in Int
  BY <1>1
<1>3. get_u32_le(f, i) = v % (Word * Word)
  BY <1>1, <1>2, Get16, GetPut32
<1>4. Word * Word \in Nat /\ Word * Word >= 2
  BY <1>1
<1>5. Signed(v % (Word * Word), Word * Word) = v
  <2> DEFINE m == Word * Word
  <2>1. v \in -(m \div 2)..(m \div 2 - 1) /\ m \in Nat /\ m >= 2
    BY <1>4 DEF Int32
  <2> HIDE DEF m
  <2>2. Signed(v % m, m) = v
    BY <2>1, SignedBack
  <2> QED BY <2>2 DEF m
<1> QED BY <1>3, <1>5 DEF get_i32_le

LEMMA Get64 ==
  ASSUME NEW f, NEW i \in Nat, NEW v \in Nat, v < Word * Word * Word * Word,
         PutAt(f, i, v), PutAt(f, i + 2, v \div Word),
         PutAt(f, i + 4, v \div (Word * Word)),
         PutAt(f, i + 6, (v \div (Word * Word)) \div Word)
  PROVE  get_u64_le(f, i) = v
<1> DEFINE m == Word * Word
           h == v \div m
<1>1. Word \in Nat /\ Word >= 16 /\ m \in Nat /\ m >= 16
  BY Sizes
<1>2. h \in Int /\ v \div Word \in Int /\ h \div Word \in Int
  BY <1>1
<1>3. get_u32_le(f, i) = v % m
  BY <1>1, <1>2, Get16, GetPut32
<1>4. get_u32_le(f, i + 4) = h % m
  <2>1. get_u16_le(f, i + 4) = h % Word
    BY <1>2, Get16
  <2>2. get_u16_le(f, i + 6) = (h \div Word) % Word
    BY <1>2, Get16
  <2>3. i + 4 + 2 = i + 6
    OBVIOUS
  <2>4. get_u16_le(f, i + 4 + 2) = (h \div Word) % Word
    BY <2>2, <2>3
  <2> HIDE DEF h
  <2> QED BY <1>2, <2>1, <2>4, GetPut32
<1>5. get_u64_le(f, i) = v % (m * m)
  BY <1>3, <1>4, GetPut64
<1>6. v % (m * m) = v
  <2>1. m * m = Word * Word * Word * Word
    BY <1>1
  <2>2. m * m \in Nat \ {0} /\ v \in 0..(m * m - 1)
    <3> HIDE DEF m
    <3>1. m * m \in Nat
      BY <1>1
    <3> QED BY <2>1, <3>1
  <2>3. v = (m * m) * 0 + v
    BY <2>2
  <2> DEFINE mm == m * m
  <2> HIDE DEF mm
  <2>4. v % mm = v
    BY <2>2, <2>3, Division DEF mm
  <2> QED BY <2>4 DEF mm
<1> QED BY <1>5, <1>6

\* Rounding toward 0 is less than a unit off, stays on its side of 0, and fits.
LEMMA Rounds ==
  ASSUME NEW x \in Int, NEW u \in Nat \ {0}, Fits(x, u)
  PROVE  Toward0(x, u) \in Int16 /\ Near(Toward0(x, u), x, u)
<1> DEFINE h == Word \div 2
<1>1. h \in Nat /\ x < u * h /\ -x < u * h
  BY Sizes DEF Fits, Near
<1> HIDE DEF h
<1>2. ASSUME NEW y \in Nat, y < u * h
      PROVE  /\ y \div u \in 0..(h - 1)
             /\ (y \div u) * u <= y /\ y - (y \div u) * u < u
  <2>1. y = u * (y \div u) + (y % u) /\ y % u \in 0..(u - 1) /\ y \div u \in Int
    OBVIOUS
  <2> DEFINE q == y \div u
             r == y % u
  <2>2. q \in Int /\ r \in 0..(u - 1) /\ y = u * q + r
    BY <2>1
  <2> HIDE DEF q, r
  <2>3. q >= 0
    <3> SUFFICES ASSUME q <= -1 PROVE FALSE
      BY <2>2
    <3>1. u * q <= u * (-1)
      BY <2>2
    <3> QED BY <2>2, <3>1
  <2>4. q < h
    <3> SUFFICES ASSUME q >= h PROVE FALSE
      BY <1>1, <2>2
    <3>1. u * q >= u * h
      BY <1>1, <2>2
    <3> QED BY <1>1, <1>2, <2>2, <3>1
  <2>5. q * u <= y /\ y - q * u < u
    BY <2>2
  <2> QED BY <1>1, <2>2, <2>3, <2>4, <2>5 DEF q
<1>3. CASE x >= 0
  <2> DEFINE q == x \div u
  <2>1. q \in 0..(h - 1) /\ q * u <= x /\ x - q * u < u
    BY <1>1, <1>2, <1>3
  <2>2. Toward0(x, u) = q
    BY <1>3 DEF Toward0
  <2> HIDE DEF q
  <2>3. q \in Int16
    BY <1>1, <2>1 DEF Int16, h
  <2>4. q * x >= 0
    BY <1>1, <1>3, <2>1
  <2>5. Near(q, x, u)
    BY <1>1, <2>1, <2>4 DEF Near
  <2> QED BY <2>2, <2>3, <2>5
<1>4. CASE x < 0
  <2> DEFINE q == (-x) \div u
  <2>1. q \in 0..(h - 1) /\ q * u <= -x /\ -x - q * u < u
    BY <1>1, <1>2, <1>4
  <2>2. Toward0(x, u) = -q
    BY <1>4 DEF Toward0
  <2> HIDE DEF q
  <2>3. -q \in Int16
    BY <1>1, <2>1 DEF Int16, h
  <2>4. (-q) * x >= 0 /\ (-q) * u = -(q * u)
    BY <1>1, <1>4, <2>1
  <2>5. Near(-q, x, u)
    BY <1>1, <2>1, <2>4 DEF Near
  <2> QED BY <2>2, <2>3, <2>5
<1> QED BY <1>3, <1>4

LEMMA FlagsBack ==
  ASSUME NEW t \in Reading
  PROVE  /\ Bit(Flags(t), 0) = t.attitude_valid
         /\ Bit(Flags(t), 1) = t.gps_valid
<1>1. t.attitude_valid \in BOOLEAN /\ t.gps_valid \in BOOLEAN
  BY DEF Reading
<1>2. 2^0 = 1 /\ 2^1 = 2
  OBVIOUS
<1>3. Bit(Flags(t), 0) <=> t.attitude_valid
  BY <1>1, <1>2 DEF Bit, Flags
<1>4. Bit(Flags(t), 1) <=> t.gps_valid
  BY <1>1, <1>2 DEF Bit, Flags
<1>5. Bit(Flags(t), 0) \in BOOLEAN /\ Bit(Flags(t), 1) \in BOOLEAN
  BY DEF Bit
<1> QED BY <1>1, <1>3, <1>4, <1>5, Zenon

\* What parse_telemetry reads from a frame is what make_lora_packet was given,
\* to the resolution of the wire: for every reading, number and time the types
\* of the code can hold.
THEOREM RoundTrip ==
  ASSUME NEW t \in Readings, NEW n \in Nat, NEW at \in StartTime..MaxTime, NEW now
  PROVE  Holds(Parsed(make_lora_packet(t, n, at), now), [telemetry |-> t, at |-> at])
<1> DEFINE f == make_lora_packet(t, n, at)
           g == Parsed(f, now)
           p == [telemetry |-> t, at |-> at]
<1>1. t \in Reading /\ Fits(t.roll, AngleUnit) /\ Fits(t.pitch, AngleUnit)
      /\ Fits(t.yaw, AngleUnit)
  BY ReadingsAssumption
<1>2. at \in Nat /\ at < Word * Word * Word * Word
  <2>1. StartTime \in Nat /\ MaxTime \in Nat /\ MaxTime < Word * Word * Word * Word
    BY ViewAssumption, ReadingsAssumption
  <2>2. Word * Word * Word * Word \in Nat
    BY Sizes
  <2> QED BY <2>1, <2>2
<1>3. p.telemetry = t /\ p.at = at
  OBVIOUS
<1>0. Laid(f, t, at)
  <2>1. n \in Int /\ at \in Int
    BY <1>2
  <2> QED BY <1>1, <2>1, FieldBytes
<1>4. f[4] = Flags(t) /\ f[23] = t.gps_fix_type /\ f[24] = t.gps_satellites
  BY <1>0, Zenon DEF Laid
<1>5. PutAt(f, 8, at) /\ PutAt(f, 10, at \div Word) /\ PutAt(f, 12, at \div (Word * Word))
      /\ PutAt(f, 14, (at \div (Word * Word)) \div Word)
  BY <1>0, Zenon DEF Laid
<1>6. /\ PutAt(f, 16, Toward0(t.roll, AngleUnit)) /\ PutAt(f, 18, Toward0(t.pitch, AngleUnit))
      /\ PutAt(f, 20, Toward0(t.yaw, AngleUnit))
  BY <1>0, Zenon DEF Laid
<1>7. /\ PutAt(f, 24, t.latitude_e7) /\ PutAt(f, 26, t.latitude_e7 \div Word)
      /\ PutAt(f, 28, t.longitude_e7) /\ PutAt(f, 30, t.longitude_e7 \div Word)
  BY <1>0, Zenon DEF Laid
<1>8. /\ PutAt(f, 32, Toward0(t.altitude_mm, MmPerDm))
      /\ PutAt(f, 34, Toward0(t.relative_altitude_mm, MmPerDm))
  BY <1>0, Zenon DEF Laid
<1>9. /\ PutAt(f, 36, t.velocity_x_cms) /\ PutAt(f, 38, t.velocity_y_cms)
      /\ PutAt(f, 40, t.velocity_z_cms) /\ PutAt(f, 42, t.ground_course_cdeg)
  BY <1>0, Zenon DEF Laid
<1> HIDE DEF f
<1>10. g.attitude_valid = t.attitude_valid /\ g.gps_valid = t.gps_valid
  BY <1>1, <1>4, FlagsBack DEF Parsed
<1>11. g.timestamp_ms = at
  <2>1. 8 + 2 = 10 /\ 8 + 4 = 12 /\ 8 + 6 = 14 /\ 8 \in Nat
    OBVIOUS
  <2>2. get_u64_le(f, 8) = at
    BY <1>2, <1>5, <2>1, Get64
  <2> QED BY <2>2 DEF Parsed
<1>12. NearAngles(<<g.roll, g.pitch, g.yaw>>, t)
  <2>1. t.roll \in Int /\ t.pitch \in Int /\ t.yaw \in Int /\ AngleUnit \in Nat \ {0}
    BY <1>1, FrameAssumption DEF Reading
  <2>2. /\ Toward0(t.roll, AngleUnit) \in Int16 /\ Near(Toward0(t.roll, AngleUnit), t.roll, AngleUnit)
        /\ Toward0(t.pitch, AngleUnit) \in Int16
        /\ Near(Toward0(t.pitch, AngleUnit), t.pitch, AngleUnit)
        /\ Toward0(t.yaw, AngleUnit) \in Int16 /\ Near(Toward0(t.yaw, AngleUnit), t.yaw, AngleUnit)
    BY <1>1, <2>1, Rounds
  <2>3. Int16 \subseteq Int
    BY Sizes DEF Int16
  <2>4. /\ get_i16_le(f, 16) = Toward0(t.roll, AngleUnit)
        /\ get_i16_le(f, 18) = Toward0(t.pitch, AngleUnit)
        /\ get_i16_le(f, 20) = Toward0(t.yaw, AngleUnit)
    BY <1>6, <2>2, <2>3, Get16
  <2>5. /\ g.roll = Toward0(t.roll, AngleUnit) /\ g.pitch = Toward0(t.pitch, AngleUnit)
        /\ g.yaw = Toward0(t.yaw, AngleUnit)
    BY <2>4 DEF Parsed
  <2> HIDE DEF g
  <2> QED BY <2>2, <2>5 DEF NearAngles
<1>13. /\ g.gps_fix = t.gps_fix_type /\ g.gps_sats = t.gps_satellites
       /\ g.latitude = t.latitude_e7 /\ g.longitude = t.longitude_e7
  <2>1. t.latitude_e7 \in Int32 /\ t.longitude_e7 \in Int32
    BY <1>1 DEF Reading
  <2>2. 24 \in Nat /\ 28 \in Nat /\ 24 + 2 = 26 /\ 28 + 2 = 30
    OBVIOUS
  <2>3. get_i32_le(f, 24) = t.latitude_e7
    BY <1>7, <2>1, <2>2, Get32
  <2>4. get_i32_le(f, 28) = t.longitude_e7
    BY <1>7, <2>1, <2>2, Get32
  <2> QED BY <1>4, <2>3, <2>4 DEF Parsed
<1>14. NearAltitude(g.altitude, t.altitude_mm)
       /\ NearAltitude(g.relative_altitude, t.relative_altitude_mm)
  <2>1. /\ t.altitude_mm \in Int /\ t.relative_altitude_mm \in Int
        /\ MmPerDm \in Nat \ {0} /\ Int16 \subseteq Int
    BY <1>1, FrameAssumption, Sizes DEF Reading, Int32, Int16
  <2>2. ASSUME NEW x \in Int, NEW i \in Nat, PutAt(f, i, Toward0(x, MmPerDm)), Fits(x, MmPerDm)
        PROVE  Near(get_i16_le(f, i), x, MmPerDm)
    <3>1. Toward0(x, MmPerDm) \in Int16 /\ Near(Toward0(x, MmPerDm), x, MmPerDm)
      BY <2>1, <2>2, Rounds
    <3>2. get_i16_le(f, i) = Toward0(x, MmPerDm)
      BY <2>1, <2>2, <3>1, Get16
    <3> QED BY <3>1, <3>2
  <2>3. g.altitude = get_i16_le(f, 32) /\ g.relative_altitude = get_i16_le(f, 34)
    BY DEF Parsed
  <2> HIDE DEF g
  <2> QED BY <1>8, <2>1, <2>2, <2>3 DEF NearAltitude
<1>15. <<g.velocity_x, g.velocity_y, g.velocity_z>> = VelocityOf(t)
       /\ g.heading = t.ground_course_cdeg
  <2>1. /\ t.velocity_x_cms \in Int16 /\ t.velocity_y_cms \in Int16
        /\ t.velocity_z_cms \in Int16 /\ t.ground_course_cdeg \in 0..(Word - 1)
        /\ Int16 \subseteq Int /\ 0..(Word - 1) \subseteq Int
    BY <1>1, Sizes DEF Reading, Int16
  <2>2. /\ get_i16_le(f, 36) = t.velocity_x_cms /\ get_i16_le(f, 38) = t.velocity_y_cms
        /\ get_i16_le(f, 40) = t.velocity_z_cms
    BY <1>9, <2>1, Get16
  <2>3. get_u16_le(f, 42) = t.ground_course_cdeg
    BY <1>9, <2>1, Get16
  <2> QED BY <2>2, <2>3 DEF Parsed, VelocityOf
<1> HIDE DEF g
<1>16. Holds(g, p)
  <2> HIDE DEF p
  <2> QED BY <1>3, <1>10, <1>11, <1>12, <1>13, <1>14, <1>15 DEF Holds
<1> QED BY <1>16 DEF f, g, p

\* A frame, whole or damaged, is bytes; damaged it is not taken.
LEMMA FrameBytes ==
  ASSUME CrcWorks,
         NEW t \in Readings, NEW n \in 0..(MaxSent - 1), NEW at \in StartTime..MaxTime
  PROVE  Bytes(make_lora_packet(t, n, at), FRAME_SIZE)
<1> DEFINE f == Fields(t, n, at)
           crc == put_u16_le(crc16_ccitt(f, Len(f)))
<1>1. f \in Seq(Byte) /\ Len(f) = 44
  BY FieldsLaid, ViewAssumption, ReadingsAssumption
<1>2. crc16_ccitt(f, 44) \in Int
  <2>1. crc16_ccitt(f, FRAME_SIZE - 2) \in 0..(Word - 1) /\ Word \in Nat
    BY Sizes DEF CrcWorks
  <2> QED BY <2>1 DEF FRAME_SIZE
<1>3. crc \in Seq(Byte) /\ Len(crc) = 2
  BY <1>1, <1>2, Put16Bytes
<1>4. make_lora_packet(t, n, at) = f \o crc
  BY DEF make_lora_packet
<1> HIDE DEF f, crc
<1>5. f \o crc \in Seq(Byte) /\ Len(f \o crc) = Len(f) + Len(crc)
  BY <1>1, <1>3, ConcatBytes, Zenon
<1> QED BY <1>1, <1>3, <1>4, <1>5 DEF Bytes, FRAME_SIZE

LEMMA DamagedBytes ==
  ASSUME NEW f, Bytes(f, FRAME_SIZE), NEW d \in Damaged(f)
  PROVE  d \in Seq(Byte)
<1>1. f \in Seq(Byte) /\ Len(f) = 46
  BY DEF Bytes, FRAME_SIZE
<1>2. CASE d = <<>>
  BY <1>2
<1>3. CASE d = SubSeq(f, 1, FRAME_SIZE - 1)
  <2>1. ASSUME NEW i \in 1..45 PROVE f[i] \in Byte
    <3>1. i \in 1..Len(f)
      BY <1>1
    <3> QED BY <1>1, <3>1, ElementOfSeq
  <2>2. SubSeq(f, 1, 45) \in Seq(Byte)
    BY <2>1, SubSeqProperties
  <2> QED BY <1>3, <2>2 DEF FRAME_SIZE
<1>4. ASSUME NEW k \in DamageAt, d = OneByteOff(f, k) PROVE d \in Seq(Byte)
  <2>1. k \in 1..46
    BY ViewAssumption DEF FRAME_SIZE
  <2> DEFINE e == (f[k] + 1) % Base
  <2>2. e \in Byte
    <3>1. f[k] \in Byte /\ Base \in Nat /\ Base >= 4
      BY <1>1, <2>1, ElementOfSeq, Sizes
    <3> HIDE DEF Base
    <3> QED BY <3>1 DEF Byte
  <2>3. d = [f EXCEPT ![k] = e]
    BY <1>4 DEF OneByteOff
  <2> HIDE DEF e
  <2> QED BY <1>1, <2>1, <2>2, <2>3, ExceptSeq
<1> QED BY <1>2, <1>3, <1>4 DEF Damaged

LEMMA DamagedIsInvalid ==
  ASSUME CrcWorks,
         NEW t \in Readings, NEW n \in 0..(MaxSent - 1), NEW at \in StartTime..MaxTime,
         NEW d \in Damaged(make_lora_packet(t, n, at))
  PROVE  ~Valid(d)
<1> DEFINE f == make_lora_packet(t, n, at)
<1>1. f \in Seq(Byte) /\ Len(f) = 46
  BY FrameBytes DEF Bytes, FRAME_SIZE
<1>2. CASE d = <<>>
  <2>1. Len(d) = 0
    BY <1>2
  <2> QED BY <2>1 DEF Valid, FRAME_SIZE
<1>3. CASE d = SubSeq(f, 1, FRAME_SIZE - 1)
  <2> HIDE DEF f
  <2>1. ASSUME NEW i \in 1..45 PROVE f[i] \in Byte
    <3>1. i \in 1..Len(f)
      BY <1>1
    <3> QED BY <1>1, <3>1, ElementOfSeq
  <2>2. Len(SubSeq(f, 1, 45)) = 45
    BY <2>1, SubSeqProperties
  <2> QED BY <1>3, <2>2 DEF Valid, FRAME_SIZE
<1>4. ASSUME NEW k \in DamageAt, d = OneByteOff(f, k) PROVE ~Valid(d)
  BY <1>4, Zenon DEF CrcWorks, Valid
<1> QED BY <1>2, <1>3, <1>4 DEF Damaged

-----------------------------------------------------------------------------
\* The frame of packet p, the i-th that was sent.
Packet == [telemetry : Readings, at : StartTime..MaxTime]
FrameOf(p, i) == make_lora_packet(p.telemetry, i - 1, p.at)

Packets ==
  /\ clock \in StartTime..MaxTime /\ noise \in 0..MaxNoise
  /\ sent \in Seq(Packet) /\ Len(sent) <= MaxSent

\* On the network are frames of the aircraft only, none for too long.
OnWay ==
  \A m \in net : \E i \in 1..Len(sent) :
    m.frame = FrameOf(sent[i], i) /\ m.due = sent[i].at + MaxDelay /\ clock <= m.due

\* Empty datagrams among the first n of b: each of them ends a drain.
Ends(b, n) == Cardinality({l \in 1..n : b[l] = <<>>})

\* How many redraws the j-th datagram of the buffer may have waited for: one
\* that was under way when it came, one for every empty datagram so far, but
\* for those that are still before it.
Waited(j) == (noise + 1) - Ends(buffer, j - 1) - (IF pc = "draw" THEN 1 ELSE 0)

\* What of the redraw under way is still to come when the window is drawn.
Left == IF pc = "compose" THEN DrawTime ELSE 0

Waiting ==
  /\ buffer \in Seq(Seq(Byte)) /\ Len(buffer) <= Capacity
  /\ Ends(buffer, Len(buffer)) <= noise
  /\ \A j \in 1..Len(buffer) : Valid(buffer[j]) =>
       \E i \in 1..Len(sent) :
         /\ buffer[j] = FrameOf(sent[i], i)
         /\ clock <= sent[i].at + MaxDelay + Redraw * Waited(j) - Left

Held ==
  /\ DOMAIN telemetry = DOMAIN Cleared
  /\ telemetry.received_ms \in 0..clock
  /\ telemetry.received_ms = 0 => telemetry = Cleared
  /\ telemetry # Cleared =>
       \E i \in 1..Len(sent) :
         /\ Holds(telemetry, sent[i])
         /\ telemetry.received_ms <= sent[i].at + MaxDelay + Redraw * (MaxNoise + 1)

Drawing ==
  /\ pc \in {"poll", "polled", "drain", "draw", "compose", "refresh", "ended"}
  /\ window.view \in {"blank", "small", "data"}
  /\ screen.view \in {"blank", "small", "data", "closed"}

\* Drawing s shows one packet and, if it says ONLINE, one younger than age.
Sound(s, age) ==
  s.view = "data" =>
    IF s.last = "never"
    THEN ~s.online /\ s.attitude = <<>> /\ s.gps = <<>>
    ELSE \E i \in 1..Len(sent) :
           /\ Shows(s, sent[i].telemetry)
           /\ s.online => clock - sent[i].at < age

\* What is on the terminal stays there until the next refresh(): the younger
\* it has to be the further that is away.
ToRefresh ==
  IF pc = "poll" THEN PollTime + Redraw
  ELSE IF pc \in {"polled", "drain", "draw"} THEN Redraw
  ELSE IF pc = "compose" THEN DrawTime ELSE 0
Screened ==
  /\ Sound(screen, Horizon - ToRefresh)
  /\ pc = "refresh" => Sound(window, Horizon - (PollTime + Redraw))

ViewInv == Packets /\ OnWay /\ Waiting /\ Held /\ Drawing /\ Screened
-----------------------------------------------------------------------------
LEMMA EndsFinite ==
  ASSUME NEW b, NEW n \in Nat
  PROVE  Ends(b, n) \in Nat /\ IsFiniteSet({l \in 1..n : b[l] = <<>>})
<1>1. IsFiniteSet(1..n)
  BY FS_Interval
<1>2. IsFiniteSet({l \in 1..n : b[l] = <<>>})
  BY <1>1, FS_Subset
<1> QED BY <1>2, FS_CardinalityType DEF Ends

\* The first datagram is read: those before another one become one fewer when
\* it ended a drain.
LEMMA EndsTail ==
  ASSUME NEW S, NEW b \in Seq(S), b # <<>>, NEW n \in 0..(Len(b) - 1)
  PROVE  Ends(Tail(b), n) + (IF Head(b) = <<>> THEN 1 ELSE 0) <= Ends(b, n + 1)
<1> DEFINE X == {l \in 1..(n + 1) : b[l] = <<>>}
           Y == {l \in 1..n : Tail(b)[l] = <<>>}
           g == [l \in X \ {1} |-> l - 1]
<1>1. Len(b) \in Nat /\ n \in Nat /\ n + 1 \in Nat
  OBVIOUS
<1>2. \A l \in 1..n : Tail(b)[l] = b[l + 1]
  <2>1. Len(Tail(b)) = Len(b) - 1 /\ \A l \in 1..Len(Tail(b)) : Tail(b)[l] = b[l + 1]
    BY HeadTailProperties
  <2> QED BY <1>1, <2>1
<1>3. Head(b) = b[1]
  OBVIOUS
<1>4. IsFiniteSet(X) /\ IsFiniteSet(X \ {1})
      /\ Cardinality(X \ {1}) = IF 1 \in X THEN Cardinality(X) - 1 ELSE Cardinality(X)
  <2>1. IsFiniteSet(X)
    BY <1>1, EndsFinite
  <2> HIDE DEF X
  <2> QED BY <2>1, FS_RemoveElement
<1>5. g \in Surjection(X \ {1}, Y)
  <2>1. \A l \in X \ {1} : l - 1 \in Y
    <3> SUFFICES ASSUME NEW l \in X \ {1} PROVE l - 1 \in Y
      OBVIOUS
    <3>1. l \in 2..(n + 1) /\ b[l] = <<>> /\ l - 1 \in 1..n /\ (l - 1) + 1 = l
      BY <1>1
    <3>2. Tail(b)[l - 1] = b[l]
      BY <1>2, <3>1
    <3> QED BY <3>1, <3>2
  <2>2. g \in [X \ {1} -> Y]
    BY <2>1
  <2>3. ASSUME NEW y \in Y PROVE \E l \in X \ {1} : g[l] = y
    <3>1. y \in 1..n /\ Tail(b)[y] = <<>>
      OBVIOUS
    <3>2. b[y + 1] = <<>>
      BY <1>2, <3>1
    <3>3. y + 1 \in X \ {1} /\ (y + 1) - 1 = y
      BY <1>1, <3>1, <3>2
    <3>4. g[y + 1] = y
      BY <3>3
    <3> QED BY <3>3, <3>4
  <2> HIDE DEF g, X, Y
  <2> QED BY <2>2, <2>3 DEF Surjection
<1>6. Cardinality(Y) <= Cardinality(X \ {1})
  <2> HIDE DEF g, X, Y
  <2> QED BY <1>4, <1>5, FS_Surjection
<1>7. Cardinality(X) \in Nat /\ Cardinality(Y) \in Nat
  BY <1>1, EndsFinite DEF Ends
<1>8. 1 \in X <=> Head(b) = <<>>
  BY <1>1, <1>3
<1>9. Ends(Tail(b), n) = Cardinality(Y) /\ Ends(b, n + 1) = Cardinality(X)
  BY DEF Ends
<1> HIDE DEF X, Y
<1> QED BY <1>4, <1>6, <1>7, <1>8, <1>9

LEMMA EndsAppend ==
  ASSUME NEW S, NEW b \in Seq(S), NEW f \in S
  PROVE  /\ \A n \in 0..Len(b) : Ends(Append(b, f), n) = Ends(b, n)
         /\ Ends(Append(b, f), Len(b) + 1) <= Ends(b, Len(b)) + (IF f = <<>> THEN 1 ELSE 0)
<1> DEFINE c == Append(b, f)
           X(n) == {l \in 1..n : b[l] = <<>>}
           Z == {l \in 1..(Len(b) + 1) : c[l] = <<>>}
<1>1. Len(b) \in Nat /\ (\A l \in 1..Len(b) : c[l] = b[l]) /\ c[Len(b) + 1] = f
  BY AppendProperties
<1> HIDE DEF c
<1>2. ASSUME NEW n \in 0..Len(b) PROVE Ends(c, n) = Ends(b, n)
  <2>1. {l \in 1..n : c[l] = <<>>} = {l \in 1..n : b[l] = <<>>}
    BY <1>1
  <2> QED BY <2>1 DEF Ends
<1>3. Ends(c, Len(b) + 1) <= Ends(b, Len(b)) + (IF f = <<>> THEN 1 ELSE 0)
  <2>1. IsFiniteSet(X(Len(b))) /\ Cardinality(X(Len(b))) \in Nat
    BY <1>1, EndsFinite DEF Ends
  <2>2. Len(b) + 1 \notin X(Len(b))
    BY <1>1
  <2>3. CASE f = <<>>
    <3>1. Z = X(Len(b)) \cup {Len(b) + 1}
      BY <1>1, <2>3
    <3> HIDE DEF X, Z
    <3>2. Cardinality(Z) = Cardinality(X(Len(b))) + 1
      BY <2>1, <2>2, <3>1, FS_AddElement
    <3> QED BY <2>1, <2>3, <3>2 DEF Ends, X, Z
  <2>4. CASE f # <<>>
    <3>1. Z = X(Len(b))
      BY <1>1, <2>4
    <3>2. Ends(c, Len(b) + 1) = Ends(b, Len(b))
      BY <3>1 DEF Ends
    <3>3. Ends(b, Len(b)) \in Nat
      BY <2>1 DEF Ends
    <3> QED BY <2>4, <3>2, <3>3
  <2> QED BY <2>3, <2>4
<1> QED BY <1>2, <1>3 DEF c

LEMMA Grows ==
  ASSUME NEW d \in Nat, NEW x \in Int, NEW y \in Int, x <= y
  PROVE  d * x \in Int /\ d * y \in Int /\ d * x <= d * y
OBVIOUS

LEMMA LaterStill ==
  ASSUME NEW c \in Nat, NEW t \in Nat, NEW m \in Nat, NEW l \in Nat,
         NEW a \in Int, NEW b \in Int, a <= b, c <= t + m + a - l
  PROVE  c <= t + m + b - l
OBVIOUS

\* A packet that arrives in time has the rest of the redraw still to wait.
LEMMA InTime ==
  ASSUME NEW c \in Nat, NEW t \in Nat, NEW m \in Nat, NEW l \in Nat,
         NEW b \in Int, l <= b, c <= t + m
  PROVE  c <= t + m + b - l
OBVIOUS

LEMMA RedrawNat ==
  /\ LookTime \in Nat /\ DrawTime \in Nat /\ PollTime \in Nat /\ MaxDelay \in Nat
  /\ Redraw \in Nat /\ Redraw = LookTime + DrawTime
  /\ Left \in 0..DrawTime /\ Left <= Redraw
BY ViewAssumption DEF Redraw, Left

\* The screen stays as it is in a step that takes no time and brings refresh()
\* no nearer.
LEMMA ScreenedKept ==
  ASSUME Screened, UNCHANGED <<clock, window, screen>>,
         \A i \in 1..Len(sent) : i \in 1..Len(sent') /\ sent'[i] = sent[i],
         ToRefresh' = ToRefresh, pc' = "refresh" => pc = "refresh"
  PROVE  Screened'
<1>1. Sound(screen, Horizon - ToRefresh)'
  <2>1. Sound(screen, Horizon - ToRefresh)
    BY DEF Screened
  <2> QED BY <2>1 DEF Sound
<1>2. ASSUME pc' = "refresh" PROVE Sound(window, Horizon - (PollTime + Redraw))'
  <2>1. Sound(window, Horizon - (PollTime + Redraw))
    BY <1>2 DEF Screened
  <2> QED BY <2>1 DEF Sound
<1> QED BY <1>1, <1>2 DEF Screened

\* A frame that was sent is the size of one.
LEMMA SentBytes ==
  ASSUME CrcWorks, Packets, NEW i \in 1..Len(sent)
  PROVE  /\ sent[i] \in Packet /\ i - 1 \in 0..(MaxSent - 1)
         /\ FrameOf(sent[i], i) \in Seq(Byte)
         /\ Len(FrameOf(sent[i], i)) = FRAME_SIZE /\ FrameOf(sent[i], i) # <<>>
<1>1. sent[i] \in Packet
  BY ElementOfSeq DEF Packets
<1>2. i - 1 \in 0..(MaxSent - 1)
  BY ViewAssumption DEF Packets
<1>3. sent[i].telemetry \in Readings /\ sent[i].at \in StartTime..MaxTime
  BY <1>1 DEF Packet
<1>4. Bytes(FrameOf(sent[i], i), FRAME_SIZE)
  BY <1>2, <1>3, FrameBytes DEF FrameOf
<1> DEFINE f == FrameOf(sent[i], i)
<1>5. f \in Seq(Byte) /\ Len(f) = 46 /\ 46 # 0
  BY <1>4 DEF Bytes, FRAME_SIZE
<1> HIDE DEF f
<1>6. f # <<>>
  <2>1. Len(<<>>) = 0
    OBVIOUS
  <2> QED BY <1>5, <2>1, Zenon
<1> QED BY <1>1, <1>2, <1>5, <1>6 DEF f, FRAME_SIZE

\* What parse_telemetry makes of it is that packet.
LEMMA SentHolds ==
  ASSUME Packets, NEW i \in 1..Len(sent), NEW now
  PROVE  Holds(Parsed(FrameOf(sent[i], i), now), sent[i])
<1> DEFINE p == sent[i]
<1>1. p \in Packet
  BY ElementOfSeq DEF Packets
<1>2. i - 1 \in Nat
  BY DEF Packets
<1> HIDE DEF p
<1>3. p.telemetry \in Readings /\ p.at \in StartTime..MaxTime
      /\ p = [telemetry |-> p.telemetry, at |-> p.at]
  BY <1>1 DEF Packet
<1>4. Holds(Parsed(make_lora_packet(p.telemetry, i - 1, p.at), now),
            [telemetry |-> p.telemetry, at |-> p.at])
  BY <1>2, <1>3, RoundTrip
<1>5. Holds(Parsed(FrameOf(p, i), now), p)
  BY <1>3, <1>4, Zenon DEF FrameOf
<1> QED BY <1>5 DEF p

\* draw_screen shows the packet the record holds.
LEMMA DrawnShows ==
  ASSUME NEW p, Holds(telemetry, p)
  PROVE  Shows(Drawn, p.telemetry)
<1> DEFINE t == p.telemetry
           s == Drawn
           angles == <<telemetry.roll, telemetry.pitch, telemetry.yaw>>
           fix == <<telemetry.gps_fix, telemetry.gps_sats, telemetry.latitude,
                    telemetry.longitude, telemetry.altitude>>
<1>1. /\ s.attitude = IF t.attitude_valid THEN angles ELSE <<>>
      /\ s.gps = IF t.gps_valid THEN fix ELSE <<>>
      /\ s.velocity = VelocityOf(t) /\ s.heading = t.ground_course_cdeg
  BY DEF Holds, Drawn
<1>2. NearAngles(angles, t)
  BY DEF Holds
<1>3. angles # <<>> /\ fix # <<>>
  <2>1. Len(angles) = 3 /\ Len(fix) = 5 /\ Len(<<>>) = 0
    OBVIOUS
  <2> QED BY <2>1
<1>4. SubSeq(fix, 1, 4) = <<t.gps_fix_type, t.gps_satellites, t.latitude_e7, t.longitude_e7>>
  <2> DEFINE T == {fix[i] : i \in 1..5}
             u == <<t.gps_fix_type, t.gps_satellites, t.latitude_e7, t.longitude_e7>>
  <2>1. fix[1] = u[1] /\ fix[2] = u[2] /\ fix[3] = u[3] /\ fix[4] = u[4]
    BY DEF Holds
  <2>2. \A i \in 1..4 : fix[i] \in T
    OBVIOUS
  <2>3. u \in Seq(T) /\ Len(u) = 4
    <3>1. u[1] \in T /\ u[2] \in T /\ u[3] \in T /\ u[4] \in T
      BY <2>1, <2>2
    <3> HIDE DEF T
    <3> QED BY <3>1
  <2> HIDE DEF fix, T, u
  <2>4. /\ SubSeq(fix, 1, 4) \in Seq(T) /\ Len(SubSeq(fix, 1, 4)) = 4
        /\ \A i \in 1..4 : SubSeq(fix, 1, 4)[i] = fix[i]
    BY <2>2, SubSeqProperties
  <2>5. \A i \in 1..4 : SubSeq(fix, 1, 4)[i] = u[i]
    BY <2>1, <2>4
  <2>6. SubSeq(fix, 1, 4) = u
    BY <2>3, <2>4, <2>5, SeqEqual
  <2> QED BY <2>6 DEF u
<1>5. NearAltitude(fix[5], t.altitude_mm)
  BY DEF Holds
<1> HIDE DEF s, angles, fix
<1>6. Shows(s, t)
  <2> HIDE DEF t
  <2> QED BY <1>1, <1>2, <1>3, <1>4, <1>5 DEF Shows
<1> QED BY <1>6 DEF s, t

-----------------------------------------------------------------------------
LEMMA SendKeeps ==
  ASSUME CrcWorks, ViewInv, Send
  PROVE  ViewInv'
<1>1. PICK t \in Readings :
        /\ sent' = Append(sent, [telemetry |-> t, at |-> clock])
        /\ net' = net \cup {[frame |-> make_lora_packet(t, Len(sent), clock),
                             due |-> clock + MaxDelay]}
  BY DEF Send
<1> DEFINE p == [telemetry |-> t, at |-> clock]
           n == Len(sent)
<1>2. UNCHANGED <<clock, noise, buffer, pc, telemetry, window, screen>> /\ n < MaxSent
  BY DEF Send, gui
<1>3. Packets /\ sent \in Seq(Packet) /\ n \in Nat /\ p \in Packet /\ MaxSent \in Nat
      /\ MaxDelay \in Nat /\ clock \in Nat
  BY ViewAssumption DEF ViewInv, Packets, Packet
<1>4. /\ sent' \in Seq(Packet) /\ Len(sent') = n + 1 /\ sent'[n + 1] = p
      /\ \A i \in 1..n : sent'[i] = sent[i]
  <2> HIDE DEF p
  <2>1. sent' = Append(sent, p)
    BY <1>1 DEF p
  <2> QED BY <1>3, <2>1, AppendProperties
<1>5. \A i \in 1..Len(sent) : i \in 1..Len(sent') /\ sent'[i] = sent[i]
  BY <1>3, <1>4
<1>6. Packets'
  BY <1>2, <1>3, <1>4 DEF Packets
<1>7. OnWay'
  <2> SUFFICES ASSUME NEW m \in net'
               PROVE  \E i \in 1..Len(sent') : /\ m.frame = FrameOf(sent'[i], i)
                                              /\ m.due = sent'[i].at + MaxDelay
                                              /\ clock <= m.due
    BY <1>2 DEF OnWay
  <2>1. CASE m \in net
    BY <1>5, <2>1 DEF ViewInv, OnWay
  <2>2. CASE m = [frame |-> make_lora_packet(t, n, clock), due |-> clock + MaxDelay]
    <3>1. p.telemetry = t /\ p.at = clock /\ (n + 1) - 1 = n /\ n + 1 \in 1..Len(sent')
      BY <1>3, <1>4
    <3>2. m.frame = FrameOf(p, n + 1)
      BY <2>2, <3>1 DEF FrameOf
    <3>3. m.due = p.at + MaxDelay /\ clock <= m.due
      BY <1>3, <2>2, <3>1
    <3> HIDE DEF p, n
    <3> QED BY <1>4, <3>1, <3>2, <3>3
  <2> QED BY <1>1, <2>1, <2>2
<1> HIDE DEF p, n
<1>8. Waiting'
  BY <1>2, <1>5 DEF ViewInv, Waiting, Waited, Left
<1>9. Held' /\ Drawing' /\ Screened'
  <2>1. Held'
    BY <1>2, <1>5 DEF ViewInv, Held
  <2>2. Drawing'
    BY <1>2 DEF ViewInv, Drawing
  <2>3. Screened'
    BY <1>2, <1>5, ScreenedKept DEF ViewInv, ToRefresh
  <2> QED BY <2>1, <2>2, <2>3
<1> QED BY <1>6, <1>7, <1>8, <1>9 DEF ViewInv

LEMMA LoseKeeps ==
  ASSUME ViewInv, Lose
  PROVE  ViewInv'
<1>1. net' \subseteq net
      /\ UNCHANGED <<clock, sent, noise, buffer, pc, telemetry, window, screen>>
  BY DEF Lose, gui
<1>2. OnWay'
  BY <1>1 DEF ViewInv, OnWay
<1>3. Packets' /\ Held' /\ Drawing'
  BY <1>1 DEF ViewInv, Packets, Held, Drawing
<1>4. Waiting'
  BY <1>1 DEF ViewInv, Waiting, Waited, Left
<1>5. Screened'
  BY <1>1, ScreenedKept DEF ViewInv, ToRefresh
<1> QED BY <1>2, <1>3, <1>4, <1>5 DEF ViewInv

\* A datagram joins the buffer, whole or, with one more noise, damaged.
LEMMA Arrival ==
  ASSUME CrcWorks, ViewInv, Len(buffer) < Capacity,
         NEW m \in net, NEW f, NEW k \in 0..1,
         buffer' = Append(buffer, f), noise' = noise + k, UNCHANGED <<clock, sent, pc>>,
         (k = 0 /\ f = m.frame) \/ (k = 1 /\ f \in Damaged(m.frame))
  PROVE  Waiting'
<1> DEFINE n == Len(buffer)
<1>1. PICK i \in 1..Len(sent) : /\ m.frame = FrameOf(sent[i], i)
                               /\ m.due = sent[i].at + MaxDelay /\ clock <= m.due
  BY DEF ViewInv, OnWay
<1>2. /\ sent[i] \in Packet /\ i - 1 \in 0..(MaxSent - 1)
      /\ m.frame \in Seq(Byte) /\ Len(m.frame) = FRAME_SIZE /\ m.frame # <<>>
  BY <1>1, SentBytes DEF ViewInv
<1>3. f \in Seq(Byte)
  BY <1>2, DamagedBytes DEF Bytes
<1>4. f = <<>> => k = 1
  BY <1>2
<1>5. Valid(f) => k = 0 /\ f = m.frame
  <2>1. sent[i].telemetry \in Readings /\ sent[i].at \in StartTime..MaxTime
    BY <1>2 DEF Packet
  <2>2. ASSUME f \in Damaged(m.frame) PROVE ~Valid(f)
    BY <1>1, <1>2, <2>1, <2>2, DamagedIsInvalid DEF FrameOf
  <2> QED BY <2>2
<1>6. /\ buffer \in Seq(Seq(Byte)) /\ n \in Nat /\ noise \in Nat /\ clock \in Nat
      /\ Ends(buffer, n) <= noise /\ Ends(buffer, n) \in Nat
  <2>1. buffer \in Seq(Seq(Byte)) /\ Ends(buffer, Len(buffer)) <= noise
    BY DEF ViewInv, Waiting
  <2>2. Len(buffer) \in Nat /\ noise \in Nat /\ clock \in Nat
    BY <2>1, ViewAssumption DEF ViewInv, Packets
  <2>3. Ends(buffer, Len(buffer)) \in Nat
    BY <2>2, EndsFinite
  <2> QED BY <2>1, <2>2, <2>3
<1>7. /\ buffer' \in Seq(Seq(Byte)) /\ Len(buffer') = n + 1 /\ buffer'[n + 1] = f
      /\ \A j \in 1..n : buffer'[j] = buffer[j]
  BY <1>3, <1>6, AppendProperties
<1>8. /\ \A j \in 0..n : Ends(buffer', j) = Ends(buffer, j)
      /\ Ends(buffer', n + 1) <= Ends(buffer, n) + k /\ Ends(buffer', n + 1) \in Nat
  <2>1. /\ \A j \in 0..n : Ends(buffer', j) = Ends(buffer, j)
        /\ Ends(buffer', n + 1) <= Ends(buffer, n) + (IF f = <<>> THEN 1 ELSE 0)
    BY <1>3, <1>6, EndsAppend
  <2>2. Ends(buffer', n + 1) \in Nat
    <3>1. n + 1 \in Nat
      BY <1>6
    <3> QED BY <3>1, EndsFinite
  <2> QED BY <1>4, <1>6, <2>1, <2>2
<1>9. ASSUME NEW j \in 1..(n + 1), Valid(buffer'[j])
      PROVE  \E h \in 1..Len(sent) :
               /\ buffer'[j] = FrameOf(sent[h], h)
               /\ clock <= sent[h].at + MaxDelay + Redraw * Waited(j)' - Left'
  <2>1. Redraw \in Nat /\ MaxDelay \in Nat /\ Left \in Nat /\ Left <= Redraw /\ Left' = Left
    BY RedrawNat DEF Left
  <2>2. Waited(j)' = (noise + k + 1) - Ends(buffer, j - 1) - (IF pc = "draw" THEN 1 ELSE 0)
        /\ Ends(buffer, j - 1) \in Nat
    <3>1. j - 1 \in 0..n /\ j - 1 \in Nat
      BY <1>6
    <3>2. Ends(buffer, j - 1) \in Nat
      BY <3>1, EndsFinite
    <3> QED BY <1>6, <1>8, <3>1, <3>2 DEF Waited
  <2>3. CASE j \in 1..n
    <3>1. PICK h \in 1..Len(sent) :
            /\ buffer[j] = FrameOf(sent[h], h)
            /\ clock <= sent[h].at + MaxDelay + Redraw * Waited(j) - Left
      BY <1>7, <1>9, <2>3 DEF ViewInv, Waiting
    <3>2. Waited(j) \in Int /\ Waited(j)' \in Int /\ Waited(j) <= Waited(j)'
      BY <1>6, <2>2 DEF Waited
    <3>3. sent[h].at \in Nat
      <4>1. sent[h] \in Packet
        BY SentBytes DEF ViewInv
      <4> QED BY <4>1, ViewAssumption DEF Packet
    <3>4. Redraw * Waited(j) \in Int /\ Redraw * Waited(j)' \in Int
          /\ Redraw * Waited(j) <= Redraw * Waited(j)'
      BY <2>1, <3>2, Grows
    <3>5. clock <= sent[h].at + MaxDelay + Redraw * Waited(j)' - Left'
      <4> DEFINE a == Redraw * Waited(j)
                 b == Redraw * Waited(j)'
      <4>1. a \in Int /\ b \in Int /\ a <= b
            /\ clock <= sent[h].at + MaxDelay + a - Left
        BY <3>1, <3>4
      <4> HIDE DEF a, b
      <4>2. clock <= sent[h].at + MaxDelay + b - Left
        BY <1>6, <2>1, <3>3, <4>1, LaterStill
      <4> QED BY <2>1, <4>2 DEF b
    <3> QED BY <1>7, <2>3, <3>1, <3>5
  <2>4. CASE j = n + 1
    <3>1. k = 0 /\ buffer'[j] = FrameOf(sent[i], i)
      BY <1>1, <1>5, <1>7, <1>9, <2>4
    <3>2. Left <= Redraw * Waited(j)' /\ Redraw * Waited(j)' \in Nat
      <4>1. CASE pc = "draw"
        <5>1. Waited(j)' \in Nat /\ Left = 0
          BY <1>6, <2>2, <2>4, <3>1, <4>1 DEF Left
        <5>2. Redraw * Waited(j)' \in Nat
          BY <2>1, <5>1
        <5> QED BY <5>1, <5>2
      <4>2. CASE pc # "draw"
        <5>1. Waited(j)' \in Nat /\ 1 <= Waited(j)'
          BY <1>6, <2>2, <2>4, <3>1, <4>2
        <5>2. Redraw * 1 <= Redraw * Waited(j)' /\ Redraw * 1 = Redraw
              /\ Redraw * Waited(j)' \in Nat
          BY <2>1, <5>1, Grows
        <5> QED BY <2>1, <5>2
      <4> QED BY <4>1, <4>2
    <3>4. sent[i].at \in Nat
      BY <1>2, ViewAssumption DEF Packet
    <3>5. clock <= sent[i].at + MaxDelay + Redraw * Waited(j)' - Left'
      <4> DEFINE b == Redraw * Waited(j)'
      <4>1. b \in Nat /\ Left <= b
        BY <3>2
      <4> HIDE DEF b
      <4>2. clock <= sent[i].at + MaxDelay + b - Left
        BY <1>1, <1>6, <2>1, <3>4, <4>1, InTime
      <4> QED BY <2>1, <4>2 DEF b
    <3> QED BY <3>1, <3>5
  <2>5. j \in 1..n \/ j = n + 1
    BY <1>6
  <2> QED BY <2>3, <2>4, <2>5, Zenon
<1>10. Ends(buffer', Len(buffer')) <= noise'
  BY <1>6, <1>7, <1>8
<1>11. Len(buffer') <= Capacity
  BY <1>6, <1>7, ViewAssumption
<1>12. \A j \in 1..Len(buffer') : Valid(buffer'[j]) =>
         \E h \in 1..Len(sent') : /\ buffer'[j] = FrameOf(sent'[h], h)
                                 /\ clock' <= sent'[h].at + MaxDelay
                                              + Redraw * Waited(j)' - Left'
  <2>1. Len(buffer') = n + 1 /\ clock' = clock /\ sent' = sent
    BY <1>7
  <2> HIDE DEF n
  <2> QED BY <1>9, <2>1
<1> HIDE DEF n
<1> QED BY <1>7, <1>10, <1>11, <1>12 DEF Waiting

LEMMA DeliverKeeps ==
  ASSUME CrcWorks, ViewInv, Deliver
  PROVE  ViewInv'
<1>1. UNCHANGED <<clock, sent, noise, pc, telemetry, window, screen>> /\ Len(buffer) < Capacity
  BY DEF Deliver, gui
<1>2. PICK m \in net : buffer' = Append(buffer, m.frame) /\ net' \in {net, net \ {m}}
  BY DEF Deliver
<1>3. Waiting'
  <2>1. noise' = noise + 0 /\ 0 \in 0..1
    BY <1>1 DEF ViewInv, Packets
  <2> QED BY <1>1, <1>2, <2>1, Arrival
<1>4. OnWay'
  BY <1>1, <1>2 DEF ViewInv, OnWay
<1>5. Packets' /\ Held' /\ Drawing'
  BY <1>1 DEF ViewInv, Packets, Held, Drawing
<1>6. Screened'
  BY <1>1, ScreenedKept DEF ViewInv, ToRefresh
<1> QED BY <1>3, <1>4, <1>5, <1>6 DEF ViewInv

LEMMA NoiseKeeps ==
  ASSUME CrcWorks, ViewInv, Noise
  PROVE  ViewInv'
<1>1. UNCHANGED <<clock, sent, pc, telemetry, window, screen>> /\ Len(buffer) < Capacity
      /\ noise < MaxNoise /\ noise' = noise + 1
  BY DEF Noise, gui
<1>2. PICK m \in net : \E f \in Damaged(m.frame) :
        buffer' = Append(buffer, f) /\ net' = net \ {m}
  BY DEF Noise
<1>3. PICK f \in Damaged(m.frame) : buffer' = Append(buffer, f) /\ net' = net \ {m}
  BY <1>2
<1>4. Waiting'
  <2>1. 1 \in 0..1
    OBVIOUS
  <2> QED BY <1>1, <1>3, <2>1, Arrival
<1>5. OnWay'
  BY <1>1, <1>3 DEF ViewInv, OnWay
<1>6. Packets'
  BY <1>1, ViewAssumption DEF ViewInv, Packets
<1>7. Held' /\ Drawing'
  BY <1>1 DEF ViewInv, Held, Drawing
<1>8. Screened'
  BY <1>1, ScreenedKept DEF ViewInv, ToRefresh
<1> QED BY <1>4, <1>5, <1>6, <1>7, <1>8 DEF ViewInv

\* Time that passes leaves no datagram on its way for too long.
LEMMA ElapseKeeps ==
  ASSUME ViewInv, NEW d \in Nat, Elapse(d), UNCHANGED <<sent, net, noise, telemetry>>
  PROVE  Packets' /\ OnWay' /\ Held' /\ clock \in Nat /\ clock' = clock + d
<1>1. clock \in Nat /\ clock' = clock + d /\ clock + d <= MaxTime
      /\ \A m \in net : clock + d <= m.due
  BY ViewAssumption DEF Elapse, ViewInv, Packets
<1>2. clock' \in StartTime..MaxTime
  BY <1>1, ViewAssumption DEF ViewInv, Packets
<1>3. Packets'
  BY <1>2 DEF ViewInv, Packets
<1>4. OnWay'
  BY <1>1 DEF ViewInv, OnWay
<1>5. Held'
  <2>1. telemetry.received_ms \in 0..clock'
    BY <1>1 DEF ViewInv, Held
  <2> QED BY <2>1 DEF ViewInv, Held
<1> QED BY <1>1, <1>3, <1>4, <1>5

LEMMA HorizonNat ==
  /\ Horizon \in Nat /\ PollTime \in Nat /\ DrawTime \in Nat /\ Redraw \in Nat
  /\ MaxDelay \in Nat /\ Fresh \in Nat /\ MaxNoise \in Nat
  /\ Redraw * (MaxNoise + 1) \in Nat
  /\ Horizon = Fresh + MaxDelay + PollTime + Redraw * (MaxNoise + 1) + Redraw + DrawTime
<1>1. /\ PollTime \in Nat /\ DrawTime \in Nat /\ MaxDelay \in Nat
      /\ Fresh \in Nat /\ MaxNoise \in Nat /\ Redraw \in Nat
  BY RedrawNat, ViewAssumption
<1>2. (2 + MaxNoise) * Redraw = Redraw * (MaxNoise + 1) + Redraw
      /\ Redraw * (MaxNoise + 1) \in Nat
  BY <1>1
<1> DEFINE a == (2 + MaxNoise) * Redraw
           b == Redraw * (MaxNoise + 1)
<1>3. a = b + Redraw /\ b \in Nat /\ Horizon = Fresh + MaxDelay + PollTime + a + DrawTime
  BY <1>2 DEF Horizon
<1> HIDE DEF a, b
<1>4. Horizon \in Nat /\ Horizon = Fresh + MaxDelay + PollTime + b + Redraw + DrawTime
  BY <1>1, <1>3
<1> QED BY <1>1, <1>3, <1>4 DEF b

\* Time passes, and with it goes as much of what was left till refresh().
LEMMA ScreenAges ==
  ASSUME ViewInv, NEW d \in Nat, clock' = clock + d, UNCHANGED <<sent, screen>>,
         ToRefresh' + d <= ToRefresh
  PROVE  Sound(screen, Horizon - ToRefresh)'
<1>1. Sound(screen, Horizon - ToRefresh)
  BY DEF ViewInv, Screened
<1>2. Horizon \in Nat /\ ToRefresh \in Nat /\ ToRefresh' \in Nat /\ clock \in Nat
  <2>1. Redraw \in Nat /\ DrawTime \in Nat /\ PollTime \in Nat
    BY HorizonNat
  <2>2. PollTime + Redraw \in Nat
    BY <2>1
  <2> QED BY <2>1, <2>2, HorizonNat, ViewAssumption DEF ToRefresh, ViewInv, Packets
<1>3. ASSUME NEW i \in 1..Len(sent), clock - sent[i].at < Horizon - ToRefresh
      PROVE  clock' - sent[i].at < Horizon - ToRefresh'
  <2>1. sent[i].at \in Nat
    <3>1. sent[i] \in Packet
      BY ElementOfSeq DEF ViewInv, Packets
    <3> QED BY <3>1, ViewAssumption DEF Packet
  <2> DEFINE l == ToRefresh
             m == ToRefresh'
             now == clock'
             at == sent[i].at
  <2>2. /\ now = clock + d /\ m + d <= l /\ clock - at < Horizon - l
        /\ l \in Nat /\ m \in Nat /\ at \in Nat /\ Horizon \in Nat /\ clock \in Nat
    BY <1>2, <1>3, <2>1
  <2> HIDE DEF l, m, now, at
  <2>3. now - at < Horizon - m
    BY <2>2
  <2> QED BY <2>3 DEF now, at, m
<1> QED BY <1>1, <1>3 DEF Sound

LEMMA PollKeeps ==
  ASSUME CrcWorks, ViewInv, Poll
  PROVE  ViewInv'
<1>1. UNCHANGED <<sent, net, noise, buffer, telemetry, window, screen>>
      /\ pc = "poll" /\ pc' = "polled"
  BY DEF Poll
<1>2. PICK d \in 0..(IF buffer = <<>> THEN PollTime ELSE 0) : Elapse(d)
  BY DEF Poll
<1>3. d \in Nat /\ d <= PollTime /\ (buffer # <<>> => d = 0)
  BY <1>2, ViewAssumption
<1>4. Packets' /\ OnWay' /\ Held' /\ clock \in Nat /\ clock' = clock + d
  BY <1>1, <1>2, <1>3, ElapseKeeps
<1>5. Waiting'
  <2>1. CASE buffer = <<>>
    <3>1. Len(buffer) = 0 /\ 1..0 = {}
      BY <2>1
    <3>2. \A j \in 1..Len(buffer') : FALSE
      BY <1>1, <3>1
    <3> QED BY <1>1, <3>2 DEF ViewInv, Waiting
  <2>2. CASE buffer # <<>>
    <3>1. clock' = clock
      BY <1>3, <1>4, <2>2
    <3>2. (\A j : Waited(j)' = Waited(j)) /\ Left' = Left
      BY <1>1 DEF Waited, Left
    <3> QED BY <1>1, <3>1, <3>2 DEF ViewInv, Waiting
  <2> QED BY <2>1, <2>2
<1>6. Screened'
  <2>1. ToRefresh = PollTime + Redraw /\ ToRefresh' = Redraw
    BY <1>1 DEF ToRefresh
  <2>2. ToRefresh' + d <= ToRefresh
    BY <1>3, <2>1, HorizonNat
  <2>3. Sound(screen, Horizon - ToRefresh)'
    BY <1>1, <1>3, <1>4, <2>2, ScreenAges
  <2> QED BY <1>1, <2>3 DEF Screened
<1>7. Drawing'
  BY <1>1 DEF ViewInv, Drawing
<1> QED BY <1>4, <1>5, <1>6, <1>7 DEF ViewInv

LEMMA PollReturnsKeeps ==
  ASSUME ViewInv, PollReturns
  PROVE  ViewInv'
<1>1. UNCHANGED <<clock, sent, net, noise, buffer, telemetry, window, screen>> /\ pc = "polled"
      /\ pc' = IF buffer = <<>> THEN "draw" ELSE "drain"
  BY DEF PollReturns
<1>2. Packets' /\ OnWay' /\ Held' /\ Drawing'
  BY <1>1 DEF ViewInv, Packets, OnWay, Held, Drawing
<1>3. Screened'
  BY <1>1, ScreenedKept DEF ViewInv, ToRefresh
<1>4. Waiting'
  <2>1. CASE buffer = <<>>
    <3>1. Len(buffer) = 0 /\ 1..0 = {}
      BY <2>1
    <3>2. \A j \in 1..Len(buffer') : FALSE
      BY <1>1, <3>1
    <3> QED BY <1>1, <3>2 DEF ViewInv, Waiting
  <2>2. CASE buffer # <<>>
    <3>1. (\A j : Waited(j)' = Waited(j)) /\ Left' = Left
      BY <1>1, <2>2 DEF Waited, Left
    <3> QED BY <1>1, <3>1 DEF ViewInv, Waiting
  <2> QED BY <2>1, <2>2
<1> QED BY <1>2, <1>3, <1>4 DEF ViewInv

\* The first datagram is read from the buffer.
LEMMA DrainShifts ==
  ASSUME CrcWorks, ViewInv, buffer # <<>>, buffer' = Tail(buffer), pc = "drain",
         pc' = (IF Head(buffer) = <<>> THEN "draw" ELSE "drain"),
         UNCHANGED <<clock, sent, noise>>
  PROVE  Waiting'
<1> DEFINE n == Len(buffer)
           k == IF Head(buffer) = <<>> THEN 1 ELSE 0
<1>1. /\ buffer \in Seq(Seq(Byte)) /\ n \in Nat \ {0} /\ noise \in Nat /\ clock \in Nat
      /\ Ends(buffer, n) <= noise /\ n <= Capacity
  <2>1. buffer \in Seq(Seq(Byte)) /\ Ends(buffer, Len(buffer)) <= noise /\ n <= Capacity
    BY DEF ViewInv, Waiting
  <2>2. Len(buffer) \in Nat \ {0}
    BY <2>1, EmptySeq
  <2> QED BY <2>1, <2>2, ViewAssumption DEF ViewInv, Packets
<1>2. /\ buffer' \in Seq(Seq(Byte)) /\ Len(buffer') = n - 1
      /\ \A j \in 1..(n - 1) : buffer'[j] = buffer[j + 1]
  <2>1. /\ Tail(buffer) \in Seq(Seq(Byte)) /\ Len(Tail(buffer)) = n - 1
        /\ \A j \in 1..Len(Tail(buffer)) : Tail(buffer)[j] = buffer[j + 1]
    BY <1>1, HeadTailProperties
  <2> QED BY <2>1
<1>3. \A j \in 0..(n - 1) : /\ Ends(buffer', j) \in Nat /\ Ends(buffer, j + 1) \in Nat
                           /\ Ends(buffer', j) + k <= Ends(buffer, j + 1)
  <2> SUFFICES ASSUME NEW j \in 0..(n - 1)
               PROVE  /\ Ends(buffer', j) \in Nat /\ Ends(buffer, j + 1) \in Nat
                      /\ Ends(buffer', j) + k <= Ends(buffer, j + 1)
    OBVIOUS
  <2>1. j \in Nat /\ j + 1 \in Nat
    BY <1>1
  <2>2. Ends(buffer', j) \in Nat
    BY <2>1, EndsFinite
  <2>3. Ends(buffer, j + 1) \in Nat
    BY <2>1, EndsFinite
  <2>4. Ends(Tail(buffer), j) + k <= Ends(buffer, j + 1)
    BY <1>1, EndsTail
  <2> QED BY <2>2, <2>3, <2>4
<1>4. k \in 0..1 /\ k = IF pc' = "draw" THEN 1 ELSE 0
  OBVIOUS
<1>5. Ends(buffer', Len(buffer')) <= noise'
  <2>1. n - 1 \in 0..(n - 1) /\ (n - 1) + 1 = n
    BY <1>1
  <2> HIDE DEF n, k
  <2>2. Ends(buffer', n - 1) \in Nat /\ Ends(buffer, n) \in Nat
        /\ Ends(buffer', n - 1) + k <= Ends(buffer, n)
    BY <1>3, <2>1
  <2> QED BY <1>1, <1>2, <1>4, <2>2
<1>6. ASSUME NEW j \in 1..(n - 1), Valid(buffer'[j])
      PROVE  \E h \in 1..Len(sent) :
               /\ buffer'[j] = FrameOf(sent[h], h)
               /\ clock <= sent[h].at + MaxDelay + Redraw * Waited(j)' - Left'
  <2>1. j + 1 \in 1..n /\ j - 1 \in 0..(n - 1) /\ (j - 1) + 1 = j /\ (j + 1) - 1 = j
    BY <1>1
  <2>2. PICK h \in 1..Len(sent) :
          /\ buffer[j + 1] = FrameOf(sent[h], h)
          /\ clock <= sent[h].at + MaxDelay + Redraw * Waited(j + 1) - Left
    BY <1>2, <1>6, <2>1 DEF ViewInv, Waiting
  <2>3. Ends(buffer', j - 1) \in Nat /\ Ends(buffer, j) \in Nat
        /\ Ends(buffer', j - 1) + k <= Ends(buffer, j)
    <3> HIDE DEF n, k
    <3> QED BY <1>3, <2>1
  <2>4. Waited(j + 1) = (noise + 1) - Ends(buffer, j)
    <3>1. Waited(j + 1) = (noise + 1) - Ends(buffer, (j + 1) - 1) - 0
      BY DEF Waited
    <3>2. Ends(buffer, (j + 1) - 1) = Ends(buffer, j)
      BY <2>1, Zenon
    <3> QED BY <1>1, <2>3, <3>1, <3>2
  <2>5. Waited(j)' = (noise + 1) - Ends(buffer', j - 1) - k
    BY <1>4 DEF Waited
  <2> HIDE DEF n, k
  <2>6. Waited(j + 1) \in Int /\ Waited(j)' \in Int /\ Waited(j + 1) <= Waited(j)'
    <3> DEFINE x == Ends(buffer, j)
               y == Ends(buffer', j - 1)
    <3>1. x \in Nat /\ y \in Nat /\ y + k <= x /\ k \in 0..1 /\ noise \in Nat
      BY <1>1, <1>4, <2>3
    <3>2. Waited(j + 1) = (noise + 1) - x /\ Waited(j)' = (noise + 1) - y - k
      BY <2>4, <2>5
    <3> HIDE DEF x, y
    <3> QED BY <3>1, <3>2
  <2> DEFINE a == Redraw * Waited(j + 1)
             b == Redraw * Waited(j)'
  <2>7. a \in Int /\ b \in Int /\ a <= b
        /\ clock <= sent[h].at + MaxDelay + a - Left /\ Left = 0 /\ Left' = 0
    BY <2>2, <2>6, HorizonNat, Grows DEF Left
  <2>8. sent[h].at \in Nat
    <3>1. sent[h] \in Packet
      BY SentBytes DEF ViewInv
    <3> QED BY <3>1, ViewAssumption DEF Packet
  <2> HIDE DEF a, b
  <2>9. clock <= sent[h].at + MaxDelay + b - Left'
    <3>1. clock \in Nat /\ MaxDelay \in Nat /\ Left \in Nat
      BY <1>1, <2>7, HorizonNat
    <3>2. clock <= sent[h].at + MaxDelay + b - Left
      BY <2>7, <2>8, <3>1, LaterStill
    <3>3. Left' = Left
      BY <2>7
    <3> QED BY <3>2, <3>3
  <2> QED BY <1>2, <2>2, <2>9 DEF b
<1>7. \A j \in 1..Len(buffer') : Valid(buffer'[j]) =>
        \E h \in 1..Len(sent') : /\ buffer'[j] = FrameOf(sent'[h], h)
                                /\ clock' <= sent'[h].at + MaxDelay
                                             + Redraw * Waited(j)' - Left'
  <2>1. Len(buffer') = n - 1 /\ clock' = clock /\ sent' = sent
    BY <1>2
  <2> HIDE DEF n, k
  <2> QED BY <1>6, <2>1
<1>8. Len(buffer') <= Capacity
  BY <1>1, <1>2, ViewAssumption
<1> HIDE DEF n, k
<1> QED BY <1>2, <1>5, <1>7, <1>8 DEF Waiting

\* What it leaves in the GUI's record.
LEMMA DrainHolds ==
  ASSUME CrcWorks, ViewInv, buffer # <<>>, pc = "drain",
         telemetry' = AfterFrame(Head(buffer)), UNCHANGED <<clock, sent>>
  PROVE  Held'
<1> DEFINE f == Head(buffer)
<1>1. CASE ~Valid(f)
  BY <1>1 DEF AfterFrame, ViewInv, Held
<1>2. CASE Valid(f)
  <2>1. buffer \in Seq(Seq(Byte)) /\ f = buffer[1] /\ 1 \in 1..Len(buffer)
    BY EmptySeq DEF ViewInv, Waiting
  <2>2. PICK i \in 1..Len(sent) :
          /\ f = FrameOf(sent[i], i)
          /\ clock <= sent[i].at + MaxDelay + Redraw * Waited(1) - Left
    BY <1>2, <2>1 DEF ViewInv, Waiting
  <2>3. telemetry' = Parsed(f, clock)
    BY <1>2 DEF AfterFrame
  <2>4. telemetry'.received_ms = clock /\ DOMAIN telemetry' = DOMAIN Cleared
    BY <2>3 DEF Parsed, Cleared
  <2>5. Holds(telemetry', sent[i])
    BY <2>2, <2>3, SentHolds DEF ViewInv
  <2>6. clock \in Nat \ {0} /\ noise \in 0..MaxNoise
    BY ViewAssumption DEF ViewInv, Packets
  <2>7. Waited(1) \in Int /\ Waited(1) <= MaxNoise + 1
    <3>1. Ends(buffer, 1 - 1) \in Nat
      <4>1. 1 - 1 \in Nat
        OBVIOUS
      <4> QED BY <4>1, EndsFinite, Zenon
    <3> QED BY <2>6, <3>1, ViewAssumption DEF Waited
  <2>8. clock <= sent[i].at + MaxDelay + Redraw * (MaxNoise + 1)
    <3> DEFINE a == Redraw * Waited(1)
               b == Redraw * (MaxNoise + 1)
    <3>1. a \in Int /\ b \in Int /\ a <= b
          /\ clock <= sent[i].at + MaxDelay + a - Left /\ Left = 0
      BY <2>2, <2>7, HorizonNat, Grows DEF Left
    <3>2. sent[i].at \in Nat
      <4>1. sent[i] \in Packet
        BY SentBytes DEF ViewInv
      <4> QED BY <4>1, ViewAssumption DEF Packet
    <3> HIDE DEF a, b
    <3>3. clock <= sent[i].at + MaxDelay + b
      BY <2>6, <3>1, <3>2, HorizonNat
    <3> QED BY <3>3 DEF b
  <2> QED BY <2>4, <2>5, <2>6, <2>8 DEF Held
<1> QED BY <1>1, <1>2

LEMMA DrainKeeps ==
  ASSUME CrcWorks, ViewInv, Drain
  PROVE  ViewInv'
<1>1. UNCHANGED <<clock, sent, net, noise, window, screen>> /\ pc = "drain"
      /\ pc' \in {"drain", "draw"}
  BY DEF Drain
<1>2. Packets' /\ OnWay' /\ Drawing'
  BY <1>1 DEF ViewInv, Packets, OnWay, Drawing
<1>3. Screened'
  BY <1>1, ScreenedKept DEF ViewInv, ToRefresh
<1>4. CASE buffer = <<>>
  <2>1. UNCHANGED <<buffer, telemetry>>
    BY <1>4 DEF Drain
  <2>2. Held'
    BY <1>1, <2>1 DEF ViewInv, Held
  <2>3. Waiting'
    <3>1. Len(buffer) = 0 /\ 1..0 = {}
      BY <1>4
    <3>2. \A j \in 1..Len(buffer') : FALSE
      BY <2>1, <3>1
    <3> QED BY <1>1, <2>1, <3>2 DEF ViewInv, Waiting
  <2> QED BY <1>2, <1>3, <2>2, <2>3 DEF ViewInv
<1>5. CASE buffer # <<>>
  <2>1. /\ buffer' = Tail(buffer)
        /\ pc' = (IF Head(buffer) = <<>> THEN "draw" ELSE "drain")
        /\ telemetry' = IF Head(buffer) = <<>> THEN telemetry ELSE AfterFrame(Head(buffer))
    BY <1>1, <1>5 DEF Drain
  <2>2. Waiting'
    BY <1>1, <1>5, <2>1, DrainShifts
  <2>3. Held'
    <3>1. CASE Head(buffer) = <<>>
      BY <1>1, <2>1, <3>1 DEF ViewInv, Held
    <3>2. CASE Head(buffer) # <<>>
      BY <1>1, <1>5, <2>1, <3>2, DrainHolds
    <3> QED BY <3>1, <3>2
  <2> QED BY <1>2, <1>3, <2>2, <2>3 DEF ViewInv
<1> QED BY <1>4, <1>5

\* One redraw lets every datagram in the buffer wait for one more, whether
\* the time goes by before the clock is read or after.
LEMMA RedrawWaits ==
  ASSUME CrcWorks, ViewInv, NEW d \in Nat, clock' = clock + d,
         \/ pc = "draw" /\ pc' = "compose" /\ d <= LookTime
         \/ pc = "compose" /\ pc' = "refresh" /\ d <= DrawTime,
         UNCHANGED <<sent, noise, buffer>>
  PROVE  Waiting'
<1>1. /\ buffer \in Seq(Seq(Byte)) /\ noise \in Nat /\ clock \in Nat /\ Len(buffer) \in Nat
  BY ViewAssumption DEF ViewInv, Waiting, Packets
<1>2. ASSUME NEW j \in 1..Len(buffer), Valid(buffer[j])
      PROVE  \E h \in 1..Len(sent) :
               /\ buffer[j] = FrameOf(sent[h], h)
               /\ clock' <= sent[h].at + MaxDelay + Redraw * Waited(j)' - Left'
  <2>1. PICK h \in 1..Len(sent) :
          /\ buffer[j] = FrameOf(sent[h], h)
          /\ clock <= sent[h].at + MaxDelay + Redraw * Waited(j) - Left
    BY <1>2 DEF ViewInv, Waiting
  <2>2. Ends(buffer, j - 1) \in Nat
    <3>1. j - 1 \in Nat
      BY <1>1
    <3> QED BY <3>1, EndsFinite, Zenon
  <2> DEFINE w == Waited(j)
             x == Redraw * w
             y == Redraw * Waited(j)'
  <2>3. w \in Int /\ Redraw \in Nat
    BY <1>1, <2>2, RedrawNat DEF Waited
  <2>4. y - Left' - d >= x - Left /\ x \in Int /\ y \in Int /\ Left \in Nat /\ Left' \in Nat
    <3>1. CASE pc = "draw"
      <4>1. Waited(j)' = w + 1 /\ Left = 0 /\ Left' = DrawTime /\ d <= LookTime
        BY <1>1, <2>2, <3>1 DEF Waited, Left
      <4> HIDE DEF w
      <4>2. y = x + Redraw
        BY <2>3, <4>1
      <4>3. x \in Int
        BY <2>3
      <4> HIDE DEF x, y
      <4> QED BY <4>1, <4>2, <4>3, RedrawNat
    <3>2. CASE pc = "compose"
      <4>1. Waited(j)' = w /\ Left = DrawTime /\ Left' = 0 /\ d <= DrawTime
        BY <1>1, <2>2, <3>2 DEF Waited, Left
      <4> HIDE DEF w
      <4>2. y = x
        BY <4>1
      <4>3. x \in Int
        BY <2>3
      <4> HIDE DEF x, y
      <4> QED BY <4>1, <4>2, <4>3, RedrawNat
    <3> QED BY <3>1, <3>2
  <2>5. sent[h].at \in Nat
    <3>1. sent[h] \in Packet
      BY SentBytes DEF ViewInv
    <3> QED BY <3>1, ViewAssumption DEF Packet
  <2>6. clock <= sent[h].at + MaxDelay + x - Left
    BY <2>1
  <2> HIDE DEF w, x, y
  <2>7. clock' <= sent[h].at + MaxDelay + y - Left'
    <3> DEFINE l == Left
               m == Left'
               now == clock'
               at == sent[h].at
    <3>1. /\ y - m - d >= x - l /\ now = clock + d /\ clock <= at + MaxDelay + x - l
          /\ x \in Int /\ y \in Int /\ l \in Nat /\ m \in Nat /\ at \in Nat /\ MaxDelay \in Nat
      BY <2>4, <2>5, <2>6, RedrawNat
    <3> HIDE DEF l, m, now, at
    <3>2. now <= at + MaxDelay + y - m
      BY <1>1, <3>1
    <3> QED BY <3>2 DEF now, at, m
  <2> QED BY <2>1, <2>7 DEF y
<1> QED BY <1>2 DEF ViewInv, Waiting

\* A window that is drawn shows the record, and how old it may be.
LEMMA DrawnIsSound ==
  ASSUME CrcWorks, ViewInv, NEW d \in 0..DrawTime, clock' = clock + d,
         window' = Drawn, UNCHANGED sent
  PROVE  Sound(window, Horizon - (PollTime + Redraw))'
<1>1. /\ window'.online = link_online
      /\ window'.last = IF telemetry.received_ms = 0 THEN "never"
                        ELSE IF clock - telemetry.received_ms < Fresh
                             THEN "just now" ELSE "STALE"
      /\ window'.attitude = IF telemetry.attitude_valid
                            THEN <<telemetry.roll, telemetry.pitch, telemetry.yaw>> ELSE <<>>
      /\ window'.gps = IF telemetry.gps_valid
                       THEN <<telemetry.gps_fix, telemetry.gps_sats, telemetry.latitude,
                              telemetry.longitude, telemetry.altitude>> ELSE <<>>
  BY DEF Drawn
<1>2. CASE telemetry.received_ms = 0
  <2>1. telemetry = Cleared
    BY <1>2 DEF ViewInv, Held
  <2>2. ~telemetry.attitude_valid /\ ~telemetry.gps_valid
    BY <2>1 DEF Cleared
  <2>3. window'.last = "never" /\ ~window'.online /\ window'.attitude = <<>>
        /\ window'.gps = <<>>
    BY <1>1, <1>2, <2>2 DEF link_online
  <2> QED BY <2>3 DEF Sound
<1>3. CASE telemetry.received_ms # 0
  <2>1. telemetry # Cleared
    BY <1>3 DEF Cleared
  <2>2. PICK i \in 1..Len(sent) :
          /\ Holds(telemetry, sent[i])
          /\ telemetry.received_ms <= sent[i].at + MaxDelay + Redraw * (MaxNoise + 1)
    BY <2>1 DEF ViewInv, Held
  <2>3. Shows(window', sent'[i].telemetry)
    BY <2>2, DrawnShows
  <2>4. ASSUME window'.online PROVE clock' - sent'[i].at < Horizon - (PollTime + Redraw)
    <3>1. clock - telemetry.received_ms < Fresh
      BY <1>1, <2>4 DEF link_online
    <3>2. clock \in Nat /\ telemetry.received_ms \in Nat
      BY ViewAssumption DEF ViewInv, Packets, Held
    <3>3. sent[i].at \in Nat
      <4>1. sent[i] \in Packet
        BY SentBytes DEF ViewInv
      <4> QED BY <4>1, ViewAssumption DEF Packet
    <3> DEFINE b == Redraw * (MaxNoise + 1)
    <3>4. b \in Nat /\ telemetry.received_ms <= sent[i].at + MaxDelay + b
          /\ Horizon = Fresh + MaxDelay + PollTime + b + Redraw + DrawTime
      BY <2>2, HorizonNat
    <3> HIDE DEF b
    <3> QED BY <3>1, <3>2, <3>3, <3>4, HorizonNat
  <2>5. window'.last # "never"
    BY <1>1, <1>3
  <2> QED BY <2>3, <2>4, <2>5 DEF Sound
<1> QED BY <1>2, <1>3

LEMMA LookKeeps ==
  ASSUME CrcWorks, ViewInv, Look
  PROVE  ViewInv'
<1>1. UNCHANGED <<sent, net, noise, buffer, telemetry, window, screen>>
      /\ pc = "draw" /\ pc' = "compose"
  BY DEF Look
<1>2. PICK d \in 0..LookTime : Elapse(d)
  BY DEF Look
<1>3. d \in Nat /\ d <= LookTime
  BY RedrawNat
<1>4. Packets' /\ OnWay' /\ Held' /\ clock' = clock + d
  BY <1>1, <1>2, <1>3, ElapseKeeps
<1>5. Waiting'
  BY <1>1, <1>3, <1>4, RedrawWaits
<1>6. Screened'
  <2>1. ToRefresh = Redraw /\ ToRefresh' = DrawTime
    BY <1>1 DEF ToRefresh
  <2>2. ToRefresh' + d <= ToRefresh
    BY <1>3, <2>1, RedrawNat
  <2>3. Sound(screen, Horizon - ToRefresh)'
    BY <1>1, <1>3, <1>4, <2>2, ScreenAges
  <2> QED BY <1>1, <2>3 DEF Screened
<1>7. Drawing'
  BY <1>1 DEF ViewInv, Drawing
<1> QED BY <1>4, <1>5, <1>6, <1>7 DEF ViewInv

LEMMA ComposeKeeps ==
  ASSUME CrcWorks, ViewInv, Compose
  PROVE  ViewInv'
<1>1. UNCHANGED <<sent, net, noise, buffer, telemetry, screen>>
      /\ pc = "compose" /\ pc' = "refresh"
      /\ (window' = Drawn \/ window' = [view |-> "small"])
  BY DEF Compose
<1>2. PICK d \in 0..DrawTime : Elapse(d)
  BY DEF Compose
<1>3. d \in Nat /\ d <= DrawTime
  BY RedrawNat
<1>4. Packets' /\ OnWay' /\ Held' /\ clock' = clock + d
  BY <1>1, <1>2, <1>3, ElapseKeeps
<1>5. Waiting'
  BY <1>1, <1>3, <1>4, RedrawWaits
<1>6. Sound(screen, Horizon - ToRefresh)'
  <2>1. ToRefresh = DrawTime /\ ToRefresh' = 0
    BY <1>1 DEF ToRefresh
  <2>2. ToRefresh' + d <= ToRefresh
    BY <1>3, <2>1, RedrawNat
  <2> QED BY <1>1, <1>3, <1>4, <2>2, ScreenAges
<1>7. Sound(window, Horizon - (PollTime + Redraw))'
  <2>1. CASE window' = Drawn
    BY <1>1, <1>4, <2>1, DrawnIsSound
  <2>2. CASE window' = [view |-> "small"]
    <3>1. window'.view = "small"
      BY <2>2
    <3> QED BY <3>1 DEF Sound
  <2> QED BY <1>1, <2>1, <2>2
<1>8. Drawing'
  <2>1. window'.view \in {"small", "data"}
    <3>1. Drawn.view = "data" /\ [view |-> "small"].view = "small"
      BY DEF Drawn
    <3> QED BY <1>1, <3>1
  <2> QED BY <1>1, <2>1 DEF ViewInv, Drawing
<1> QED BY <1>4, <1>5, <1>6, <1>7, <1>8 DEF ViewInv, Screened

LEMMA RefreshKeeps ==
  ASSUME CrcWorks, ViewInv, Refresh
  PROVE  ViewInv'
<1>1. UNCHANGED <<clock, sent, net, noise, buffer, telemetry, window>> /\ pc = "refresh"
      /\ \/ pc' = "poll" /\ screen' = window
         \/ pc' = "ended" /\ screen' = [view |-> "closed"]
  BY DEF Refresh
<1>2. Packets' /\ OnWay' /\ Held'
  BY <1>1 DEF ViewInv, Packets, OnWay, Held
<1>3. Waiting'
  <2>1. (\A j : Waited(j)' = Waited(j)) /\ Left' = Left
    BY <1>1 DEF Waited, Left
  <2> QED BY <1>1, <2>1 DEF ViewInv, Waiting
<1>4. Screened' /\ Drawing'
  <2>1. CASE pc' = "poll" /\ screen' = window
    <3>1. Sound(window, Horizon - (PollTime + Redraw))
      BY <1>1 DEF ViewInv, Screened
    <3>2. ToRefresh' = PollTime + Redraw
      BY <2>1 DEF ToRefresh
    <3>3. Sound(screen, Horizon - ToRefresh)'
      BY <1>1, <2>1, <3>1, <3>2 DEF Sound
    <3> QED BY <1>1, <2>1, <3>3 DEF Screened, ViewInv, Drawing
  <2>2. CASE pc' = "ended" /\ screen' = [view |-> "closed"]
    <3>1. screen'.view = "closed"
      BY <2>2
    <3>2. Sound(screen, Horizon - ToRefresh)'
      BY <3>1 DEF Sound
    <3> QED BY <1>1, <2>2, <3>1, <3>2 DEF Screened, ViewInv, Drawing
  <2> QED BY <1>1, <2>1, <2>2
<1> QED BY <1>2, <1>3, <1>4 DEF ViewInv

LEMMA ViewInit == Init => ViewInv
<1> SUFFICES ASSUME Init PROVE ViewInv
  OBVIOUS
<1> USE DEF Init
<1>1. Packets
  BY ViewAssumption DEF Packets
<1>2. OnWay
  BY DEF OnWay
<1>3. Waiting
  <2>1. Ends(buffer, 0) = 0
    <3>1. {l \in 1..0 : buffer[l] = <<>>} = {}
      OBVIOUS
    <3> QED BY <3>1, FS_EmptySet DEF Ends
  <2>2. Len(buffer) = 0 /\ buffer \in Seq(Seq(Byte)) /\ 0 <= Capacity
    BY ViewAssumption
  <2> QED BY <2>1, <2>2 DEF Waiting
<1>4. Held
  <2>1. telemetry.received_ms = 0 /\ clock \in Nat
    BY ViewAssumption DEF Cleared
  <2> QED BY <2>1 DEF Held
<1>5. Drawing /\ Screened
  BY DEF Drawing, Screened, Sound
<1> QED BY <1>1, <1>2, <1>3, <1>4, <1>5 DEF ViewInv

LEMMA ViewStep ==
  ASSUME CrcWorks
  PROVE  ViewInv /\ [Next]_vars => ViewInv'
<1> SUFFICES ASSUME ViewInv, [Next]_vars PROVE ViewInv'
  OBVIOUS
<1>1. CASE Send
  BY <1>1, SendKeeps
<1>2. CASE Lose
  BY <1>2, LoseKeeps
<1>3. CASE Deliver
  BY <1>3, DeliverKeeps
<1>4. CASE Noise
  BY <1>4, NoiseKeeps
<1>5. CASE Poll
  BY <1>5, PollKeeps
<1>6. CASE PollReturns
  BY <1>6, PollReturnsKeeps
<1>7. CASE Drain
  BY <1>7, DrainKeeps
<1>8. CASE Look
  BY <1>8, LookKeeps
<1>9. CASE Compose
  BY <1>9, ComposeKeeps
<1>10. CASE Refresh
  BY <1>10, RefreshKeeps
<1>11. CASE UNCHANGED vars
  <2>1. UNCHANGED <<clock, sent, net, noise, buffer, pc, telemetry, window, screen>>
    BY <1>11 DEF vars, gui
  <2>2. Packets' /\ OnWay' /\ Held' /\ Drawing'
    BY <2>1 DEF ViewInv, Packets, OnWay, Held, Drawing
  <2>3. Waiting'
    BY <2>1 DEF ViewInv, Waiting, Waited, Left
  <2>4. Screened'
    BY <2>1, ScreenedKept DEF ViewInv, ToRefresh
  <2> QED BY <2>2, <2>3, <2>4 DEF ViewInv
<1> QED BY <1>1, <1>2, <1>3, <1>4, <1>5, <1>6, <1>7, <1>8, <1>9, <1>10, <1>11 DEF Next

LEMMA ViewInvImplies ==
  ASSUME CrcWorks, ViewInv
  PROVE  TypeOK /\ ShowsWhatWasSent /\ OnlineIsCurrent
<1>1. TypeOK
  <2>1. clock \in Nat /\ noise \in 0..MaxNoise
    BY ViewAssumption DEF ViewInv, Packets
  <2>2. sent \in Seq([telemetry : Readings, at : Nat])
    <3>1. Packet \subseteq [telemetry : Readings, at : Nat]
      BY ViewAssumption DEF Packet
    <3>2. sent \in Seq(Packet)
      BY DEF ViewInv, Packets
    <3> QED BY <3>1, <3>2, SeqMonotonic
  <2>3. ASSUME NEW m \in net PROVE Len(m.frame) = FRAME_SIZE /\ m.due \in Nat
    <3>1. PICK i \in 1..Len(sent) : m.frame = FrameOf(sent[i], i)
                                   /\ m.due = sent[i].at + MaxDelay
      BY DEF ViewInv, OnWay
    <3>2. sent[i] \in Packet /\ Len(FrameOf(sent[i], i)) = FRAME_SIZE
      BY SentBytes DEF ViewInv
    <3>3. m.due \in Nat
      BY <3>1, <3>2, ViewAssumption DEF Packet
    <3> QED BY <3>1, <3>2, <3>3
  <2>4. ASSUME NEW i \in 1..Len(buffer), NEW k \in 1..Len(buffer[i])
        PROVE  buffer[i][k] \in Byte
    <3>1. buffer[i] \in Seq(Byte)
      BY ElementOfSeq DEF ViewInv, Waiting
    <3> QED BY <3>1, ElementOfSeq
  <2>5. Len(buffer) <= Capacity
    BY DEF ViewInv, Waiting
  <2>6. DOMAIN telemetry = DOMAIN Cleared /\ telemetry.received_ms \in 0..clock
    BY DEF ViewInv, Held
  <2> QED BY <2>1, <2>2, <2>3, <2>4, <2>5, <2>6 DEF TypeOK, ViewInv, Drawing
<1>2. ShowsWhatWasSent
  BY DEF ViewInv, Held, Screened, Sound, ShowsWhatWasSent
<1>3. OnlineIsCurrent
  <2> SUFFICES ASSUME screen.view = "data", screen.online
               PROVE  \E i \in 1..Len(sent) :
                        Shows(screen, sent[i].telemetry) /\ clock - sent[i].at < Horizon
    BY DEF OnlineIsCurrent
  <2>1. PICK i \in 1..Len(sent) :
          /\ Shows(screen, sent[i].telemetry)
          /\ clock - sent[i].at < Horizon - ToRefresh
    BY DEF ViewInv, Screened, Sound
  <2>2. sent[i].at \in Nat /\ clock \in Nat
    <3>1. sent[i] \in Packet
      BY SentBytes DEF ViewInv
    <3> QED BY <3>1, ViewAssumption DEF Packet, ViewInv, Packets
  <2>3. ToRefresh \in Nat
    <3>1. PollTime + Redraw \in Nat
      BY HorizonNat
    <3> QED BY <3>1, HorizonNat DEF ToRefresh
  <2>4. clock - sent[i].at < Horizon
    BY <2>1, <2>2, <2>3, HorizonNat
  <2> QED BY <2>1, <2>4
<1> QED BY <1>1, <1>2, <1>3

\* When the CRC works, the invariant of the proof holds ...
THEOREM ViewInvariant == ASSUME CrcWorks PROVE Spec => []ViewInv
<1>1. Init => ViewInv
  BY ViewInit
<1>2. ViewInv /\ [Next]_vars => ViewInv'
  BY ViewStep
<1> QED BY <1>1, <1>2, PTL DEF Spec

\* ... and with it the types: what waits in the socket's buffer is bytes.
THEOREM TypeCorrect == ASSUME CrcWorks PROVE Spec => []TypeOK
<1>1. ViewInv => TypeOK
  BY ViewInvImplies
<1> QED BY <1>1, ViewInvariant, PTL

\* "A corrupt frame must leave the last good reading on screen": the record
\* and the screen are those of one packet the aircraft sent.
THEOREM ShowsOnlySent == ASSUME CrcWorks PROVE Spec => []ShowsWhatWasSent
<1>1. ViewInv => ShowsWhatWasSent
  BY ViewInvImplies
<1> QED BY <1>1, ViewInvariant, PTL

\* A screen that says ONLINE shows a packet that is younger than Horizon.
THEOREM OnlineMeansCurrent == ASSUME CrcWorks PROVE Spec => []OnlineIsCurrent
<1>1. ViewInv => OnlineIsCurrent
  BY ViewInvImplies
<1> QED BY <1>1, ViewInvariant, PTL

=============================================================================
