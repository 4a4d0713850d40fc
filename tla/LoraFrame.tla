------------------------------ MODULE LoraFrame ------------------------------
(***************************************************************************)
(* The 46-byte telemetry frame: how make_lora_packet of gcs/gcs.c writes it *)
(* and how parse_telemetry of gcs/GUI.c reads it.  The writer appends its   *)
(* fields one after the other; the reader has an offset of its own for each.*)
(*                                                                         *)
(* A byte has Bits bits (8 in the code), a signed number of n bytes is in   *)
(* two's complement.  Angles, doubles in the code, are integers of a finer  *)
(* unit, of which AngleUnit make the 0.0001 rad of the wire.                *)
(***************************************************************************)
EXTENDS Integers, Sequences, FiniteSetsExt

CONSTANTS
  Bits,        \* bits of a byte: 8
  Taps,        \* the CRC polynomial's exponents below 16: {0, 5, 12}
  Magic0,      \* 0xC5
  Magic1,      \* 0x5A
  Version,     \* 1
  AngleUnit,   \* the aircraft's angle units in one wire unit
  MmPerDm      \* 100

Base == 2^Bits
Byte == 0..(Base - 1)
Word == Base * Base
Int16 == -(Word \div 2)..(Word \div 2 - 1)
Int32 == -((Word * Word) \div 2)..((Word * Word) \div 2 - 1)
FRAME_SIZE == 46

ASSUME FrameAssumption ==
  /\ Bits \in Nat \ {0, 1}
  /\ Base >= 4  \* what 2^Bits then is
  /\ Taps \subseteq 0..(2 * Bits - 1)
  /\ Magic0 \in Byte /\ Magic1 \in Byte /\ Version \in Byte
  /\ AngleUnit \in Nat \ {0} /\ MmPerDm \in Nat \ {0}

-----------------------------------------------------------------------------
\* C's division of integers, and its conversion of a double, round toward 0.
Toward0(a, b) == IF a < 0 THEN -((-a) \div b) ELSE a \div b

\* put_u16_le .. put_u64_le: the low bytes of v, the lowest first.
\* (Mutant: not masked.)
Unmasked(v) == <<v, v \div Base>>
put_u16_le(v) == <<v % Base, (v \div Base) % Base>>
put_u32_le(v) == put_u16_le(v) \o put_u16_le(v \div Word)
put_u64_le(v) == put_u32_le(v) \o put_u32_le(v \div (Word * Word))

\* get_u16_le .. get_u64_le at offset i of the frame f.
get_u16_le(f, i) == f[i + 1] + Base * f[i + 2]
get_u32_le(f, i) == get_u16_le(f, i) + Word * get_u16_le(f, i + 2)
get_u64_le(f, i) == get_u32_le(f, i) + (Word * Word) * get_u32_le(f, i + 4)

\* The conversion of an unsigned number below m to the signed type.
Signed(v, m) == IF v >= m \div 2 THEN v - m ELSE v

get_i16_le(f, i) == Signed(get_u16_le(f, i), Word)
get_i32_le(f, i) == Signed(get_u32_le(f, i), Word * Word)

-----------------------------------------------------------------------------
\* crc16_ccitt: a shift register of two bytes, the set of its cells that are
\* 1, all of them at first.  Every byte is added to the upper half, then the
\* register is shifted once for each of its bits; a bit that falls out flips
\* the taps.
Bit(v, k) == (v \div 2^k) % 2 = 1
Xor(r, s) == (r \ s) \cup (s \ r)
Top == 2 * Bits - 1
Shift(r) ==
  LET moved == {k + 1 : k \in r \ {Top}}
  IN IF Top \in r THEN Xor(moved, Taps) ELSE moved
Shifts ==
  [r \in SUBSET (0..Top) |->
     LET s[k \in 0..Bits] == IF k = 0 THEN r ELSE Shift(s[k - 1]) IN s[Bits]]
Upper(b) == {k \in Bits..Top : Bit(b, k - Bits)}
Register(f, len) ==
  LET r[n \in 0..len] ==
        IF n = 0 THEN 0..Top ELSE Shifts[Xor(r[n - 1], Upper(f[n]))]
  IN r[len]
crc16_ccitt(f, len) == MapThenSumSet(LAMBDA k : 2^k, Register(f, len))

-----------------------------------------------------------------------------
Flags(t) == (IF t.attitude_valid THEN 1 ELSE 0) + (IF t.gps_valid THEN 2 ELSE 0)

\* make_lora_packet without its CRC: telemetry t, number seq, time stamp ts.
\* Altitudes beyond the 16 bits of a decimetre count lose their upper bits.
Fields(t, seq, ts) ==
  <<Magic0, Magic1, Version, Flags(t)>> \o put_u32_le(seq) \o put_u64_le(ts)
  \o put_u16_le(Toward0(t.roll, AngleUnit))
  \o put_u16_le(Toward0(t.pitch, AngleUnit))
  \o put_u16_le(Toward0(t.yaw, AngleUnit))
  \o <<t.gps_fix_type, t.gps_satellites>>
  \o put_u32_le(t.latitude_e7) \o put_u32_le(t.longitude_e7)
  \o put_u16_le(Toward0(t.altitude_mm, MmPerDm))
  \o put_u16_le(Toward0(t.relative_altitude_mm, MmPerDm))
  \o put_u16_le(t.velocity_x_cms) \o put_u16_le(t.velocity_y_cms)
  \o put_u16_le(t.velocity_z_cms)
  \o put_u16_le(t.ground_course_cdeg)

make_lora_packet(t, seq, ts) ==
  LET f == Fields(t, seq, ts) IN f \o put_u16_le(crc16_ccitt(f, Len(f)))

\* The checks of parse_telemetry.  (Mutant: without the CRC.)
ValidNoCrc(f) ==
  /\ Len(f) = FRAME_SIZE
  /\ f[1] = Magic0 /\ f[2] = Magic1 /\ f[3] = Version
Valid(f) ==
  /\ Len(f) = FRAME_SIZE
  /\ f[1] = Magic0 /\ f[2] = Magic1 /\ f[3] = Version
  /\ get_u16_le(f, FRAME_SIZE - 2) = crc16_ccitt(f, FRAME_SIZE - 2)

\* What parse_telemetry reads from a valid frame at time now, in the units of
\* the wire.
Parsed(f, now) ==
  [attitude_valid |-> Bit(f[4], 0), gps_valid |-> Bit(f[4], 1),
   timestamp_ms |-> get_u64_le(f, 8),
   roll |-> get_i16_le(f, 16), pitch |-> get_i16_le(f, 18), yaw |-> get_i16_le(f, 20),
   gps_fix |-> f[23], gps_sats |-> f[24],
   latitude |-> get_i32_le(f, 24), longitude |-> get_i32_le(f, 28),
   altitude |-> get_i16_le(f, 32), relative_altitude |-> get_i16_le(f, 34),
   velocity_x |-> get_i16_le(f, 36), velocity_y |-> get_i16_le(f, 38),
   velocity_z |-> get_i16_le(f, 40), heading |-> get_u16_le(f, 42),
   received_ms |-> now]
=============================================================================
