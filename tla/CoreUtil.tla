------------------------------ MODULE CoreUtil ------------------------------
(***************************************************************************)
(* core_util.c: the 16-bit CRC through which every kernel reports, and the *)
(* integer types of core_portme.h.  A word is its unsigned value; Short    *)
(* reads it as an ee_s16.                                                   *)
(***************************************************************************)
EXTENDS Integers, Sequences

Byte  == 0..255
Int16 == {x \in Int : -32768 <= x /\ x <= 32767}

Short(x) == ((x + 32768) % 65536) - 32768

Bit(x, k) == (x \div 2^k) % 2

FlipBit(x, weight) == IF (x \div weight) % 2 = 1 THEN x - weight ELSE x + weight

\* One turn of the loop: 0x4002 has the bits 14 and 1, one place lower after
\* the shift.
CrcBit(bit, crc) ==
  LET half == crc \div 2
  IN  IF (bit + crc) % 2 = 1 THEN FlipBit(FlipBit(half, 8192), 1) + 32768 ELSE half

crcu8(data) ==
  [crc \in Int |->
     LET turn(k, c) == CrcBit(Bit(data, k), c)
     IN  turn(7, turn(6, turn(5, turn(4, turn(3, turn(2, turn(1, turn(0, crc))))))))]

\* crc16 is the same for a signed newval.
Crcu16(newval, crc) == crcu8((newval \div 2^8) % 2^8)[crcu8(newval % 2^8)[crc]]

Crcu32(newval, crc) == Crcu16(newval \div 2^16, Crcu16(newval, crc))
=============================================================================
