----------------------------- MODULE SignalLayout -----------------------------
(***************************************************************************)
(* Where a configured signal lies in a CAN frame: the layout fields of     *)
(* SignalSpec (include/roscco/obd_feedback.hpp), the test fitsIn() and the *)
(* DBC convention it is measured against.                                  *)
(***************************************************************************)
EXTENDS Integers

\* What the parameter descriptors of the ObdFeedback constructor admit.
AllSpecs == [start_bit : 0 .. 63, bit_length : 1 .. 64,
             little_endian : BOOLEAN, is_signed : BOOLEAN]

\* A payload byte p \div 8 and bit p % 8 are named by the position p; a bit of
\* a decoded value that comes from no payload bit is Zero.
Zero == -1
Word == 0 .. 63
Dlc == 0 .. 8

Usable(d) == IF d < 8 THEN d ELSE 8

(***************************************************************************)
(* Mutants: plausible bugs in fitsIn().                                    *)
(***************************************************************************)
FitsInOneBitMore(s, d) ==
  IF s.little_endian
  THEN s.start_bit + s.bit_length <= Usable(d) * 8 + 1
  ELSE s.start_bit \div 8 + s.bit_length \div 8 <= Usable(d) /\ s.start_bit \div 8 < Usable(d)
FitsInOneByteLess(s, d) ==
  IF s.little_endian
  THEN s.start_bit + s.bit_length < Usable(d) * 8
  ELSE s.start_bit \div 8 + (s.bit_length + 8) \div 8 <= Usable(d)

-----------------------------------------------------------------------------
(* The code. *)

\* fitsIn(): whether the frame is taken to be long enough.
FitsIn(s, d) ==
  LET available == Usable(d) * 8
      start_byte == s.start_bit \div 8
      needed_bytes == start_byte + ((s.bit_length + 7) \div 8)
  IN  IF s.little_endian
      THEN s.start_bit + s.bit_length <= available
      ELSE needed_bytes * 8 <= available + 7 /\ start_byte * 8 < available

-----------------------------------------------------------------------------
(***************************************************************************)
(* The DBC convention, independent of the code.  In the order of           *)
(* transmission the bytes go up and the bits of a byte go down; a Motorola *)
(* signal occupies consecutive places of that order from its most          *)
(* significant bit on, an Intel signal consecutive positions from its      *)
(* least significant bit on.                                               *)
(***************************************************************************)
Transmitted(p) == 8 * (p \div 8) + 7 - (p % 8)

DbcBit(s, k) ==
  IF s.little_endian
  THEN s.start_bit + k
  ELSE Transmitted(Transmitted(s.start_bit) + s.bit_length - 1 - k)

DbcRawBit(s, k) ==
  IF k < s.bit_length THEN DbcBit(s, k)
  ELSE IF s.is_signed THEN DbcBit(s, s.bit_length - 1)
  ELSE Zero

DbcFits(s, d) ==
  IF s.little_endian
  THEN s.start_bit + s.bit_length <= 8 * d
  ELSE Transmitted(s.start_bit) + s.bit_length <= 8 * d

=============================================================================
