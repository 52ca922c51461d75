------------------------------ MODULE SignalSpec ------------------------------
(***************************************************************************)
(* Decoding one DBC-style signal out of CAN frames: SignalSpec of          *)
(* include/roscco/obd_feedback.hpp and src/obd_feedback.cpp, driven by     *)
(* ObdFeedback::process(), which decodes a frame only when fitsIn() says   *)
(* that it is long enough, and by the constructor of ObdFeedback, which    *)
(* disables a signal that cannot fit in any frame.                         *)
(*                                                                         *)
(* Decoding moves bits about and never looks at them, so a decoded value   *)
(* is described by where each of its 64 bits comes from: a position of the *)
(* payload, or Zero.                                                       *)
(***************************************************************************)
EXTENDS SignalLayout, Sequences

CONSTANT Specs  \* the configurations considered

ASSUME SpecsAssumption == Specs \subseteq AllSpecs

VARIABLES
  spec,   \* the configured signal
  dlc,    \* length of the frame last offered
  pc,     \* "new", "disabled", or what decoding has come to: "idle", "walk",
          \* "decoded", "refused"
  bit,    \* Motorola walk: the next position
  taken   \* Motorola walk: the positions shifted into value, first one first

vars == << spec, dlc, pc, bit, taken >>

(***************************************************************************)
(* Mutants: plausible bugs in the definitions below.                       *)
(***************************************************************************)
NextBitWithinByte(p) == IF p % 8 = 0 THEN p + 7 ELSE p - 1
NextBitOneTooFar(p) == IF p % 8 = 0 THEN p + 16 ELSE p - 1

-----------------------------------------------------------------------------
(* The code. *)

\* The sawtooth of the Motorola walk.
NextBit(p) == IF p % 8 = 0 THEN p + 15 ELSE p - 1

InPayload(p, d) == p \div 8 < Usable(d) /\ p >= 0

\* Bit k of value: Intel takes it out of the packed bytes, Motorola shifts it in.
ValueBit(k) ==
  IF spec.little_endian
  THEN IF k < spec.bit_length /\ spec.start_bit + k < 8 * Usable(dlc)
       THEN spec.start_bit + k
       ELSE Zero
  ELSE IF k < Len(taken) THEN taken[Len(taken) - k] ELSE Zero

\* Bit k of what decodeRaw() returns, sign extension included.
RawBit(k) ==
  IF spec.is_signed /\ spec.bit_length < 64 /\ k >= spec.bit_length
  THEN ValueBit(spec.bit_length - 1)
  ELSE ValueBit(k)

\* An enabled signal of any layout the parameters admit.
Init ==
  /\ spec \in Specs
  /\ dlc = 0
  /\ pc = "new"
  /\ bit = 0
  /\ taken = << >>

\* The constructor disables a signal that does not fit in eight bytes.
ConstructorEnables ==
  /\ pc = "new" /\ FitsIn(spec, 8)
  /\ pc' = "idle"
  /\ UNCHANGED << spec, dlc, bit, taken >>

ConstructorDisables ==
  /\ pc = "new" /\ ~ FitsIn(spec, 8)
  /\ pc' = "disabled"
  /\ UNCHANGED << spec, dlc, bit, taken >>

\* process() gets a frame that carries the configured identifier.
Offer(d) ==
  /\ pc \in {"idle", "decoded", "refused"}
  /\ dlc' = d
  /\ taken' = << >>
  /\ bit' = spec.start_bit
  /\ UNCHANGED spec

OfferShort(d) ==
  /\ Offer(d)
  /\ ~ FitsIn(spec, d)
  /\ pc' = "refused"

OfferIntel(d) ==
  /\ Offer(d)
  /\ FitsIn(spec, d) /\ spec.little_endian
  /\ pc' = "decoded"

OfferMotorola(d) ==
  /\ Offer(d)
  /\ FitsIn(spec, d) /\ ~ spec.little_endian
  /\ pc' = "walk"

\* process() passes a disabled signal by, however long the frame.
OfferIgnored(d) ==
  /\ pc = "disabled"
  /\ dlc' = d
  /\ UNCHANGED << spec, pc, bit, taken >>

\* One iteration of the Motorola loop.
WalkBit ==
  /\ pc = "walk"
  /\ Len(taken) < spec.bit_length
  /\ InPayload(bit, dlc)
  /\ taken' = Append(taken, bit)
  /\ bit' = NextBit(bit)
  /\ UNCHANGED << spec, dlc, pc >>

\* The loop is done, or breaks off at the end of the payload.
WalkEnd ==
  /\ pc = "walk"
  /\ Len(taken) = spec.bit_length \/ ~ InPayload(bit, dlc)
  /\ pc' = "decoded"
  /\ UNCHANGED << spec, dlc, bit, taken >>

Next ==
  \/ ConstructorEnables \/ ConstructorDisables
  \/ \E d \in Dlc : OfferIgnored(d) \/ OfferShort(d) \/ OfferIntel(d) \/ OfferMotorola(d)
  \/ WalkBit
  \/ WalkEnd

Spec == Init /\ [][Next]_vars

-----------------------------------------------------------------------------
(* Properties. *)

\* Types of the variables; bit may run past the payload by the walk's last step.
TypeOK ==
  /\ spec \in AllSpecs
  /\ dlc \in Dlc
  /\ pc \in {"new", "disabled", "idle", "walk", "decoded", "refused"}
  /\ bit \in 0 .. 71
  /\ taken \in Seq(Word) /\ Len(taken) <= spec.bit_length

\* A signal that by the DBC convention lies within the frame is decoded
\* exactly, all 64 bits of the result, in both byte orders and signs.
ReadableDecodedExactly ==
  pc = "decoded" /\ DbcFits(spec, dlc) => \A k \in Word : RawBit(k) = DbcRawBit(spec, k)

\* fitsIn() never turns away a frame that holds the whole signal, and the
\* constructor never disables a signal that some frame could hold.
NoReadableFrameRefused ==
  /\ pc = "refused" => ~ DbcFits(spec, dlc)
  /\ pc = "disabled" => \A d \in Dlc : ~ DbcFits(spec, d)

\* What fitsIn() wrongly lets through is short by less than a byte, and is
\* always a Motorola signal whose first bit is not the top bit of its byte.
AtMostABytePart ==
  pc = "decoded" /\ ~ DbcFits(spec, dlc) =>
    /\ ~ spec.little_endian /\ spec.start_bit % 8 # 7
    /\ spec.bit_length - Len(taken) \in 1 .. 7

\* What obd_feedback.hpp:44 says of fitsIn(): "True if this spec can actually
\* be read out of a frame of the given length".
FitsMeansReadable == pc = "decoded" => DbcFits(spec, dlc)

=============================================================================
