--------------------------- MODULE SignalSpecProofs ---------------------------
(***************************************************************************)
(* Proofs about SignalSpec for every set of configurations: fitsIn() and   *)
(* the decoding against the DBC convention.                                *)
(***************************************************************************)
EXTENDS SignalSpec, SequenceTheorems, TLAPS

\* The order of transmission is a renumbering within each byte.
LEMMA TransmittedNat ==
  ASSUME NEW p \in Nat
  PROVE  Transmitted(p) \in Nat
BY DEF Transmitted

LEMMA TransmittedInvolution ==
  ASSUME NEW p \in Nat
  PROVE  Transmitted(Transmitted(p)) = p
BY DEF Transmitted

\* One step of the sawtooth is one place on in the order of transmission.
LEMMA NextBitTransmitted ==
  ASSUME NEW n \in Nat
  PROVE  NextBit(Transmitted(n)) = Transmitted(n + 1)
BY DEF NextBit, Transmitted

\* Whether a place lies in the payload depends on its byte only.
LEMMA InPayloadTransmitted ==
  ASSUME NEW n \in Nat, NEW d \in Dlc
  PROVE  InPayload(Transmitted(n), d) <=> n < 8 * d
BY DEF InPayload, Transmitted, Usable, Dlc

\* fitsIn() accepts every frame that holds the signal.
LEMMA FitsComplete ==
  ASSUME NEW s \in AllSpecs, NEW d \in Dlc, DbcFits(s, d)
  PROVE  FitsIn(s, d)
BY DEF AllSpecs, Dlc, DbcFits, FitsIn, Usable, Transmitted

\* A longer frame never fits less, and no frame is longer than eight bytes.
LEMMA FitsMonotone ==
  ASSUME NEW s \in AllSpecs, NEW d \in Dlc, FitsIn(s, d)
  PROVE  FitsIn(s, 8)
BY DEF AllSpecs, Dlc, FitsIn, Usable

\* For Intel it is exact.
LEMMA IntelFitsExact ==
  ASSUME NEW s \in AllSpecs, NEW d \in Dlc, s.little_endian, FitsIn(s, d)
  PROVE  DbcFits(s, d)
BY DEF AllSpecs, Dlc, DbcFits, FitsIn, Usable

\* For Motorola it is seven bits too generous at most.
LEMMA MotorolaFitsAlmost ==
  ASSUME NEW s \in AllSpecs, NEW d \in Dlc, ~ s.little_endian, FitsIn(s, d)
  PROVE  /\ Transmitted(s.start_bit) + s.bit_length <= 8 * d + 7
         /\ s.start_bit % 8 = 7 => DbcFits(s, d)
BY DEF AllSpecs, Dlc, DbcFits, FitsIn, Usable, Transmitted

\* Place in the order of transmission of the walk's next bit.
Place == Transmitted(spec.start_bit) + Len(taken)

\* The walk takes the signal's bits in their order and none outside the frame.
WalkInv ==
  /\ spec.little_endian => pc # "walk" /\ taken = << >>
  /\ pc \in {"new", "disabled", "idle", "refused"} => taken = << >>
  /\ pc \in {"walk", "decoded"} => FitsIn(spec, dlc) /\ bit = Transmitted(Place)
  /\ pc = "refused" => ~ FitsIn(spec, dlc)
  /\ pc = "disabled" => ~ FitsIn(spec, 8)
  /\ \A i \in 1 .. Len(taken) :
       /\ taken[i] = Transmitted(Transmitted(spec.start_bit) + i - 1)
       /\ Transmitted(spec.start_bit) + i - 1 < 8 * dlc
  /\ pc = "decoded" /\ ~ spec.little_endian =>
       Len(taken) = spec.bit_length \/ ~ InPayload(bit, dlc)

Inv == TypeOK /\ WalkInv

LEMMA SpecFacts ==
  ASSUME Inv
  PROVE  /\ spec \in AllSpecs /\ dlc \in Dlc
         /\ spec.start_bit \in 0 .. 63 /\ spec.bit_length \in 1 .. 64
         /\ spec.little_endian \in BOOLEAN /\ spec.is_signed \in BOOLEAN
         /\ spec.start_bit \in Nat /\ spec.bit_length \in Nat
         /\ Transmitted(spec.start_bit) \in Nat
         /\ Len(taken) \in Nat /\ Place \in Nat
<1>1. spec \in AllSpecs /\ dlc \in Dlc /\ Len(taken) \in Nat
  BY DEF Inv, TypeOK
<1>2. /\ spec.start_bit \in 0 .. 63 /\ spec.bit_length \in 1 .. 64
      /\ spec.little_endian \in BOOLEAN /\ spec.is_signed \in BOOLEAN
  BY <1>1 DEF AllSpecs
<1>3. spec.start_bit \in Nat /\ spec.bit_length \in Nat
  BY <1>2
<1>4. Transmitted(spec.start_bit) \in Nat
  BY <1>3, TransmittedNat
<1>5. Place \in Nat
  BY <1>1, <1>4 DEF Place
<1> QED
  BY <1>1, <1>2, <1>3, <1>4, <1>5

LEMMA InitInv == Init => Inv
<1> SUFFICES ASSUME Init
             PROVE  Inv
  OBVIOUS
<1>1. spec \in AllSpecs /\ spec.bit_length \in 1 .. 64
  BY SpecsAssumption DEF Init, AllSpecs
<1>2. taken \in Seq(Word) /\ Len(taken) = 0
  BY DEF Init
<1>3. TypeOK
  <2>1. Len(taken) <= spec.bit_length
    <3> DEFINE b == spec.bit_length
    <3>1. b \in 1 .. 64
      BY <1>1
    <3> HIDE DEF b
    <3>2. 0 <= b
      BY <3>1
    <3> QED
      BY <1>2, <3>2 DEF b
  <2>2. spec \in AllSpecs /\ dlc \in Dlc /\ bit \in 0 .. 71 /\ pc = "new"
    <3>1. spec \in AllSpecs /\ pc = "new"
      BY <1>1 DEF Init
    <3>2. dlc \in Dlc /\ bit \in 0 .. 71
      BY DEF Init, Dlc
    <3> QED
      BY <3>1, <3>2
  <2> QED
    BY <1>2, <2>1, <2>2 DEF TypeOK
<1>4. WalkInv
  BY <1>2 DEF Init, WalkInv
<1> QED
  BY <1>3, <1>4 DEF Inv

\* The constructor settles whether the signal is enabled.
LEMMA ConstructorInv ==
  ASSUME Inv, ConstructorEnables \/ ConstructorDisables
  PROVE  Inv'
<1>1. /\ pc = "new" /\ UNCHANGED << spec, dlc, bit, taken >>
      /\ pc' = "idle" \/ (pc' = "disabled" /\ ~ FitsIn(spec, 8))
  BY DEF ConstructorEnables, ConstructorDisables
<1>2. TypeOK'
  BY <1>1 DEF Inv, TypeOK
<1>3. WalkInv'
  BY <1>1 DEF Inv, WalkInv
<1> QED
  BY <1>2, <1>3 DEF Inv

LEMMA IgnoredInv ==
  ASSUME Inv, NEW d \in Dlc, OfferIgnored(d)
  PROVE  Inv'
<1>1. pc = "disabled" /\ dlc' = d /\ UNCHANGED << spec, pc, bit, taken >>
  BY DEF OfferIgnored
<1>2. taken = << >>
  BY <1>1 DEF Inv, WalkInv
<1>3. TypeOK'
  BY <1>1 DEF Inv, TypeOK
<1>4. WalkInv'
  BY <1>1, <1>2 DEF Inv, WalkInv
<1> QED
  BY <1>3, <1>4 DEF Inv

\* Offering a frame begins a walk at the signal's first bit.
LEMMA OfferInv ==
  ASSUME Inv, NEW d \in Dlc, OfferShort(d) \/ OfferIntel(d) \/ OfferMotorola(d)
  PROVE  Inv'
<1>1. dlc' = d /\ taken' = << >> /\ bit' = spec.start_bit /\ spec' = spec
  BY DEF OfferShort, OfferIntel, OfferMotorola, Offer
<1>2. /\ pc' \in {"refused", "decoded", "walk"}
      /\ pc' = "refused" <=> ~ FitsIn(spec, d)
      /\ pc' = "walk" => ~ spec.little_endian
      /\ pc' = "decoded" => spec.little_endian
  BY DEF OfferShort, OfferIntel, OfferMotorola
<1>3. taken' \in Seq(Word) /\ Len(taken') = 0
  BY <1>1
<1>4. TypeOK'
  <2>1. bit' \in 0 .. 71 /\ Len(taken') <= spec'.bit_length
    BY <1>1, <1>3, SpecFacts
  <2>2. spec' \in AllSpecs /\ dlc' \in Dlc
    BY <1>1, SpecFacts
  <2> QED
    BY <1>2, <1>3, <2>1, <2>2 DEF TypeOK
<1>5. bit' = Transmitted(Place')
  <2>1. Place' = Transmitted(spec.start_bit)
    BY <1>1, <1>3, SpecFacts DEF Place
  <2> QED
    BY <1>1, <2>1, SpecFacts, TransmittedInvolution
<1>6. WalkInv'
  BY <1>1, <1>2, <1>3, <1>5 DEF WalkInv
<1> QED
  BY <1>4, <1>6 DEF Inv

LEMMA WalkBitInv ==
  ASSUME Inv, WalkBit
  PROVE  Inv'
<1>1. /\ pc = "walk" /\ Len(taken) < spec.bit_length /\ InPayload(bit, dlc)
      /\ taken' = Append(taken, bit) /\ bit' = NextBit(bit)
      /\ spec' = spec /\ dlc' = dlc /\ pc' = pc
  BY DEF WalkBit
<1>2. bit = Transmitted(Place) /\ ~ spec.little_endian
  BY <1>1 DEF Inv, WalkInv
<1>3. Place < 8 * dlc
  BY <1>1, <1>2, InPayloadTransmitted, SpecFacts
<1>4. bit \in Word
  <2>1. dlc \in 0 .. 8 /\ bit \in 0 .. 71
    BY SpecFacts DEF Inv, TypeOK, Dlc
  <2> QED
    BY <1>1, <2>1 DEF InPayload, Usable, Word
<1>5. /\ taken' \in Seq(Word) /\ Len(taken') = Len(taken) + 1
      /\ \A i \in 1 .. Len(taken) : taken'[i] = taken[i]
      /\ taken'[Len(taken) + 1] = bit
  BY <1>1, <1>4, AppendProperties DEF Inv, TypeOK
<1>6. Place' = Place + 1
  BY <1>1, <1>5, SpecFacts DEF Place
<1>7. bit' = Transmitted(Place')
  BY <1>1, <1>2, <1>6, NextBitTransmitted, SpecFacts
<1>8. TypeOK'
  <2>1. bit' \in 0 .. 71
    BY <1>1, <1>4 DEF NextBit, Word
  <2>2. Len(taken') <= spec'.bit_length
    BY <1>1, <1>5, SpecFacts
  <2>3. spec' \in AllSpecs /\ dlc' \in Dlc /\ pc' = "walk"
    BY <1>1, SpecFacts
  <2> QED
    BY <1>5, <2>1, <2>2, <2>3 DEF TypeOK
<1>9. ASSUME NEW i \in 1 .. Len(taken')
      PROVE  /\ taken'[i] = Transmitted(Transmitted(spec.start_bit) + i - 1)
             /\ Transmitted(spec.start_bit) + i - 1 < 8 * dlc
  <2>1. CASE i \in 1 .. Len(taken)
    BY <1>5, <2>1 DEF Inv, WalkInv
  <2>2. CASE i = Len(taken) + 1
    <3>1. Transmitted(spec.start_bit) + i - 1 = Place
      BY <2>2, SpecFacts DEF Place
    <3> QED
      BY <1>2, <1>3, <1>5, <2>2, <3>1
  <2> QED
    BY <1>5, <2>1, <2>2, SpecFacts
<1>10. WalkInv'
  BY <1>1, <1>2, <1>7, <1>9 DEF Inv, WalkInv
<1> QED
  BY <1>8, <1>10 DEF Inv

LEMMA WalkEndInv ==
  ASSUME Inv, WalkEnd
  PROVE  Inv'
<1>1. /\ pc = "walk" /\ pc' = "decoded"
      /\ Len(taken) = spec.bit_length \/ ~ InPayload(bit, dlc)
      /\ spec' = spec /\ dlc' = dlc /\ bit' = bit /\ taken' = taken
  BY DEF WalkEnd
<1>2. TypeOK'
  BY <1>1 DEF Inv, TypeOK
<1>3. WalkInv'
  BY <1>1 DEF Inv, WalkInv, Place
<1> QED
  BY <1>2, <1>3 DEF Inv

LEMMA NextInv == Inv /\ [Next]_vars => Inv'
<1> SUFFICES ASSUME Inv, [Next]_vars
             PROVE  Inv'
  OBVIOUS
<1>1. ASSUME NEW d \in Dlc, OfferShort(d) \/ OfferIntel(d) \/ OfferMotorola(d)
      PROVE  Inv'
  BY <1>1, OfferInv
<1>2. ASSUME NEW d \in Dlc, OfferIgnored(d)
      PROVE  Inv'
  BY <1>2, IgnoredInv
<1>3. CASE ConstructorEnables \/ ConstructorDisables
  BY <1>3, ConstructorInv
<1>4. CASE WalkBit
  BY <1>4, WalkBitInv
<1>5. CASE WalkEnd
  BY <1>5, WalkEndInv
<1>6. CASE UNCHANGED vars
  BY <1>6 DEF vars, Inv, TypeOK, WalkInv, Place
<1> QED
  BY <1>1, <1>2, <1>3, <1>4, <1>5, <1>6 DEF Next

LEMMA InvAlways == Spec => []Inv
BY InitInv, NextInv, PTL DEF Spec

\* The walk's position and what it has taken stay within their types, one
\* sawtooth step past the payload included.
THEOREM TypeCorrect == Spec => []TypeOK
BY InvAlways, PTL DEF Inv

\* A Motorola walk over a frame that holds the signal takes all of it.
LEMMA WholeWalk ==
  ASSUME Inv, pc = "decoded", ~ spec.little_endian, DbcFits(spec, dlc)
  PROVE  Len(taken) = spec.bit_length
<1>1. Len(taken) = spec.bit_length \/ ~ InPayload(bit, dlc)
  BY DEF Inv, WalkInv
<1>2. InPayload(bit, dlc) <=> Place < 8 * dlc
  BY InPayloadTransmitted, SpecFacts DEF Inv, WalkInv
<1>3. Transmitted(spec.start_bit) + spec.bit_length <= 8 * dlc
  BY DEF DbcFits
<1>4. Place < 8 * dlc => Len(taken) >= spec.bit_length
  <2> SUFFICES ASSUME Place < 8 * dlc
               PROVE  Len(taken) = spec.bit_length
    BY SpecFacts
  <2> QED
    BY <1>1, <1>2
<1>5. ~ (Place < 8 * dlc) => Len(taken) >= spec.bit_length
  <2> DEFINE T == Transmitted(spec.start_bit)
             n == Len(taken)
             b == spec.bit_length
  <2>1. T \in Nat /\ n \in Nat /\ b \in Nat /\ dlc \in Nat
    BY SpecFacts DEF Dlc
  <2>2. T + b <= 8 * dlc
    BY <1>3
  <2>3. Place = T + n
    BY DEF Place
  <2> HIDE DEF T, n, b
  <2>4. ~ (T + n < 8 * dlc) => n >= b
    BY <2>1, <2>2
  <2> QED
    BY <2>3, <2>4 DEF n, b
<1>6. Len(taken) <= spec.bit_length
  BY DEF Inv, TypeOK
<1> QED
  BY <1>4, <1>5, <1>6, SpecFacts

\* Every signal the frame really holds is decoded to the value the DBC
\* convention gives it, all 64 bits, whatever its start, length, order and sign.
THEOREM DecodedExactly == Spec => []ReadableDecodedExactly
<1>1. Inv => ReadableDecodedExactly
  <2> SUFFICES ASSUME Inv, pc = "decoded", DbcFits(spec, dlc), NEW k \in Word
               PROVE  RawBit(k) = DbcRawBit(spec, k)
    BY DEF ReadableDecodedExactly
  <2>1. ASSUME NEW m \in 0 .. spec.bit_length - 1
        PROVE  ValueBit(m) = DbcBit(spec, m)
    <3>1. CASE spec.little_endian
      <4>1. spec.start_bit + spec.bit_length <= 8 * dlc /\ 8 * dlc = 8 * Usable(dlc)
        <5>1. 8 * dlc = 8 * Usable(dlc)
          BY SpecFacts DEF Usable, Dlc
        <5> QED
          BY <3>1, <5>1 DEF DbcFits
      <4>2. m < spec.bit_length /\ spec.start_bit + m < 8 * Usable(dlc)
        <5> DEFINE T == spec.start_bit
                   b == spec.bit_length
                   u == Usable(dlc)
        <5>1. T \in Nat /\ b \in Nat /\ dlc \in Nat /\ m \in 0 .. b - 1
          BY SpecFacts DEF Dlc
        <5>2. T + b <= 8 * dlc /\ 8 * dlc = 8 * u
          BY <4>1
        <5> HIDE DEF T, b, u
        <5>3. m < b /\ T + m < 8 * u
          BY <5>1, <5>2
        <5> QED
          BY <5>3 DEF T, b, u
      <4> QED
        BY <3>1, <4>2 DEF ValueBit, DbcBit
    <3>2. CASE ~ spec.little_endian
      <4>1. Len(taken) = spec.bit_length
        BY <3>2, WholeWalk
      <4>2. Len(taken) - m \in 1 .. Len(taken) /\ m < Len(taken)
        BY <4>1, SpecFacts
      <4>3. ValueBit(m) = taken[Len(taken) - m]
        BY <3>2, <4>2 DEF ValueBit
      <4>4. taken[Len(taken) - m] = Transmitted(Transmitted(spec.start_bit) + (Len(taken) - m) - 1)
        BY <4>2 DEF Inv, WalkInv
      <4>5. Transmitted(spec.start_bit) + (Len(taken) - m) - 1
              = Transmitted(spec.start_bit) + spec.bit_length - 1 - m
        BY <4>1, SpecFacts
      <4> QED
        BY <3>2, <4>3, <4>4, <4>5 DEF DbcBit
    <3> QED
      BY <3>1, <3>2
  <2>2. ASSUME NEW m \in Word, m >= spec.bit_length
        PROVE  ValueBit(m) = Zero
    <3>1. CASE spec.little_endian
      BY <2>2, <3>1, SpecFacts DEF ValueBit, Word
    <3>2. CASE ~ spec.little_endian
      BY <2>2, <3>2, WholeWalk, SpecFacts DEF ValueBit, Word
    <3> QED
      BY <3>1, <3>2
  <2>3. CASE k < spec.bit_length
    BY <2>1, <2>3, SpecFacts DEF RawBit, DbcRawBit, Word
  <2>4. CASE k >= spec.bit_length
    <3>1. spec.bit_length - 1 \in 0 .. spec.bit_length - 1 /\ spec.bit_length < 64 /\ ~ (k < spec.bit_length)
      <4> DEFINE b == spec.bit_length
      <4>1. b \in 1 .. 64 /\ k \in 0 .. 63 /\ k >= b
        BY <2>4, SpecFacts DEF Word
      <4> HIDE DEF b
      <4>2. b - 1 \in 0 .. b - 1 /\ b < 64 /\ ~ (k < b)
        BY <4>1
      <4> QED
        BY <4>2 DEF b
    <3>2. ValueBit(spec.bit_length - 1) = DbcBit(spec, spec.bit_length - 1)
      BY <2>1, <3>1
    <3> QED
      BY <2>2, <2>4, <3>1, <3>2 DEF RawBit, DbcRawBit
  <2> QED
    BY <2>3, <2>4, SpecFacts DEF Word
<1> QED
  BY <1>1, InvAlways, PTL

\* fitsIn() never costs a readable sample, nor the constructor a readable
\* signal.
THEOREM NoneRefused == Spec => []NoReadableFrameRefused
<1>1. Inv => NoReadableFrameRefused
  <2> SUFFICES ASSUME Inv
               PROVE  NoReadableFrameRefused
    OBVIOUS
  <2>1. pc = "refused" => ~ DbcFits(spec, dlc)
    BY FitsComplete, SpecFacts DEF Inv, WalkInv
  <2>2. ASSUME pc = "disabled", NEW d \in Dlc
        PROVE  ~ DbcFits(spec, d)
    <3>1. ~ FitsIn(spec, 8)
      BY <2>2 DEF Inv, WalkInv
    <3> QED
      BY <3>1, FitsComplete, FitsMonotone, SpecFacts
  <2> QED
    BY <2>1, <2>2 DEF NoReadableFrameRefused
<1> QED
  BY <1>1, InvAlways, PTL

\* What fitsIn() wrongly accepts lacks at most seven bits, and is Motorola.
THEOREM ShortByBits == Spec => []AtMostABytePart
<1>1. Inv => AtMostABytePart
  <2> SUFFICES ASSUME Inv, pc = "decoded", ~ DbcFits(spec, dlc)
               PROVE  /\ ~ spec.little_endian /\ spec.start_bit % 8 # 7
                      /\ spec.bit_length - Len(taken) \in 1 .. 7
    BY DEF AtMostABytePart
  <2>1. FitsIn(spec, dlc)
    BY DEF Inv, WalkInv
  <2>2. ~ spec.little_endian
    BY <2>1, IntelFitsExact, SpecFacts
  <2>3. /\ Transmitted(spec.start_bit) + spec.bit_length <= 8 * dlc + 7
        /\ spec.start_bit % 8 # 7
    BY <2>1, <2>2, MotorolaFitsAlmost, SpecFacts
  <2> DEFINE T == Transmitted(spec.start_bit)
             n == Len(taken)
             b == spec.bit_length
  <2>4. T \in Nat /\ n \in Nat /\ b \in 1 .. 64 /\ dlc \in 0 .. 8 /\ n <= b
    BY SpecFacts DEF Inv, TypeOK, Dlc
  <2>5. ~ (T + b <= 8 * dlc)
    BY <2>2 DEF DbcFits
  <2>6. n # b
    <3> SUFFICES ASSUME n = b
                 PROVE  FALSE
      OBVIOUS
    <3>1. T + b - 1 < 8 * dlc
      <4> HIDE DEF T, n, b
      <4>1. b \in 1 .. n
        BY <2>4
      <4> QED
        BY <4>1 DEF Inv, WalkInv, T, n
    <3> HIDE DEF T, b
    <3> QED
      BY <2>4, <2>5, <3>1
  <2>7. ~ (T + n < 8 * dlc)
    <3>1. ~ InPayload(bit, dlc) /\ bit = Transmitted(Place)
      BY <2>2, <2>6 DEF Inv, WalkInv
    <3>2. ~ (Place < 8 * dlc)
      BY <3>1, InPayloadTransmitted, SpecFacts
    <3> QED
      BY <3>2 DEF Place
  <2>8. T + b <= 8 * dlc + 7
    BY <2>3
  <2>9. b - n \in 1 .. 7
    <3> HIDE DEF T, n, b
    <3> QED
      BY <2>4, <2>6, <2>7, <2>8
  <2> QED
    BY <2>2, <2>3, <2>9
<1> QED
  BY <1>1, InvAlways, PTL

=============================================================================
