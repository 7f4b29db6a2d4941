------------------------------ MODULE Waveform ------------------------------
(***************************************************************************)
(* The two waveform constructors of src/misc/aw-tapper.py.                 *)
(*                                                                         *)
(* A waveform is a sequence of +1/-1 samples.  build_wave_from_am_bytes    *)
(* packs four 7-bit bytes into a 28-bit stream, reads it least significant *)
(* bit first into a 28-sample unit and tiles the unit across the band      *)
(* width; build_input_wave does the same for a literal bitstring after an  *)
(* optional reversal and a left rotation.  Python's 0-based index i is     *)
(* the TLA+ sequence index i+1.                                            *)
(***************************************************************************)
EXTENDS Integers, Sequences, Bitwise

UnitLen == 28

(* math.ceil(a / b) for a >= 0 and b > 0.                                  *)
CeilDiv(a, b) == (a + b - 1) \div b

(* np.tile(s, reps): reps copies of s one after the other.                *)
RECURSIVE Repeat(_, _)
Repeat(s, reps) == IF reps = 0 THEN <<>> ELSE s \o Repeat(s, reps - 1)

(* np.tile(b, ceil(width / len(b)))[:width]                                *)
Tile(b, width) == SubSeq(Repeat(b, CeilDiv(width, Len(b))), 1, width)

(* Mutant: the A1 and M0 fields swapped in the stream.                    *)
PackStreamSwapped(a0, m0, a1, m1) ==
    ((m1 & 127) * 2^21) | ((m0 & 127) * 2^14) | ((a1 & 127) * 2^7) | (a0 & 127)

(* stream = (b3<<21) | (b2<<14) | (b1<<7) | b0, each byte masked to 7 bits *)
PackStream(a0, m0, a1, m1) ==
    ((m1 & 127) * 2^21) | ((a1 & 127) * 2^14) | ((m0 & 127) * 2^7) | (a0 & 127)

(* Mutant: a clear bit becomes 0.0 instead of -1.0.                       *)
StreamUnitZero(stream) ==
    [i \in 1..UnitLen |-> IF (shiftR(stream, i - 1) & 1) = 1 THEN 1 ELSE 0]

(* for i in range(28): unit[i] = 1.0 if (s & 1) else -1.0; s >>= 1        *)
StreamUnit(stream) ==
    [i \in 1..UnitLen |-> IF (shiftR(stream, i - 1) & 1) = 1 THEN 1 ELSE -1]

(* build_wave_from_am_bytes(a0, m0, a1, m1, width)                         *)
BuildWaveFromAmBytes(a0, m0, a1, m1, width) ==
    Tile(StreamUnit(PackStream(a0, m0, a1, m1)), width)

(* build_input_wave raises ValueError("Empty bitstring.") unless this holds *)
(* (the bitstring is already stripped of surrounding whitespace).         *)
InputWaveDefined(bits) == Len(bits) > 0

(* s[rot:] + s[:rot] after rot %= len(s); Python's % of a negative rot is *)
(* non-negative, as TLA+'s is.                                             *)
RotateLeft(s, rot) ==
    LET r == rot % Len(s) IN SubSeq(s, r + 1, Len(s)) \o SubSeq(s, 1, r)

(* build_input_wave(bits, width, reverse_bits, rot): '1' -> +1, any other  *)
(* character -> -1, then tiled to width.                                   *)
BuildInputWave(bits, width, reverse_bits, rot) ==
    LET s1 == IF reverse_bits
                THEN [i \in 1..Len(bits) |-> bits[Len(bits) + 1 - i]]
                ELSE bits
        s2 == IF rot # 0 THEN RotateLeft(s1, rot) ELSE s1
        b  == [i \in 1..Len(s2) |-> IF s2[i] = "1" THEN 1 ELSE -1]
    IN  Tile(b, width)
=============================================================================
