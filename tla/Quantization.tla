---------------------------- MODULE Quantization ----------------------------
(***************************************************************************)
(* Packed weights (cacheir/quantization.py): every row of a matrix gets a  *)
(* scale and a zero point, and its values as unsigned integers, two to a   *)
(* byte when they have four bits.                                          *)
(*                                                                         *)
(* Abstracted: a weight is a multiple of some unit, so that a scale is a   *)
(* fraction and the arithmetic exact; EpsInverse and ZeroLimit stand for   *)
(* the 10^8 and 2^31 of the code and need only be large for the weights.   *)
(***************************************************************************)
EXTENDS Integers, Sequences, SequencesExt, FiniteSetsExt

CONSTANTS EpsInverse,  \* 1 / 1.0e-8: no scale is smaller
          ZeroLimit    \* 2^31: the zero points are int32

ASSUME QuantizationAssumption == EpsInverse \in Nat \ {0} /\ ZeroLimit \in Nat \ {0}

\* np.round(n / d): halves go to the even integer.
Rounded(n, d) ==
    LET q == n \div d
        r == n % d
    IN IF 2 * r < d \/ (2 * r = d /\ q % 2 = 0) THEN q ELSE q + 1

Clip(x, low, high) == IF x < low THEN low ELSE IF x > high THEN high ELSE x
Largest(bits) == 2^bits - 1
Lowest(row) == Min(ToSet(row))
Spread(row) == Max(ToSet(row)) - Lowest(row)

\* The scale of a row: the spread over all the integers there are.
Scale(row, bits) ==
    IF Spread(row) * EpsInverse >= Largest(bits) THEN [num |-> Spread(row), den |-> Largest(bits)]
    ELSE [num |-> 1, den |-> EpsInverse]

\* A conversion to int32 that overflows gives the least integer (x86).
ToInt32(x) == IF x \in (-ZeroLimit)..(ZeroLimit - 1) THEN x ELSE -ZeroLimit
ExactZero(row, bits) == Rounded(-Lowest(row) * Scale(row, bits).den, Scale(row, bits).num)

\* Mutant: the zero point is one of the integers of the row
ZeroInRange(row, bits) == Clip(ExactZero(row, bits), 0, Largest(bits))

\* It is not confined to the integers a value can have: the range of a row need not contain 0.
Zero(row, bits) == ToInt32(ExactZero(row, bits))

Quantized(row, bits) ==
    LET s == Scale(row, bits)
        z == Zero(row, bits)
    IN [i \in DOMAIN row |-> Clip(Rounded(row[i] * s.den + z * s.num, s.num), 0, Largest(bits))]

\* _pack_int4: an odd row is padded with a zero.
PackInt4(q) ==
    LET At(i) == IF i <= Len(q) THEN q[i] ELSE 0
    IN [j \in 1..((Len(q) + 1) \div 2) |-> At(2 * j - 1) + 16 * At(2 * j)]

UnpackInt4(bytes, cols) ==
    [i \in 1..cols |-> IF i % 2 = 1 THEN bytes[(i + 1) \div 2] % 16 ELSE bytes[i \div 2] \div 16]

\* _asymmetric_pack
PackRow(row, bits) ==
    [bits |-> bits, cols |-> Len(row), scale |-> Scale(row, bits), zero |-> Zero(row, bits),
     bytes |-> IF bits = 4 THEN PackInt4(Quantized(row, bits)) ELSE Quantized(row, bits)]
Pack(matrix, bits) == [r \in DOMAIN matrix |-> PackRow(matrix[r], bits)]

\* pack_quantized_weight: the scheme by its name, none for an unknown one.
Bits(quant) == CASE quant = "int4" -> {4} [] quant = "int8" -> {8} [] OTHER -> {}

\* Numerators of the values of a row; its scale has the denominator.
Restored(packed, q) == [nums |-> [i \in 1..packed.cols |-> (q[i] - packed.zero) * packed.scale.num], den |-> packed.scale.den]

\* dequantize_packed_weight
Dequantized(packed) ==
    [r \in DOMAIN packed |-> Restored(packed[r], IF packed[r].bits = 4 THEN UnpackInt4(packed[r].bytes, packed[r].cols)
                                                 ELSE packed[r].bytes)]

\* Mutant: the two halves of a byte are taken in the other order
CudaDequantizedHighFirst(packed) ==
    [r \in DOMAIN packed |->
        LET bytes == packed[r].bytes
            qvalues == FlattenSeq([j \in DOMAIN bytes |-> <<bytes[j] \div 16, bytes[j] % 16>>])
        IN Restored(packed[r], IF packed[r].bits = 4 THEN qvalues ELSE bytes)]

\* CudaRuntime._dequantize_cuda_weight: every byte to the even and the odd column of its pair.
CudaDequantized(packed) ==
    [r \in DOMAIN packed |->
        LET bytes == packed[r].bytes
            qvalues == FlattenSeq([j \in DOMAIN bytes |-> <<bytes[j] % 16, bytes[j] \div 16>>])
        IN Restored(packed[r], IF packed[r].bits = 4 THEN qvalues ELSE bytes)]

=============================================================================
