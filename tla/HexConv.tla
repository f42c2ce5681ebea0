------------------------------ MODULE HexConv ------------------------------
(***************************************************************************)
(* Hexadecimal texts, bytes and numbers (commons/conv, commons/fixer.go and *)
(* Hex2Int of commons/commons.go).  A text is its digits, most significant *)
(* first, after the "0x" if there is one; a byte is two digits.            *)
(***************************************************************************)
EXTENDS Integers, SequencesExt

CONSTANTS
    Base,    \* 16
    MaxInt   \* 2^64 - 1 for Hex2Int, 2^256 - 1 for Uint256

ASSUME BaseAssumption == Base \in Nat \ {0, 1} /\ MaxInt \in Nat

Digits == 0..(Base - 1)
Bytes  == 0..(Base * Base - 1)

\* The numbers that texts and bytes stand for.
NumberOf(s, base) ==
    LET prefix[i \in 0..Len(s)] == IF i = 0 THEN 0 ELSE prefix[i - 1] * base + s[i]
    IN  prefix[Len(s)]

Zeroes(n) == [i \in 1..n |-> 0]

-----------------------------------------------------------------------------

\* hex.DecodeString of a text without strange characters: whole pairs; a digit
\* that is left over is an error, which Hex2Bytes drops.
Hex2Bytes(t) == [i \in 1..(Len(t) \div 2) |-> t[2 * i - 1] * Base + t[2 * i]]
Bytes2Hex(b) == [i \in 1..(2 * Len(b)) |->
                    IF i % 2 = 1 THEN b[(i + 1) \div 2] \div Base ELSE b[i \div 2] % Base]

FromHexUnpadded(t) == Hex2Bytes(t)
FromHex(t) == Hex2Bytes(IF Len(t) % 2 = 1 THEN <<0>> \o t ELSE t)

LeftPadBytes(b, l) == IF l <= Len(b) THEN b ELSE Zeroes(l - Len(b)) \o b

\* Index of the first element that is not zero, or past the end.
FirstNonZero(s) ==
    CHOOSE i \in 1..(Len(s) + 1) : /\ i <= Len(s) => s[i] # 0
                                   /\ \A j \in 1..(i - 1) : s[j] = 0
TrimLeftZeroes(s)  == SubSeq(s, FirstNonZero(s), Len(s))

\* FixerZeroUint64: "0x" is zero.
FixerZeroUint64(t) == IF t = <<>> THEN <<0>> ELSE t
FixerHexStripLeadingZeros(t) == FixerZeroUint64(TrimLeftZeroes(t))

\* The digits of a number, without leading zeroes: the remainders of its division
\* by the base until nothing is left.
DigitsOf(n, base) ==
    LET rest[i \in 0..n] == IF i = 0 THEN n ELSE rest[i - 1] \div base
        l == CHOOSE k \in 0..n : rest[k] = 0 /\ \A j \in 0..(k - 1) : rest[j] # 0
    IN  [i \in 1..l |-> rest[l - i] % base]

\* UInt64HexString.MarshalJSON: "0x%x".
MarshalQuantity(n) == FixerZeroUint64(DigitsOf(n, Base))

\* strconv.ParseUint: no digits and too large a number are errors.
NoNumber == -1
Hex2Int(t) == IF t = <<>> \/ NumberOf(t, Base) > MaxInt THEN NoNumber ELSE NumberOf(t, Base)

\* proto.Uint256 and big.Int: SetBytes, and Bytes without leading zeroes; a
\* number above MaxInt panics.
ToBigInt(b) == NumberOf(b, Base * Base)
Fits(n) == n <= MaxInt
FromBigInt(n) == DigitsOf(n, Base * Base)
=============================================================================
