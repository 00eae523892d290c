-------------------------------- MODULE Words --------------------------------
(***************************************************************************)
(* The data the circuit carries.  A word is four bytes; a byte has         *)
(* ByteValues values (256 in the source), so a word is a number below      *)
(* ByteValues^4 and every operator of the HDL works modulo that number.    *)
(* The bitwise operators and the shifts are the language's own: they are   *)
(* operator parameters of which only the range is assumed.                 *)
(***************************************************************************)
EXTENDS Integers

CONSTANTS
    ByteValues,          \* values of a byte (logic [7:0]: 256)
    ShiftCount,          \* shift amounts (alu_b_i[4:0]: 32)
    UpperShift,          \* the shift of LUI and AUIPC (12)
    BitAnd(_, _), BitOr(_, _), BitXor(_, _),
    ShiftLeft(_, _), ShiftRight(_, _)

Byte == 0 .. ByteValues - 1
WordCount == ByteValues * ByteValues * ByteValues * ByteValues
Word == 0 .. WordCount - 1
Half == WordCount \div 2
AllOnes == WordCount - 1

ASSUME ByteAssumption ==
    /\ ByteValues \in Nat /\ ByteValues > 1
    /\ ShiftCount \in Nat \ {0}
    /\ UpperShift \in Nat

ASSUME BitwiseAssumption ==
    \A a, b \in Word :
        /\ BitAnd(a, b) \in Word
        /\ BitOr(a, b) \in Word
        /\ BitXor(a, b) \in Word

ASSUME ShiftAssumption ==
    \A a \in Word, s \in (0 .. ShiftCount - 1) \cup {UpperShift} :
        /\ ShiftLeft(a, s) \in Word
        /\ ShiftRight(a, s) \in Word

\* Faulty variant: an adder that keeps its carry.
WidePlus(a, b) == a + b

Plus(a, b)  == (a + b) % WordCount
Minus(a, b) == (a - b) % WordCount
Negative(a) == a >= Half                        \* bit 31 is set
SignedLess(a, b) == Plus(a, Half) < Plus(b, Half)

\* The four byte lanes of a word, lane 0 the least significant.
Lanes == 0 .. 3
Weight(k) ==
    CASE k = 0 -> 1
      [] k = 1 -> ByteValues
      [] k = 2 -> ByteValues * ByteValues
      [] k = 3 -> ByteValues * ByteValues * ByteValues
ByteOf(w, k) == (w \div Weight(k)) % ByteValues
WordOf(b0, b1, b2, b3) ==
    (b0 + ByteValues * (b1 + ByteValues * (b2 + ByteValues * b3))) % WordCount
==============================================================================
