------------------------------- MODULE UInt128 -------------------------------
(***************************************************************************)
(* Int128.h: unsigned integers of two words, in which identifiers are      *)
(* packed.  WORD is the number of values of a word, 2^64 in the code, and  *)
(* HALF_WORD that of half a word.                                          *)
(***************************************************************************)
EXTENDS Integers

CONSTANTS HALF_WORD, WORD

ASSUME WordAssumption == HALF_WORD \in Nat /\ HALF_WORD > 1 /\ WORD = HALF_WORD * HALF_WORD

UInt128s == [m_high : 0 .. WORD - 1, m_low : 0 .. WORD - 1]

UInt(high, low) == [m_high |-> high, m_low |-> low]

Zero == UInt(0, 0)

\* The number it stands for.
Value(x) == x.m_high * WORD + x.m_low

-----------------------------------------------------------------------------

Less(x, y) == x.m_high < y.m_high \/ (x.m_high = y.m_high /\ x.m_low < y.m_low)

Complement(x) == UInt(WORD - 1 - x.m_high, WORD - 1 - x.m_low)

\* Mutant: the carry is lost.
Plus_carryless(x, y) == UInt((x.m_high + y.m_high) % WORD, (x.m_low + y.m_low) % WORD)

\* The lower words wrapped around if their sum is less than one of them.
Plus(x, y) ==
    LET low   == (x.m_low + y.m_low) % WORD
        carry == IF low < x.m_low THEN 1 ELSE 0 IN
    UInt((x.m_high + y.m_high + carry) % WORD, low)

Minus(x, y) == Plus(x, Plus(Complement(y), UInt(0, 1)))

\* A shift by fewer bits than a word has.
ShiftLeft(x, bits) ==
    IF bits = 0 THEN x
    ELSE UInt(((x.m_high * 2^bits) % WORD) + x.m_low \div (WORD \div 2^bits),
              (x.m_low * 2^bits) % WORD)

\* Long division by a number of half a word, in half words.
divmod_uint32(x, divisor) ==
    LET mid_dividend == (x.m_high % divisor) * HALF_WORD + x.m_low \div HALF_WORD
        low_dividend == (mid_dividend % divisor) * HALF_WORD + (x.m_low % HALF_WORD) IN
    [quotient  |-> UInt(x.m_high \div divisor,
                        ((mid_dividend \div divisor) * HALF_WORD + low_dividend \div divisor) % WORD),
     remainder |-> low_dividend % divisor]
=============================================================================
