----------------------------- MODULE UInt128Proofs -----------------------------
(***************************************************************************)
(* UInt128's operators compute with the numbers their operands stand for,  *)
(* for words of any size.                                                  *)
(***************************************************************************)
EXTENDS UInt128, TLAPS

-----------------------------------------------------------------------------
(* Multiples of the size of a word.                                        *)

\* Words and half words can count to more than one.
LEMMA WordType == WORD \in Nat /\ WORD > 1 /\ HALF_WORD \in Nat /\ HALF_WORD > 1
BY WordAssumption

\* Between two multiples there is room for a whole word.
LEMMA NextMultiple ==
    ASSUME NEW a \in Nat, NEW b \in Nat, NEW w \in Nat, a < b
    PROVE  a * w + w <= b * w
<1>1. PICK k \in Nat : b = a + 1 + k
    <2>1. b - a - 1 \in Nat /\ b = a + 1 + (b - a - 1)
        OBVIOUS
    <2>2. QED BY <2>1
<1>2. b * w = a * w + w + k * w /\ k * w \in Nat
    BY <1>1
<1>3. QED BY <1>2

\* Multiplication distributes over addition.
LEMMA Distributes ==
    ASSUME NEW w \in Nat, NEW h \in Nat
    PROVE  (w - 1 - h) * w = w * w - w - h * w
OBVIOUS

\* What % and \div are.
LEMMA Division ==
    ASSUME NEW n \in Nat, NEW d \in Nat, d > 0
    PROVE  /\ n \div d \in Nat /\ n % d \in Nat /\ n % d < d
           /\ n = d * (n \div d) + (n % d)
OBVIOUS

\* Quotient and remainder are determined by the division equation.
LEMMA DivisionIsUnique ==
    ASSUME NEW d \in Nat, d > 0, NEW q \in Nat, NEW r \in Nat, r < d
    PROVE  (q * d + r) % d = r /\ (q * d + r) \div d = q
OBVIOUS

\* The value of an identifier is a number.
LEMMA ValueType ==
    ASSUME NEW x \in UInt128s
    PROVE  /\ x.m_high \in Nat /\ x.m_low \in Nat /\ x.m_high < WORD /\ x.m_low < WORD
           /\ x.m_high * WORD \in Nat /\ Value(x) \in Nat
           /\ x = UInt(x.m_high, x.m_low)
<1>1. x.m_high \in Nat /\ x.m_low \in Nat /\ x.m_high < WORD /\ x.m_low < WORD
    BY WordType DEF UInt128s
<1>2. x.m_high * WORD \in Nat
    BY <1>1, WordType
<1>3. x = UInt(x.m_high, x.m_low)
    BY DEF UInt128s, UInt
<1>4. QED BY <1>1, <1>2, <1>3 DEF Value

\* An identifier is two words.
LEMMA UIntType ==
    ASSUME NEW h \in Nat, NEW l \in Nat, h < WORD, l < WORD
    PROVE  UInt(h, l) \in UInt128s /\ Value(UInt(h, l)) = h * WORD + l
BY WordType DEF UInt, UInt128s, Value

-----------------------------------------------------------------------------

\* Comparing the upper words first compares the numbers, so that the order in which
\* the path processor picks the smaller colour sequence is that of the numbers.
THEOREM LessComparesValues ==
    \A x, y \in UInt128s : Less(x, y) <=> Value(x) < Value(y)
<1> SUFFICES ASSUME NEW x \in UInt128s, NEW y \in UInt128s
             PROVE  Less(x, y) <=> Value(x) < Value(y)
    OBVIOUS
<1>1. CASE x.m_high < y.m_high
    <2>1. x.m_high * WORD + WORD <= y.m_high * WORD
        BY <1>1, NextMultiple, ValueType, WordType
    <2>2. QED BY <1>1, <2>1, ValueType, WordType DEF Less, Value
<1>2. CASE y.m_high < x.m_high
    <2>1. y.m_high * WORD + WORD <= x.m_high * WORD
        BY <1>2, NextMultiple, ValueType, WordType
    <2>2. QED BY <1>2, <2>1, ValueType, WordType DEF Less, Value
<1>3. CASE x.m_high = y.m_high
    BY <1>3, ValueType DEF Less, Value
<1>4. QED BY <1>1, <1>2, <1>3, ValueType

\* No two of them stand for one number: identifiers that differ are counted apart.
THEOREM ValuesDiffer ==
    \A x, y \in UInt128s : Value(x) = Value(y) => x = y
<1> SUFFICES ASSUME NEW x \in UInt128s, NEW y \in UInt128s, Value(x) = Value(y)
             PROVE  x = y
    OBVIOUS
<1>1. ~Less(x, y) /\ ~Less(y, x)
    BY LessComparesValues, ValueType
<1>2. x.m_high = y.m_high /\ x.m_low = y.m_low
    BY <1>1, ValueType DEF Less
<1>3. QED BY <1>2, ValueType

\* The sum of two words, wrapped around, and whether it did.
LEMMA WordSum ==
    ASSUME NEW a \in Nat, NEW b \in Nat, a < WORD, b < WORD
    PROVE  LET s == (a + b) % WORD IN
           /\ s \in Nat /\ s < WORD
           /\ a + b < WORD => s = a + b /\ ~(s < a)
           /\ a + b >= WORD => s = a + b - WORD /\ s < a
<1>1. CASE a + b < WORD
    <2>1. (0 * WORD + (a + b)) % WORD = a + b
        BY <1>1, DivisionIsUnique, WordType
    <2>2. QED BY <1>1, <2>1, WordType
<1>2. CASE a + b >= WORD
    <2>1. a + b - WORD \in Nat /\ a + b - WORD < WORD
        BY <1>2, WordType
    <2>2. (1 * WORD + (a + b - WORD)) % WORD = a + b - WORD
        BY <2>1, DivisionIsUnique, WordType
    <2>3. 1 * WORD + (a + b - WORD) = a + b
        BY WordType
    <2>4. QED BY <1>2, <2>1, <2>2, <2>3, WordType
<1>3. QED BY <1>1, <1>2, WordType

\* Addition carries from the lower word to the upper and wraps around at the end.
THEOREM PlusAddsValues ==
    \A x, y \in UInt128s :
        /\ Plus(x, y) \in UInt128s
        /\ \E wraps \in {0, 1} : Value(Plus(x, y)) = Value(x) + Value(y) - wraps * (WORD * WORD)
<1> SUFFICES ASSUME NEW x \in UInt128s, NEW y \in UInt128s
             PROVE  /\ Plus(x, y) \in UInt128s
                    /\ \E wraps \in {0, 1} :
                         Value(Plus(x, y)) = Value(x) + Value(y) - wraps * (WORD * WORD)
    OBVIOUS
<1> DEFINE low   == (x.m_low + y.m_low) % WORD
           carry == IF low < x.m_low THEN 1 ELSE 0
           high  == (x.m_high + y.m_high + carry) % WORD
<1>1. Plus(x, y) = UInt(high, low)
    BY DEF Plus
<1>2. /\ low \in Nat /\ low < WORD /\ carry \in {0, 1}
      /\ x.m_low + y.m_low = low + carry * WORD
    BY WordSum, ValueType, WordType
<1> HIDE DEF low, carry
<1>3. PICK wraps \in {0, 1} :
          x.m_high + y.m_high + carry = high + wraps * WORD /\ high \in Nat /\ high < WORD
    <2>1. x.m_high + y.m_high + carry < 2 * WORD
        BY <1>2, ValueType, WordType
    <2>2. CASE x.m_high + y.m_high + carry < WORD
        <3> DEFINE rest == x.m_high + y.m_high + carry
        <3>1. rest \in Nat /\ rest < WORD
            BY <1>2, <2>2, ValueType, WordType
        <3> HIDE DEF rest
        <3>2. (0 * WORD + rest) % WORD = rest
            BY <3>1, DivisionIsUnique, WordType
        <3>3. 0 * WORD + rest = rest
            BY <3>1, WordType
        <3>4. rest % WORD = rest /\ rest = rest + 0 * WORD
            BY <3>1, <3>2, <3>3, WordType
        <3>5. high = rest /\ x.m_high + y.m_high + carry = rest
            BY <3>4 DEF rest
        <3>6. QED BY <3>1, <3>4, <3>5
    <2>3. CASE x.m_high + y.m_high + carry >= WORD
        <3> DEFINE rest == x.m_high + y.m_high + carry - WORD
        <3>1. rest \in Nat /\ rest < WORD /\ x.m_high + y.m_high + carry = 1 * WORD + rest
            BY <1>2, <2>1, <2>3, ValueType, WordType
        <3>2. high = rest
            BY <3>1, DivisionIsUnique, WordType
        <3>3. QED BY <3>1, <3>2, WordType
    <2>4. QED BY <1>2, <2>2, <2>3, ValueType, WordType
<1> HIDE DEF high
<1>4. Plus(x, y) \in UInt128s /\ Value(Plus(x, y)) = high * WORD + low
    BY <1>1, <1>2, <1>3, UIntType
<1>5. (x.m_high + y.m_high + carry) * WORD = x.m_high * WORD + y.m_high * WORD + carry * WORD
    BY <1>2, ValueType, WordType
<1>6. (high + wraps * WORD) * WORD = high * WORD + wraps * (WORD * WORD)
    BY <1>3, WordType
<1>7. Value(Plus(x, y)) = Value(x) + Value(y) - wraps * (WORD * WORD)
    <2>1. /\ x.m_high * WORD \in Nat /\ y.m_high * WORD \in Nat /\ high * WORD \in Nat
          /\ carry * WORD \in Nat /\ wraps * (WORD * WORD) \in Nat
        BY <1>2, <1>3, ValueType, WordType
    <2>2. QED BY <1>2, <1>3, <1>4, <1>5, <1>6, <2>1, ValueType, WordType DEF Value
<1>8. QED BY <1>4, <1>7

\* Subtraction, an addition of the complement plus one, is exact unless it would be negative.
THEOREM MinusSubtractsValues ==
    \A x, y \in UInt128s :
        Value(y) <= Value(x) => Value(Minus(x, y)) = Value(x) - Value(y)
<1> SUFFICES ASSUME NEW x \in UInt128s, NEW y \in UInt128s, Value(y) <= Value(x)
             PROVE  Value(Minus(x, y)) = Value(x) - Value(y)
    OBVIOUS
<1> DEFINE range   == WORD * WORD
           negated == Plus(Complement(y), UInt(0, 1))
<1>1. range \in Nat /\ range > 0
    <2>1. 1 * WORD + WORD <= WORD * WORD
        BY NextMultiple, WordType
    <2>2. QED BY <2>1, WordType
<1>2. \A z \in UInt128s : Value(z) \in Nat /\ Value(z) < range
    <2>1. SUFFICES ASSUME NEW z \in UInt128s PROVE Value(z) \in Nat /\ Value(z) < range
        OBVIOUS
    <2>2. z.m_high * WORD + WORD <= WORD * WORD
        BY NextMultiple, ValueType, WordType
    <2>3. QED BY <2>2, ValueType, WordType DEF Value
<1>3. UInt(0, 1) \in UInt128s /\ Value(UInt(0, 1)) = 1
    BY UIntType, WordType
<1>4. Complement(y) \in UInt128s /\ Value(Complement(y)) = range - 1 - Value(y)
    <2>1. /\ WORD - 1 - y.m_high \in Nat /\ WORD - 1 - y.m_high < WORD
          /\ WORD - 1 - y.m_low \in Nat /\ WORD - 1 - y.m_low < WORD
        BY ValueType, WordType
    <2>2. (WORD - 1 - y.m_high) * WORD = WORD * WORD - WORD - y.m_high * WORD
        BY Distributes, ValueType, WordType
    <2>3. /\ Complement(y) \in UInt128s
          /\ Value(Complement(y)) = (WORD - 1 - y.m_high) * WORD + (WORD - 1 - y.m_low)
        BY <2>1, UIntType DEF Complement
    <2>4. /\ WORD * WORD \in Nat /\ y.m_high * WORD \in Nat /\ y.m_low \in Nat
          /\ Value(y) = y.m_high * WORD + y.m_low
        BY ValueType, WordType DEF Value
    <2>5. Value(Complement(y)) = WORD * WORD - WORD - y.m_high * WORD + (WORD - 1 - y.m_low)
        BY <2>2, <2>3
    <2>6. Value(Complement(y)) = WORD * WORD - 1 - Value(y)
        <3> DEFINE all == WORD * WORD
                   high == y.m_high * WORD
        <3>1. /\ all \in Nat /\ high \in Nat
              /\ Value(y) = high + y.m_low
              /\ Value(Complement(y)) = all - WORD - high + (WORD - 1 - y.m_low)
            BY <2>4, <2>5
        <3> HIDE DEF all, high
        <3>2. Value(Complement(y)) = all - 1 - Value(y)
            BY <2>4, <3>1, WordType
        <3>3. QED BY <3>2 DEF all
    <2>7. QED BY <2>3, <2>6
<1>5. negated \in UInt128s
      /\ \E w \in {0, 1} : Value(negated) = range - Value(y) - w * range
    <2>1. PICK w \in {0, 1} :
              Value(negated) = Value(Complement(y)) + Value(UInt(0, 1)) - w * range
        BY <1>3, <1>4, PlusAddsValues
    <2>2. negated \in UInt128s
        BY <1>3, <1>4, PlusAddsValues
    <2>3. Value(negated) = range - Value(y) - w * range
        BY <1>1, <1>2, <1>3, <1>4, <2>1
    <2>4. QED BY <2>2, <2>3
<1>6. Minus(x, y) = Plus(x, negated)
    BY DEF Minus
<1> HIDE DEF range, negated
<1>7. PICK v \in {0, 1} : Value(Minus(x, y)) = Value(x) + Value(negated) - v * range
    BY <1>5, <1>6, PlusAddsValues DEF range
<1>8. PICK w \in {0, 1} : Value(negated) = range - Value(y) - w * range
    BY <1>5
<1>9. Value(Minus(x, y)) \in Nat /\ Value(Minus(x, y)) < range
    BY <1>2, <1>5, <1>6, PlusAddsValues
<1>10. w * range \in {0, range} /\ v * range \in {0, range}
    BY <1>1
<1>11. Value(Minus(x, y)) = Value(x) - Value(y) + range - w * range - v * range
    BY <1>1, <1>2, <1>7, <1>8, <1>10
<1>12. QED BY <1>1, <1>2, <1>9, <1>10, <1>11

\* Long division in half words is division: the digits of an identifier that
\* uint128_to_decimal peels off are those of its number.
THEOREM DivmodDivides ==
    \A x \in UInt128s : \A divisor \in 1 .. HALF_WORD :
        LET result == divmod_uint32(x, divisor) IN
        /\ result.quotient \in UInt128s
        /\ result.remainder \in 0 .. divisor - 1
        /\ Value(x) = divisor * Value(result.quotient) + result.remainder
<1> SUFFICES ASSUME NEW x \in UInt128s, NEW divisor \in 1 .. HALF_WORD
             PROVE  LET result == divmod_uint32(x, divisor) IN
                    /\ result.quotient \in UInt128s
                    /\ result.remainder \in 0 .. divisor - 1
                    /\ Value(x) = divisor * Value(result.quotient) + result.remainder
    OBVIOUS
<1> DEFINE H == HALF_WORD
           hq == x.m_high \div divisor
           hr == x.m_high % divisor
           upper == x.m_low \div H
           lower == x.m_low % H
           mid == hr * H + upper
           mq == mid \div divisor
           mr == mid % divisor
           low == mr * H + lower
           lq == low \div divisor
           r == low % divisor
<1>1. divisor \in Nat /\ divisor > 0 /\ divisor <= H /\ H \in Nat /\ H > 1 /\ WORD = H * H
    BY WordAssumption
<1>2. /\ hq \in Nat /\ hr \in Nat /\ hr < divisor /\ x.m_high = divisor * hq + hr
    BY <1>1, Division, ValueType
<1>3. /\ upper \in Nat /\ lower \in Nat /\ lower < H /\ x.m_low = H * upper + lower
    BY <1>1, Division, ValueType
<1>4. upper < H
    <2>1. SUFFICES ASSUME upper >= H PROVE FALSE
        BY <1>1, <1>3
    <2>2. CASE upper = H
        BY <1>1, <1>3, <2>2, ValueType
    <2>3. CASE H < upper
        <3>1. H * H + H <= upper * H
            BY <1>1, <1>3, <2>3, NextMultiple
        <3>2. QED BY <1>1, <1>3, <3>1, ValueType
    <2>4. QED BY <1>1, <1>3, <2>1, <2>2, <2>3
<1> HIDE DEF hq, hr, upper, lower
<1>5. mid \in Nat /\ mid < divisor * H
    <2>1. hr * H \in Nat /\ hr * H + H <= divisor * H
        BY <1>1, <1>2, NextMultiple
    <2>2. QED BY <1>1, <1>3, <1>4, <2>1
<1>6. mq \in Nat /\ mr \in Nat /\ mr < divisor /\ mid = divisor * mq + mr
    BY <1>1, <1>5, Division
<1>7. low \in Nat /\ low < divisor * H
    <2> HIDE DEF mr
    <2>1. mr * H \in Nat /\ mr * H + H <= divisor * H
        BY <1>1, <1>6, NextMultiple
    <2>2. QED BY <1>1, <1>3, <2>1
<1>8. lq \in Nat /\ r \in Nat /\ r < divisor /\ low = divisor * lq + r
    BY <1>1, <1>7, Division
<1>9. mid = hr * H + upper /\ low = mr * H + lower
    OBVIOUS
<1> HIDE DEF mid, mq, mr, low, lq, r
<1>10. mq < H /\ lq < H
    <2>1. ASSUME NEW n \in Nat, NEW q \in Nat, NEW rest \in Nat,
                 n < divisor * H, n = divisor * q + rest
          PROVE  q < H
        <3>1. SUFFICES ASSUME q >= H PROVE FALSE
            BY <1>1
        <3>2. divisor * q >= divisor * H
            <4>1. PICK k \in Nat : q = H + k
                <5>1. q - H \in Nat /\ q = H + (q - H)
                    BY <1>1, <3>1
                <5>2. QED BY <5>1
            <4>2. divisor * q = divisor * H + divisor * k /\ divisor * k \in Nat
                BY <1>1, <4>1
            <4>3. divisor * H \in Nat
                BY <1>1
            <4>4. QED BY <4>2, <4>3
        <3>3. divisor * q \in Nat /\ divisor * H \in Nat
            BY <1>1
        <3>4. QED BY <2>1, <3>2, <3>3
    <2>2. QED BY <1>5, <1>6, <1>7, <1>8, <2>1
<1>11. mq * H + lq \in Nat /\ mq * H + lq < WORD
    <2>1. mq * H \in Nat /\ mq * H + H <= H * H
        BY <1>1, <1>6, <1>10, NextMultiple
    <2>2. QED BY <1>1, <1>8, <1>10, <2>1
<1>12. (mq * H + lq) % WORD = mq * H + lq
    <2> DEFINE n == mq * H + lq
    <2>1. n \in Nat /\ n < WORD
        BY <1>11
    <2> HIDE DEF n
    <2>2. (0 * WORD + n) % WORD = n /\ 0 * WORD + n = n
        BY <2>1, DivisionIsUnique, WordType
    <2>3. n % WORD = n
        BY <2>2
    <2>4. QED BY <2>3 DEF n
<1>13. hq < WORD
    <2>1. divisor * hq >= hq
        BY <1>1, <1>2
    <2>2. divisor * hq \in Nat
        BY <1>1, <1>2
    <2>3. QED BY <1>2, <2>1, <2>2, ValueType, WordType
<1>14. divmod_uint32(x, divisor) = [quotient |-> UInt(hq, mq * H + lq), remainder |-> r]
    BY <1>12 DEF divmod_uint32, hq, hr, upper, lower, mid, mq, mr, low, lq, r
<1>15. UInt(hq, mq * H + lq) \in UInt128s
       /\ Value(UInt(hq, mq * H + lq)) = hq * WORD + (mq * H + lq)
    BY <1>2, <1>11, <1>13, UIntType
<1>16. Value(x) = divisor * (hq * WORD + (mq * H + lq)) + r
    <2>1. Value(x) = (divisor * hq + hr) * WORD + (H * upper + lower)
        BY <1>2, <1>3, WordType DEF Value
    <2>2. (divisor * hq + hr) * WORD = divisor * (hq * WORD) + (hr * H) * H
        BY <1>1, <1>2
    <2>3. (hr * H) * H + H * upper = mid * H
        BY <1>1, <1>2, <1>3, <1>9
    <2>4. mid * H = divisor * (mq * H) + mr * H
        BY <1>1, <1>6
    <2>5. divisor * (hq * WORD + (mq * H + lq)) = divisor * (hq * WORD) + divisor * (mq * H) + divisor * lq
        BY <1>1, <1>2, <1>6, <1>8, WordType
    <2>6. /\ divisor * (hq * WORD) \in Nat /\ (hr * H) * H \in Nat /\ H * upper \in Nat
          /\ divisor * (mq * H) \in Nat /\ mr * H \in Nat /\ divisor * lq \in Nat
        BY <1>1, <1>2, <1>3, <1>6, <1>8, WordType
    <2>7. mid * H \in Nat /\ lower \in Nat /\ r \in Nat /\ low = mr * H + lower /\ low = divisor * lq + r
        BY <1>1, <1>3, <1>5, <1>8, <1>9
    <2>8. QED BY <2>1, <2>2, <2>3, <2>4, <2>5, <2>6, <2>7
<1>17. QED BY <1>1, <1>8, <1>14, <1>15, <1>16
=============================================================================
