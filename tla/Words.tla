------------------------------- MODULE Words -------------------------------
(***************************************************************************)
(* The 64-bit words the generated code computes with (jit_value), as the   *)
(* processor keeps them: sequences of eight bytes, the lowest first.  The  *)
(* operations are those of the processor; they are not in the repository.  *)
(***************************************************************************)
LOCAL INSTANCE Integers
LOCAL INSTANCE Sequences

Bytes == 0 .. 255

\* A word by the value of its bytes.
Word(B(_)) == <<B(1), B(2), B(3), B(4), B(5), B(6), B(7), B(8)>>

Byte(n, k) == (n \div k) % 256

\* The word of a number between -2^31 and 2^31 - 1.
W(n) == LET s == IF n < 0 THEN 255 ELSE 0
        IN  <<Byte(n, 1), Byte(n, 256), Byte(n, 65536), Byte(n, 16777216),
              s, s, s, s>>

Zero == W(0)
One == W(1)

Negative(a) == a[8] > 127
SignOf(byte) == IF byte > 127 THEN 255 ELSE 0

\* Sign and zero extension of the lowest n bytes.
SignExtend(a, n) == LET s == SignOf(a[n])
                        B(i) == IF i <= n THEN a[i] ELSE s
                    IN  Word(B)
ZeroExtend(a, n) == LET B(i) == IF i <= n THEN a[i] ELSE 0 IN Word(B)

Not(a) == LET B(i) == 255 - a[i] IN Word(B)

\* a + b + c for a carry c, 0 or 1: the sum and the carry out of it.
Carry(a, b, c) ==
  LET s1 == a[1] + b[1] + c
      s2 == a[2] + b[2] + (s1 \div 256)
      s3 == a[3] + b[3] + (s2 \div 256)
      s4 == a[4] + b[4] + (s3 \div 256)
      s5 == a[5] + b[5] + (s4 \div 256)
      s6 == a[6] + b[6] + (s5 \div 256)
      s7 == a[7] + b[7] + (s6 \div 256)
      s8 == a[8] + b[8] + (s7 \div 256)
  IN  [sum |-> <<s1 % 256, s2 % 256, s3 % 256, s4 % 256,
                 s5 % 256, s6 % 256, s7 % 256, s8 % 256>>,
       carry |-> s8 \div 256]

Add(a, b) == Carry(a, b, 0).sum
Sub(a, b) == Carry(a, Not(b), 1).sum
Neg(a) == Carry(Zero, Not(a), 1).sum

\* a < b, for unsigned and for signed words.
Below(a, b) == Carry(a, Not(b), 1).carry = 0
Less(a, b) == IF Negative(a) # Negative(b) THEN Negative(a) ELSE Below(a, b)

Bit(n, k) == (n \div k) % 2
Nibbles == 0 .. 15
AndNibbles ==
  [a \in Nibbles, b \in Nibbles |->
     Bit(a, 1) * Bit(b, 1) + 2 * Bit(a, 2) * Bit(b, 2)
       + 4 * Bit(a, 4) * Bit(b, 4) + 8 * Bit(a, 8) * Bit(b, 8)]
AndByte(a, b) == 16 * AndNibbles[a \div 16, b \div 16]
                   + AndNibbles[a % 16, b % 16]

And(a, b) == LET B(i) == AndByte(a[i], b[i]) IN Word(B)
Or(a, b) == LET B(i) == a[i] + b[i] - AndByte(a[i], b[i]) IN Word(B)
Xor(a, b) == LET B(i) == a[i] + b[i] - 2 * AndByte(a[i], b[i]) IN Word(B)

Pow2 == <<2, 4, 8, 16, 32, 64, 128>>
Power(n) == IF n = 0 THEN 1 ELSE Pow2[n]

\* Shifts by n bits, n in 0 .. 63; fill is what comes in from above.
Shl(a, n) ==
  LET At(i) == IF i < 1 THEN 0 ELSE a[i]
      q == n \div 8
      p == Power(n % 8)
      B(i) == ((At(i - q) * p) % 256) + ((At(i - q - 1) * p) \div 256)
  IN  Word(B)
ShiftRight(a, n, fill) ==
  LET At(i) == IF i > 8 THEN fill ELSE a[i]
      q == n \div 8
      p == Power(n % 8)
      B(i) == (At(i + q) \div p) + ((At(i + q + 1) * (256 \div p)) % 256)
  IN  Word(B)
Shr(a, n) == ShiftRight(a, n, 0)
Sar(a, n) == ShiftRight(a, n, SignOf(a[8]))

\* The products of a byte of a and one of b that count 256 ^ k.
Column(a, b, k) ==
  LET P(i) == IF k + 2 - i \in 1 .. 8 THEN a[i] * b[k + 2 - i] ELSE 0
  IN  P(1) + P(2) + P(3) + P(4) + P(5) + P(6) + P(7) + P(8)

\* The lower and the upper word of the unsigned product.
Product(a, b) ==
  LET C[k \in 0 .. 15] ==
        Column(a, b, k) + (IF k = 0 THEN 0 ELSE C[k - 1] \div 256)
      Low(i) == C[i - 1] % 256
      High(i) == C[i + 7] % 256
  IN  [low |-> Word(Low), high |-> Word(High)]

\* The upper word of the signed product.
SignedHigh(a, b) ==
  LET h == Product(a, b).high
      g == IF Negative(a) THEN Sub(h, b) ELSE h
  IN  IF Negative(b) THEN Sub(g, a) ELSE g

\* One step of a division: the remainder takes the next bit of the dividend
\* in, and gives the divisor off when it has room for it.
TakeBit(s, b, bit) ==
  LET r == Carry(s.rem, s.rem, bit)
      fits == r.carry = 1 \/ ~Below(r.sum, b)
  IN  IF fits THEN [a |-> Carry(s.a, s.a, 1).sum, rem |-> Sub(r.sum, b)]
              ELSE [a |-> Carry(s.a, s.a, 0).sum, rem |-> r.sum]

\* high : a divided by b, for high below b: a is the quotient, rem what is left.
Divide(high, a, b) ==
  LET S[k \in 0 .. 64] ==
        IF k = 0 THEN [a |-> a, rem |-> high]
        ELSE LET s == S[k - 1]
             IN  IF Negative(s.a) THEN TakeBit(s, b, 1) ELSE TakeBit(s, b, 0)
  IN  S[64]

Magnitude(a) == IF Negative(a) THEN Neg(a) ELSE a
=============================================================================
