---------------------------- MODULE G711_proofs ----------------------------
(***************************************************************************)
(* Proofs about G711, for frames and payloads of any length.               *)
(***************************************************************************)
EXTENDS G711, SequenceTheorems, TLAPS

----------------------------------------------------------------------------
(* Powers of two *)

(* The numbers of 16 bits that have one bit.                               *)
PowerTable == <<1, 2, 4, 8, 16, 32, 64, 128, 256, 512, 1024, 2048, 4096, 8192, 16384, 32768>>

(* Powers of two, looked up.                                               *)
LEMMA Powers ==
  ASSUME NEW k \in 0 .. 15
  PROVE  2 ^ k = PowerTable[k + 1]
<1> USE DEF PowerTable
<1>1. CASE k = 0 BY <1>1
<1>2. CASE k = 1 BY <1>2
<1>3. CASE k = 2 BY <1>3
<1>4. CASE k = 3 BY <1>4
<1>5. CASE k = 4 BY <1>5
<1>6. CASE k = 5 BY <1>6
<1>7. CASE k = 6 BY <1>7
<1>8. CASE k = 7 BY <1>8
<1>9. CASE k = 8 BY <1>9
<1>10. CASE k = 9 BY <1>10
<1>11. CASE k = 10 BY <1>11
<1>12. CASE k = 11 BY <1>12
<1>13. CASE k = 12 BY <1>13
<1>14. CASE k = 13 BY <1>14
<1>15. CASE k = 14 BY <1>15
<1>16. CASE k = 15 BY <1>16
<1> QED
  BY <1>1, <1>2, <1>3, <1>4, <1>5, <1>6, <1>7, <1>8, <1>9, <1>10,
     <1>11, <1>12, <1>13, <1>14, <1>15, <1>16

(* A power of two is a positive number.                                    *)
LEMMA PowerIsNat ==
  ASSUME NEW k \in 0 .. 15
  PROVE  2 ^ k \in Nat \ {0}
<1>1. \A i \in 0 .. 15 : PowerTable[i + 1] \in Nat \ {0}
  BY DEF PowerTable
<1> QED
  BY <1>1, Powers

(* Of two of them the higher is at least the double.                       *)
LEMMA PowerGrows ==
  ASSUME NEW j \in 0 .. 15, NEW k \in 0 .. 15, j < k
  PROVE  2 * 2 ^ j <= 2 ^ k
<1>1. \A i, l \in 0 .. 15 : i < l => 2 * PowerTable[i + 1] <= PowerTable[l + 1]
  BY SMTT(60) DEF PowerTable
<1>2. 2 ^ j = PowerTable[j + 1] /\ 2 ^ k = PowerTable[k + 1]
  BY Powers
<1> QED
  BY <1>1, <1>2

(* The step between the code words of a segment, and where it begins.      *)
LEMMA SegmentIs ==
  ASSUME NEW e \in 0 .. 7
  PROVE  /\ 2 ^ (e + 2) = PowerTable[e + 3]
         /\ 2 ^ (e + 2) \in {4, 8, 16, 32, 64, 128, 256, 512}
         /\ 2 ^ (e + 3) = 2 * 2 ^ (e + 2)
         /\ 2 ^ (e + 7) = 32 * 2 ^ (e + 2)
<1>1. \A k \in 0 .. 7 : /\ PowerTable[k + 3] \in {4, 8, 16, 32, 64, 128, 256, 512}
                         /\ PowerTable[k + 4] = 2 * PowerTable[k + 3]
                         /\ PowerTable[k + 8] = 32 * PowerTable[k + 3]
  BY DEF PowerTable
<1>2. /\ 2 ^ (e + 2) = PowerTable[e + 3]
      /\ 2 ^ (e + 3) = PowerTable[e + 4]
      /\ 2 ^ (e + 7) = PowerTable[e + 8]
  <2>1. e + 2 \in 0 .. 15 /\ e + 3 \in 0 .. 15 /\ e + 7 \in 0 .. 15
    OBVIOUS
  <2>2. /\ 2 ^ (e + 2) = PowerTable[(e + 2) + 1]
        /\ 2 ^ (e + 3) = PowerTable[(e + 3) + 1]
        /\ 2 ^ (e + 7) = PowerTable[(e + 7) + 1]
    BY <2>1, Powers
  <2>3. (e + 2) + 1 = e + 3 /\ (e + 3) + 1 = e + 4 /\ (e + 7) + 1 = e + 8
    OBVIOUS
  <2> QED
    BY <2>2, <2>3
<1> QED
  BY <1>1, <1>2

----------------------------------------------------------------------------
(* Samples and words *)

(* i16 by its limits.                                                      *)
LEMMA LinearIs == \A n : n \in Linear <=> n \in Int /\ -32768 <= n /\ n <= 32767
<1>1. MinSample \in Int /\ MaxSample \in Int
  BY DEF MinSample, MaxSample
<1>2. \A n : n \in Linear <=> n \in Int /\ MinSample <= n /\ n <= MaxSample
  BY <1>1 DEF Linear
<1> QED
  BY <1>2 DEF MinSample, MaxSample

(* The fields of a word are what it was put together from.                 *)
LEMMA WordFields ==
  ASSUME NEW negative \in BOOLEAN, NEW e \in 0 .. 7, NEW m \in 0 .. 15
  PROVE  LET word == Word(negative, e, m)
         IN  /\ word \in Bytes
             /\ Negative(word) = negative /\ Exponent(word) = e /\ Mantissa(word) = m
<1> DEFINE high == (IF negative THEN 8 ELSE 0) + e
           word == 16 * high + m
<1>1. high \in 0 .. 15 /\ high % 8 = e /\ (high >= 8 <=> negative)
  OBVIOUS
<1>2. Word(negative, e, m) = word
  BY DEF Word
<1> HIDE DEF high
<1>3. word \in Bytes /\ word \div 16 = high /\ word % 16 = m /\ (word \div 128 = 1 <=> high >= 8)
  BY <1>1 DEF Bytes
<1> QED
  BY <1>1, <1>2, <1>3 DEF Negative, Exponent, Mantissa

(* A byte is put together of its fields.                                   *)
LEMMA FieldsOf ==
  ASSUME NEW word \in Bytes
  PROVE  /\ Negative(word) \in BOOLEAN /\ Exponent(word) \in 0 .. 7 /\ Mantissa(word) \in 0 .. 15
         /\ Word(Negative(word), Exponent(word), Mantissa(word)) = word
<1>1. PICK high \in 0 .. 15 : word \div 16 = high /\ word = 16 * high + Mantissa(word)
  BY DEF Bytes, Mantissa
<1>2. Mantissa(word) \in 0 .. 15
  BY DEF Bytes, Mantissa
<1>3. Exponent(word) = high % 8
  BY <1>1 DEF Exponent
<1>4. Negative(word) <=> high >= 8
  <2>1. word \in Nat /\ word <= 255
    BY DEF Bytes
  <2>2. Negative(word) <=> word >= 128
    BY <2>1 DEF Negative
  <2> QED
    BY <1>1, <1>2, <2>2
<1>5. Exponent(word) \in 0 .. 7 /\ high = (IF Negative(word) THEN 8 ELSE 0) + Exponent(word)
  BY <1>1, <1>3, <1>4
<1> QED
  BY <1>1, <1>2, <1>5 DEF Word, Negative

(* Inverting the even bits twice gives the byte back.                      *)
LEMMA ToggleTwice ==
  ASSUME NEW byte \in Bytes
  PROVE  Toggle[byte] \in Bytes /\ Toggle[Toggle[byte]] = byte
<1>1. /\ byte + 85 - 2 * EvenBits(byte) \in Bytes
      /\ LET other == byte + 85 - 2 * EvenBits(byte)
         IN  other + 85 - 2 * EvenBits(other) = byte
  BY SMTT(60) DEF Bytes, EvenBits
<1> QED
  BY <1>1 DEF Toggle

----------------------------------------------------------------------------
(* Mu-law *)

(* The magnitude that encode_ulaw_sample takes apart.                      *)
Biased(sample) == AtMost(Clip, Magnitude(sample)) + Bias

(* The biased magnitude lies within the segments.                          *)
LEMMA BiasedIs ==
  ASSUME NEW sample \in Linear
  PROVE  /\ Biased(sample) \in Nat /\ 132 <= Biased(sample) /\ Biased(sample) <= 32767
         /\ Magnitude(sample) \in Nat /\ Magnitude(sample) <= 32768
         /\ Magnitude(sample) <= 32635 => Biased(sample) = Magnitude(sample) + 132
         /\ Magnitude(sample) > 32635 => Biased(sample) = 32767
<1>1. Magnitude(sample) \in Nat /\ Magnitude(sample) <= 32768
  BY LinearIs DEF Magnitude
<1>2. Biased(sample) = IF Magnitude(sample) > 32635 THEN 32767 ELSE Magnitude(sample) + 132
  BY <1>1 DEF Biased, AtMost, Clip, Bias
<1> QED
  BY <1>1, <1>2

(* A number of segment e has its highest bit in place e + 7.               *)
LEMMA LeadingZerosIs ==
  ASSUME NEW e \in 0 .. 7, NEW n \in Nat,
         32 * 2 ^ (e + 2) <= n, n < 64 * 2 ^ (e + 2)
  PROVE  LeadingZeros(n) = 24 - e
<1> DEFINE h   == 2 ^ (e + 2)
           low == 2 ^ (e + 7)
<1>1. h \in {4, 8, 16, 32, 64, 128, 256, 512} /\ low = 32 * h
  BY SegmentIs, ZenonT(60)
<1>2. 32 * h <= n /\ n < 64 * h
  OBVIOUS
<1>3. low \in Nat \ {0} /\ low <= n /\ n < 2 * low /\ n \div low = 1
  <2> HIDE DEF h, low
  <2> QED
    BY <1>1, <1>2
<1>4. 24 - e \in 16 .. 31 /\ n \div 2 ^ (31 - (24 - e)) = 1
  <2>1. 31 - (24 - e) = e + 7
    OBVIOUS
  <2> QED
    BY <1>3, <2>1
<1>5. ASSUME NEW zeros \in 16 .. 31, n \div 2 ^ (31 - zeros) = 1
      PROVE  zeros = 24 - e
  <2> DEFINE k == 31 - zeros
             p == 2 ^ k
  <2>1. k \in 0 .. 15 /\ e + 7 \in 0 .. 15
    OBVIOUS
  <2>2. p \in Nat \ {0}
    BY <2>1, PowerIsNat
  <2>3. p <= n /\ n < 2 * p
    <3>1. n \div p = 1
      BY <1>5
    <3> HIDE DEF p
    <3> QED
      BY <2>2, <3>1
  <2>4. k < e + 7 => 2 * p <= low
    BY <2>1, PowerGrows
  <2>5. e + 7 < k => 2 * low <= p
    BY <2>1, PowerGrows
  <2> HIDE DEF p, low
  <2>6. k = e + 7
    BY <1>3, <2>1, <2>2, <2>3, <2>4, <2>5
  <2> QED
    BY <2>6
<1> QED
  BY <1>4, <1>5 DEF LeadingZeros

(* encode_ulaw_sample finds the segment and the code word within it.       *)
LEMMA UlawEncodesTo ==
  ASSUME NEW sample \in Linear, NEW e \in 0 .. 7, NEW m \in 0 .. 15,
         (m + 16) * (2 * 2 ^ (e + 2)) <= Biased(sample),
         Biased(sample) < (m + 17) * (2 * 2 ^ (e + 2))
  PROVE  EncodeUlaw(sample) = 255 - Word(sample < 0, e, m)
<1> DEFINE h == 2 ^ (e + 2)
           n == Biased(sample)
<1>1. h \in {4, 8, 16, 32, 64, 128, 256, 512} /\ 2 ^ (e + 3) = 2 * h
  BY SegmentIs, ZenonT(60)
<1>2. n \in Nat
  BY BiasedIs
<1>3. (m + 16) * (2 * h) <= n /\ n < (m + 17) * (2 * h)
  BY Zenon
<1> HIDE DEF h, n
<1>4. 32 * h <= n /\ n < 64 * h /\ n \div (2 * h) = m + 16
  BY <1>1, <1>2, <1>3
<1>5. LeadingZeros(n) = 24 - e
  BY <1>2, <1>4, LeadingZerosIs DEF h
<1>6. 7 - AtLeast(0, AtMost(7, LeadingZeros(n) - 17)) = e
  BY <1>5 DEF AtLeast, AtMost
<1>7. (n \div 2 ^ (e + 3)) % 16 = m
  <2>1. (m + 16) % 16 = m
    OBVIOUS
  <2> QED
    BY <1>1, <1>4, <2>1
<1> QED
  BY <1>6, <1>7 DEF EncodeUlaw, Biased, n

(* Every sample has a segment and a code word.                             *)
LEMMA UlawWordOf ==
  ASSUME NEW sample \in Linear
  PROVE  \E e \in 0 .. 7, m \in 0 .. 15 :
           /\ (m + 16) * (2 * 2 ^ (e + 2)) <= Biased(sample)
           /\ Biased(sample) < (m + 17) * (2 * 2 ^ (e + 2))
<1> DEFINE n == Biased(sample)
<1>1. n \in Nat /\ 132 <= n /\ n <= 32767
  BY BiasedIs
<1> HIDE DEF n
<1>2. \E e \in 0 .. 7 : 32 * PowerTable[e + 3] <= n /\ n < 64 * PowerTable[e + 3]
  <2> DEFINE In(e) == 32 * PowerTable[e + 3] <= n /\ n < 64 * PowerTable[e + 3]
  <2>1. In(0) \/ In(1) \/ In(2) \/ In(3) \/ In(4) \/ In(5) \/ In(6) \/ In(7)
    BY <1>1 DEF PowerTable
  <2> HIDE DEF In
  <2>2. \E e \in 0 .. 7 : In(e)
    BY <2>1
  <2> QED
    BY <2>2 DEF In
<1>3. PICK e \in 0 .. 7 : 32 * PowerTable[e + 3] <= n /\ n < 64 * PowerTable[e + 3]
  BY <1>2
<1> DEFINE h == 2 ^ (e + 2)
<1>4. h \in {4, 8, 16, 32, 64, 128, 256, 512} /\ h = PowerTable[e + 3]
  BY SegmentIs, ZenonT(60)
<1>5. 32 * h <= n /\ n < 64 * h
  BY <1>3, <1>4
<1> HIDE DEF h
<1>6. n \div (2 * h) - 16 \in 0 .. 15
  BY <1>1, <1>4, <1>5
<1>7. PICK m \in 0 .. 15 : m = n \div (2 * h) - 16
  BY <1>6
<1>8. (m + 16) * (2 * h) <= n /\ n < (m + 17) * (2 * h)
  BY <1>1, <1>4, <1>7
<1> QED
  BY <1>8 DEF h, n

(* The magnitude in the middle of a code word, without the bias.           *)
UlawMiddle(e, m) == (2 * m + 33) * 2 ^ (e + 2) - 132

(* It is a magnitude; only the first is zero.                              *)
LEMMA UlawMiddleIs ==
  ASSUME NEW e \in 0 .. 7, NEW m \in 0 .. 15
  PROVE  /\ UlawMiddle(e, m) \in Nat /\ UlawMiddle(e, m) <= 32124
         /\ UlawMiddle(e, m) = 0 <=> e = 0 /\ m = 0
<1> DEFINE h == 2 ^ (e + 2)
<1>1. h \in {4, 8, 16, 32, 64, 128, 256, 512}
  BY SegmentIs, ZenonT(60)
<1>2. h = 4 <=> e = 0
  <2>1. h = PowerTable[e + 3]
    BY SegmentIs, ZenonT(60)
  <2> HIDE DEF h
  <2> QED
    BY <2>1 DEF PowerTable
<1> HIDE DEF h
<1>3. LET n == (2 * m + 33) * h - 132
      IN  n \in Nat /\ n <= 32124 /\ (n = 0 <=> h = 4 /\ m = 0)
  BY <1>1
<1> QED
  BY <1>2, <1>3 DEF UlawMiddle, h

(* decode_ulaw_sample undoes the inversion and takes the middle.           *)
LEMMA UlawDecodesTo ==
  ASSUME NEW negative \in BOOLEAN, NEW e \in 0 .. 7, NEW m \in 0 .. 15
  PROVE  DecodeUlaw(255 - Word(negative, e, m)) = Signed(negative, UlawMiddle(e, m))
<1> DEFINE word == Word(negative, e, m)
<1>1. /\ word \in Bytes
      /\ Negative(word) = negative /\ Exponent(word) = e /\ Mantissa(word) = m
  BY WordFields
<1>2. 255 - (255 - word) = word
  BY <1>1 DEF Bytes
<1> QED
  BY <1>1, <1>2 DEF DecodeUlaw, UlawMiddle, Bias

(* The error of mu-law against any sample.                                 *)
LEMMA UlawError ==
  ASSUME NEW sample \in Linear
  PROVE  /\ EncodeUlaw(sample) \in Bytes
         /\ 32 * Magnitude(DecodeUlaw(EncodeUlaw(sample)) - sample) <= Magnitude(sample) + Bias
<1> DEFINE n == Biased(sample)
           a == Magnitude(sample)
<1>1. PICK e \in 0 .. 7, m \in 0 .. 15 : /\ (m + 16) * (2 * 2 ^ (e + 2)) <= n
                                         /\ n < (m + 17) * (2 * 2 ^ (e + 2))
  BY UlawWordOf
<1> DEFINE word   == Word(sample < 0, e, m)
           middle == UlawMiddle(e, m)
           h      == 2 ^ (e + 2)
<1>2. EncodeUlaw(sample) = 255 - word
  BY <1>1, UlawEncodesTo, ZenonT(60)
<1>3. (sample < 0) \in BOOLEAN
  OBVIOUS
<1>4. 255 - word \in Bytes
  <2>1. word \in Bytes
    BY <1>3, WordFields
  <2> QED
    BY <2>1 DEF Bytes
<1>5. DecodeUlaw(255 - word) = Signed(sample < 0, middle)
  BY <1>3, UlawDecodesTo, ZenonT(60)
<1>6. /\ n \in Nat /\ a \in Nat /\ a <= 32768
      /\ n = IF a > 32635 THEN 32767 ELSE a + 132
  BY BiasedIs
<1>7. /\ h \in {4, 8, 16, 32, 64, 128, 256, 512}
      /\ (m + 16) * (2 * h) <= n /\ n < (m + 17) * (2 * h)
      /\ middle = (2 * m + 33) * h - 132
  BY <1>1, SegmentIs, ZenonT(60) DEF UlawMiddle
<1>8. middle \in Nat /\ sample \in Int
  BY UlawMiddleIs, LinearIs
<1>9. Magnitude(Signed(sample < 0, middle) - sample) = Magnitude(middle - a)
  BY <1>8 DEF Signed, Magnitude
<1> HIDE DEF n, a, h, middle, word
<1>10. 32 * Magnitude(middle - a) <= a + 132
  <2>1. CASE a <= 32635
    <3>1. n = a + 132
      BY <1>6, <2>1
    <3>2. 32 * (middle - a) <= a + 132 /\ 32 * (a - middle) <= a + 132
      BY <1>6, <1>7, <3>1
    <3> QED
      BY <1>6, <1>8, <3>2 DEF Magnitude
  <2>2. CASE a > 32635
    <3>1. n = 32767
      BY <1>6, <2>2
    <3>2. h = 512 /\ m = 15
      BY <1>7, <3>1
    <3> QED
      BY <1>6, <1>7, <2>2, <3>2 DEF Magnitude
  <2> QED
    BY <1>6, <2>1, <2>2
<1> QED
  BY <1>2, <1>4, <1>5, <1>9, <1>10 DEF Bias, a

(* Minus zero aside, encoding what was decoded gives the byte back.        *)
LEMMA UlawTandem ==
  ASSUME NEW byte \in Bytes
  PROVE  /\ DecodeUlaw(byte) \in Linear
         /\ byte # MinusZero => EncodeUlaw(DecodeUlaw(byte)) = byte
<1> DEFINE word == 255 - byte
           neg  == Negative(word)
           e    == Exponent(word)
           m    == Mantissa(word)
           h    == 2 ^ (e + 2)
           middle == UlawMiddle(e, m)
           sample == Signed(neg, middle)
<1>1. word \in Bytes /\ 255 - word = byte
  BY DEF Bytes
<1>2. neg \in BOOLEAN /\ e \in 0 .. 7 /\ m \in 0 .. 15 /\ Word(neg, e, m) = word
  BY <1>1, FieldsOf
<1>3. DecodeUlaw(byte) = sample
  BY <1>1, <1>2, UlawDecodesTo
<1>4. middle \in Nat /\ middle <= 32124 /\ (middle = 0 <=> e = 0 /\ m = 0)
  BY <1>2, UlawMiddleIs
<1>5. sample \in Linear
  <2>1. sample \in Int /\ -32768 <= sample /\ sample <= 32767
    <3> HIDE DEF middle
    <3> QED
      BY <1>4 DEF Signed
  <2> QED
    BY <2>1, LinearIs
<1>6. ASSUME byte # MinusZero PROVE EncodeUlaw(sample) = byte
  <2>1. ~ (neg /\ e = 0 /\ m = 0)
    <3>1. Word(TRUE, 0, 0) = 128
      BY DEF Word
    <3>2. word # 128
      BY <1>6, <1>1 DEF MinusZero, Bytes
    <3> QED
      BY <1>2, <3>1, <3>2, ZenonT(60)
  <2>2. sample < 0 <=> neg
    <3> HIDE DEF middle, neg, e, m
    <3> QED
      BY <1>2, <1>4, <2>1 DEF Signed
  <2>3. Magnitude(sample) = middle
    <3> HIDE DEF middle
    <3> QED
      BY <1>4 DEF Signed, Magnitude
  <2>4. Biased(sample) = (2 * m + 33) * h
    <3>1. Biased(sample) = middle + 132
      BY <1>4, <1>5, <2>3, BiasedIs
    <3>2. (2 * m + 33) * h \in Int
      <4>1. h \in Int
        BY <1>2, SegmentIs
      <4> HIDE DEF h, m
      <4> QED
        BY <1>2, <4>1
    <3> QED
      BY <3>1, <3>2 DEF UlawMiddle
  <2>5. h \in {4, 8, 16, 32, 64, 128, 256, 512}
    BY <1>2, SegmentIs, ZenonT(60)
  <2>6. (m + 16) * (2 * h) <= (2 * m + 33) * h /\ (2 * m + 33) * h < (m + 17) * (2 * h)
    <3> HIDE DEF h, m
    <3> QED
      BY <1>2, <2>5
  <2> HIDE DEF neg, e, m, sample, word
  <2>7. EncodeUlaw(sample) = 255 - Word(sample < 0, e, m)
    BY <1>2, <1>5, <2>4, <2>6, UlawEncodesTo, ZenonT(60) DEF h
  <2>8. (sample < 0) = neg
    BY <1>2, <2>2
  <2> QED
    BY <1>1, <1>2, <2>7, <2>8
<1> QED
  BY <1>3, <1>5, <1>6

----------------------------------------------------------------------------
(* A-law *)

(* The magnitude of 12 bits that encode_alaw_sample takes apart.           *)
Scaled(sample) == AtMost(4095, Magnitude(sample) \div 8)

(* The clipped magnitude of 12 bits.                                       *)
LEMMA ScaledIs ==
  ASSUME NEW sample \in Linear
  PROVE  /\ Scaled(sample) \in Nat /\ Scaled(sample) <= 4095
         /\ Magnitude(sample) \in Nat /\ Magnitude(sample) <= 32768
         /\ Magnitude(sample) < 32768 => Scaled(sample) = Magnitude(sample) \div 8
         /\ Magnitude(sample) = 32768 => Scaled(sample) = 4095
<1>1. Magnitude(sample) \in Nat /\ Magnitude(sample) <= 32768
  BY LinearIs DEF Magnitude
<1>2. Scaled(sample) = IF Magnitude(sample) \div 8 > 4095 THEN 4095 ELSE Magnitude(sample) \div 8
  BY DEF Scaled, AtMost
<1> QED
  BY <1>1, <1>2

(* Half the step between the code words of a segment but the first.        *)
LEMMA HalfStepIs ==
  ASSUME NEW e \in 1 .. 7
  PROVE  /\ 2 ^ (e - 1) \in {1, 2, 4, 8, 16, 32, 64}
         /\ 2 ^ (e - 1) = PowerTable[e]
         /\ 2 ^ e = 2 * 2 ^ (e - 1)
<1>1. e \in 0 .. 15 /\ e - 1 \in 0 .. 15 /\ (e - 1) + 1 = e
  OBVIOUS
<1>2. 2 ^ e = PowerTable[e + 1] /\ 2 ^ (e - 1) = PowerTable[e]
  <2>1. 2 ^ (e - 1) = PowerTable[(e - 1) + 1]
    BY <1>1, Powers
  <2> QED
    BY <1>1, <2>1, Powers
<1>3. \A k \in 1 .. 7 : /\ PowerTable[k] \in {1, 2, 4, 8, 16, 32, 64}
                        /\ PowerTable[k + 1] = 2 * PowerTable[k]
  BY DEF PowerTable
<1> QED
  BY <1>2, <1>3

(* The scaled magnitudes that share a word.                                *)
InAlawWord(n, e, m) ==
  \/ e = 0 /\ 2 * m <= n /\ n < 2 * m + 2
  \/ e > 0 /\ (m + 16) * 2 ^ e <= n /\ n < (m + 17) * 2 ^ e

(* The loop of encode_alaw_sample stops at the segment of the magnitude.   *)
LEMMA AlawSegmentIs ==
  ASSUME NEW e \in 1 .. 7, NEW m \in 0 .. 15, NEW n \in Nat,
         (m + 16) * 2 ^ e <= n, n < (m + 17) * 2 ^ e
  PROVE  /\ n >= 32 /\ n \div 2 ^ e = m + 16
         /\ Segment(n) = e
<1> DEFINE p == 2 ^ e
           Stops(k) == n \div 2 ^ k < 32 \/ k = 7
           GoesOn(k) == \A lower \in 1 .. k - 1 : n \div 2 ^ lower >= 32
<1>1. p \in {2, 4, 8, 16, 32, 64, 128}
  <2> DEFINE half == 2 ^ (e - 1)
  <2>1. half \in {1, 2, 4, 8, 16, 32, 64} /\ p = 2 * half
    BY HalfStepIs
  <2> HIDE DEF half, p
  <2> QED
    BY <2>1
<1>2. (m + 16) * p <= n /\ n < (m + 17) * p
  OBVIOUS
<1>3. n \div p = m + 16 /\ n >= 32 /\ 16 * p <= n
  <2> HIDE DEF p
  <2> QED
    BY <1>1, <1>2
<1>4. Stops(e)
  BY <1>3
<1>5. ASSUME NEW lower \in 1 .. e - 1 PROVE n \div 2 ^ lower >= 32
  <2> DEFINE q == 2 ^ lower
  <2>1. q \in Nat \ {0} /\ 2 * q <= p
    <3>1. lower \in 0 .. 15 /\ e \in 0 .. 15 /\ lower < e
      OBVIOUS
    <3> QED
      BY <3>1, PowerIsNat, PowerGrows
  <2> HIDE DEF p, q
  <2>2. 32 * q <= n
    BY <1>1, <1>3, <2>1
  <2>3. n \div q >= 32
    BY <2>1, <2>2
  <2> QED
    BY <2>3 DEF q
<1>6. ASSUME NEW k \in 1 .. 7, Stops(k), GoesOn(k) PROVE k = e
  <2>1. CASE k < e
    <3>1. k \in 1 .. e - 1
      BY <2>1
    <3>2. n \div 2 ^ k >= 32 /\ k # 7
      BY <1>5, <2>1, <3>1
    <3>3. n \div 2 ^ k \in Int
      <4>1. 2 ^ k \in Nat \ {0}
        <5>1. k \in 0 .. 15
          OBVIOUS
        <5> QED
          BY <5>1, PowerIsNat
      <4> QED
        BY <4>1
    <3> QED
      BY <1>6, <3>2, <3>3
  <2>2. CASE e < k
    <3>1. e \in 1 .. k - 1
      BY <2>2
    <3>2. n \div p >= 32
      BY <1>6, <3>1
    <3> QED
      BY <1>3, <3>2
  <2> QED
    BY <2>1, <2>2
<1>7. GoesOn(e)
  BY <1>5
<1> HIDE DEF Stops, GoesOn
<1>8. e = CHOOSE k \in 1 .. 7 : Stops(k) /\ GoesOn(k)
  BY <1>4, <1>6, <1>7
<1> QED
  BY <1>3, <1>8 DEF Segment, Stops, GoesOn

(* A sample in the interval of a word is encoded as that word.             *)
LEMMA AlawEncodesTo ==
  ASSUME NEW sample \in Linear, NEW e \in 0 .. 7, NEW m \in 0 .. 15,
         InAlawWord(Scaled(sample), e, m)
  PROVE  EncodeAlaw(sample) = Toggle[Word(sample < 0, e, m)]
<1> DEFINE n == Scaled(sample)
           exponent == IF n < 32 THEN 0 ELSE Segment(n)
           mantissa == IF n < 32 THEN n \div 2 ELSE (n \div 2 ^ exponent - 16) % 16
<1>1. EncodeAlaw(sample) = Toggle[Word(sample < 0, exponent, mantissa)]
  BY DEF EncodeAlaw, Scaled
<1>2. n \in Nat
  BY ScaledIs
<1>3. CASE e = 0
  <2>1. 2 * m <= n /\ n < 2 * m + 2
    BY <1>3 DEF InAlawWord
  <2> HIDE DEF n
  <2>2. n < 32 /\ n \div 2 = m
    BY <1>2, <2>1
  <2>3. exponent = e /\ mantissa = m
    BY <1>3, <2>2
  <2> HIDE DEF exponent, mantissa
  <2> QED
    BY <1>1, <2>3
<1>4. CASE e > 0
  <2>1. e \in 1 .. 7 /\ (m + 16) * 2 ^ e <= n /\ n < (m + 17) * 2 ^ e
    BY <1>4 DEF InAlawWord
  <2> HIDE DEF n
  <2>2. /\ n >= 32 /\ n \div 2 ^ e = m + 16
        /\ Segment(n) = e
    BY <1>2, <2>1, AlawSegmentIs
  <2>3. exponent = e
    BY <1>2, <2>2
  <2>4. mantissa = m
    <3>1. mantissa = (n \div 2 ^ e - 16) % 16
      <4> HIDE DEF exponent
      <4> QED
        BY <1>2, <2>2, <2>3
    <3>2. ((m + 16) - 16) % 16 = m
      OBVIOUS
    <3> QED
      BY <2>2, <3>1, <3>2
  <2> HIDE DEF exponent, mantissa
  <2> QED
    BY <1>1, <2>3, <2>4
<1> QED
  BY <1>3, <1>4

(* Silence goes out as 0x55: the sign bit stands for negative samples.     *)
LEMMA AlawSilence == EncodeAlaw(0) = 85
<1>1. 0 \in Linear
  BY LinearIs
<1>2. InAlawWord(Scaled(0), 0, 0)
  <2>1. Magnitude(0) = 0
    BY DEF Magnitude
  <2>2. Scaled(0) = 0
    BY <2>1 DEF Scaled, AtMost
  <2> QED
    BY <2>2 DEF InAlawWord
<1>3. EncodeAlaw(0) = Toggle[Word(0 < 0, 0, 0)]
  BY <1>1, <1>2, AlawEncodesTo
<1>4. Word(0 < 0, 0, 0) = 0
  BY DEF Word
<1>5. Toggle[0] = 0 + 85 - 2 * EvenBits(0)
  BY DEF Toggle, Bytes
<1>6. EvenBits(0) = 0
  BY DEF EvenBits
<1>7. Toggle[0] = 85
  BY <1>5, <1>6
<1> QED
  BY <1>3, <1>4, <1>7, Zenon

(* A segment is divided into 16 intervals.                                 *)
LEMMA AlawSegmentHas ==
  ASSUME NEW n \in Nat, NEW e \in 1 .. 7,
         16 * PowerTable[e + 1] <= n, n < 32 * PowerTable[e + 1]
  PROVE  \E m \in 0 .. 15 : InAlawWord(n, e, m)
<1> DEFINE p == 2 ^ e
<1>1. p = PowerTable[e + 1]
  <2>1. e \in 0 .. 15
    OBVIOUS
  <2> QED
    BY <2>1, Powers, Zenon
<1>2. \A k \in 1 .. 7 : PowerTable[k + 1] \in {2, 4, 8, 16, 32, 64, 128}
  BY DEF PowerTable
<1>3. p \in {2, 4, 8, 16, 32, 64, 128} /\ 16 * p <= n /\ n < 32 * p
  <2> HIDE DEF p
  <2> QED
    BY <1>1, <1>2
<1> HIDE DEF p
<1>4. n \div p - 16 \in 0 .. 15
  BY <1>3
<1>5. PICK m \in 0 .. 15 : m = n \div p - 16
  BY <1>4
<1>6. (m + 16) * p <= n /\ n < (m + 17) * p
  BY <1>3, <1>5
<1> QED
  BY <1>6 DEF InAlawWord, p

(* Every sample has a segment and a code word.                             *)
LEMMA AlawWordOf ==
  ASSUME NEW n \in Nat, n <= 4095
  PROVE  \E e \in 0 .. 7, m \in 0 .. 15 : InAlawWord(n, e, m)
<1>1. CASE n < 32
  <2>1. PICK m \in 0 .. 15 : m = n \div 2
    BY <1>1
  <2>2. 2 * m <= n /\ n < 2 * m + 2
    BY <2>1
  <2> QED
    BY <2>2 DEF InAlawWord
<1>2. CASE n >= 32
  <2> DEFINE In(k) == 16 * PowerTable[k + 1] <= n /\ n < 32 * PowerTable[k + 1]
  <2>1. In(1) \/ In(2) \/ In(3) \/ In(4) \/ In(5) \/ In(6) \/ In(7)
    BY <1>2 DEF PowerTable
  <2> HIDE DEF In
  <2>2. \E k \in 1 .. 7 : In(k)
    BY <2>1
  <2>3. PICK e \in 1 .. 7 : 16 * PowerTable[e + 1] <= n /\ n < 32 * PowerTable[e + 1]
    BY <2>2 DEF In
  <2>4. PICK m \in 0 .. 15 : InAlawWord(n, e, m)
    BY <2>3, AlawSegmentHas
  <2>5. e \in 0 .. 7
    OBVIOUS
  <2> QED
    BY <2>4, <2>5
<1> QED
  BY <1>1, <1>2

(* The magnitude in the middle of a code word.                             *)
AlawMiddle(e, m) ==
  8 * (IF e = 0 THEN 2 * m + 1 ELSE (2 * m + 33) * 2 ^ (e - 1))

(* It is a magnitude in the interval of its word.                          *)
LEMMA AlawMiddleIs ==
  ASSUME NEW e \in 0 .. 7, NEW m \in 0 .. 15
  PROVE  /\ AlawMiddle(e, m) \in Nat /\ 8 <= AlawMiddle(e, m) /\ AlawMiddle(e, m) <= 32256
         /\ InAlawWord(AlawMiddle(e, m) \div 8, e, m)
<1>1. CASE e = 0
  BY <1>1 DEF AlawMiddle, InAlawWord
<1>2. CASE e > 0
  <2> DEFINE half   == 2 ^ (e - 1)
             middle == (2 * m + 33) * half
  <2>1. half \in {1, 2, 4, 8, 16, 32, 64} /\ 2 ^ e = 2 * half
    <3>1. e \in 1 .. 7
      BY <1>2
    <3> QED
      BY <3>1, HalfStepIs
  <2>2. AlawMiddle(e, m) = 8 * middle
    BY <1>2 DEF AlawMiddle
  <2> HIDE DEF half
  <2>3. middle \in Nat /\ 1 <= middle /\ middle <= 4032
    BY <2>1
  <2>4. (m + 16) * (2 * half) <= middle /\ middle < (m + 17) * (2 * half)
    BY <2>1
  <2> HIDE DEF middle
  <2>5. (8 * middle) \div 8 = middle
    BY <2>3
  <2> QED
    BY <1>2, <2>1, <2>2, <2>3, <2>4, <2>5 DEF InAlawWord
<1> QED
  BY <1>1, <1>2

(* decode_alaw_sample undoes the inversion and takes the middle.           *)
LEMMA AlawDecodesTo ==
  ASSUME NEW negative \in BOOLEAN, NEW e \in 0 .. 7, NEW m \in 0 .. 15
  PROVE  DecodeAlaw(Toggle[Word(negative, e, m)]) = Signed(negative, AlawMiddle(e, m))
<1> DEFINE word == Word(negative, e, m)
<1>1. /\ word \in Bytes
      /\ Negative(word) = negative /\ Exponent(word) = e /\ Mantissa(word) = m
  BY WordFields
<1>2. Toggle[Toggle[word]] = word
  BY <1>1, ToggleTwice
<1> HIDE DEF word
<1>3. DecodeAlaw(Toggle[word]) = Signed(negative, AlawMiddle(e, m))
  BY <1>1, <1>2 DEF DecodeAlaw, AlawMiddle
<1> QED
  BY <1>3 DEF word

(* The error of A-law against any sample.                                  *)
LEMMA AlawError ==
  ASSUME NEW sample \in Linear
  PROVE  /\ EncodeAlaw(sample) \in Bytes
         /\ LET error == Magnitude(DecodeAlaw(EncodeAlaw(sample)) - sample)
            IN  32 * error <= Magnitude(sample) \/ error <= 8
<1> DEFINE n == Scaled(sample)
           a == Magnitude(sample)
<1>1. /\ n \in Nat /\ n <= 4095 /\ a \in Nat /\ a <= 32768
      /\ n = IF a = 32768 THEN 4095 ELSE a \div 8
  BY ScaledIs
<1>2. PICK e \in 0 .. 7, m \in 0 .. 15 : InAlawWord(n, e, m)
  BY <1>1, AlawWordOf
<1> DEFINE word   == Word(sample < 0, e, m)
           middle == AlawMiddle(e, m)
<1>3. (sample < 0) \in BOOLEAN
  OBVIOUS
<1>4. EncodeAlaw(sample) = Toggle[word]
  BY <1>2, AlawEncodesTo
<1>5. Toggle[word] \in Bytes
  <2>1. word \in Bytes
    BY <1>3, WordFields
  <2> QED
    BY <2>1, ToggleTwice
<1>6. DecodeAlaw(Toggle[word]) = Signed(sample < 0, middle)
  BY <1>3, AlawDecodesTo
<1>7. middle \in Nat /\ sample \in Int
  BY AlawMiddleIs, LinearIs
<1>8. Magnitude(Signed(sample < 0, middle) - sample) = Magnitude(middle - a)
  <2> HIDE DEF middle
  <2> QED
    BY <1>7 DEF Signed, Magnitude
<1>9. 32 * Magnitude(middle - a) <= a \/ Magnitude(middle - a) <= 8
  <2>1. CASE e = 0
    <3>1. 2 * m <= n /\ n < 2 * m + 2
      BY <1>2, <2>1 DEF InAlawWord
    <3>2. middle = 16 * m + 8
      BY <2>1 DEF AlawMiddle
    <3> HIDE DEF n, a, middle
    <3>3. a # 32768 /\ n = a \div 8
      BY <1>1, <3>1
    <3>4. 16 * m <= a /\ a <= 16 * m + 15
      BY <1>1, <3>1, <3>3
    <3>5. middle - a <= 8 /\ a - middle <= 8
      BY <1>1, <3>2, <3>4
    <3> QED
      BY <1>1, <1>7, <3>5 DEF Magnitude
  <2>2. CASE e > 0
    <3> DEFINE half == 2 ^ (e - 1)
    <3>1. half \in {1, 2, 4, 8, 16, 32, 64} /\ 2 ^ e = 2 * half
      <4>1. e \in 1 .. 7
        BY <2>2
      <4> QED
        BY <4>1, HalfStepIs
    <3>2. (m + 16) * (2 * half) <= n /\ n < (m + 17) * (2 * half)
      BY <1>2, <2>2, <3>1 DEF InAlawWord
    <3>3. middle = 8 * ((2 * m + 33) * half)
      BY <2>2 DEF AlawMiddle
    <3> HIDE DEF n, a, middle, half
    <3>4. CASE a = 32768
      <4>1. n = 4095
        BY <1>1, <3>4
      <4>2. half = 64 /\ m = 15
        BY <3>1, <3>2, <4>1
      <4>3. middle = 32256
        BY <3>3, <4>2
      <4> QED
        BY <3>4, <4>3 DEF Magnitude
    <3>5. CASE a # 32768
      <4>1. 8 * n <= a /\ a < 8 * n + 8
        BY <1>1, <3>5
      <4>2. 32 * (middle - a) <= a /\ 32 * (a - middle) <= a
        BY <1>1, <3>1, <3>2, <3>3, <4>1
      <4> QED
        BY <1>1, <1>7, <4>2 DEF Magnitude
    <3> QED
      BY <3>4, <3>5
  <2> QED
    BY <2>1, <2>2
<1> HIDE DEF middle, word
<1> QED
  BY <1>4, <1>5, <1>6, <1>8, <1>9

(* Encoding what was decoded gives the byte back.                          *)
LEMMA AlawTandem ==
  ASSUME NEW byte \in Bytes
  PROVE  /\ DecodeAlaw(byte) \in Linear
         /\ EncodeAlaw(DecodeAlaw(byte)) = byte
<1> DEFINE word == Toggle[byte]
           neg  == Negative(word)
           e    == Exponent(word)
           m    == Mantissa(word)
           middle == AlawMiddle(e, m)
           sample == Signed(neg, middle)
<1>1. word \in Bytes /\ Toggle[word] = byte
  BY ToggleTwice
<1>2. neg \in BOOLEAN /\ e \in 0 .. 7 /\ m \in 0 .. 15 /\ Word(neg, e, m) = word
  BY <1>1, FieldsOf
<1>3. DecodeAlaw(byte) = sample
  <2> HIDE DEF word, neg, e, m, middle
  <2>1. DecodeAlaw(Toggle[Word(neg, e, m)]) = Signed(neg, AlawMiddle(e, m))
    BY <1>2, AlawDecodesTo
  <2> QED
    BY <1>1, <1>2, <2>1 DEF middle
<1>4. /\ middle \in Nat /\ 8 <= middle /\ middle <= 32256
      /\ InAlawWord(middle \div 8, e, m)
  BY <1>2, AlawMiddleIs
<1> HIDE DEF word, neg, e, m, middle
<1>5. sample \in Linear /\ (sample < 0) = neg /\ Magnitude(sample) = middle
  <2>1. sample \in Int /\ -32768 <= sample /\ sample <= 32767
    BY <1>4 DEF Signed
  <2>2. sample < 0 <=> neg
    BY <1>4 DEF Signed
  <2>3. Magnitude(sample) = middle
    BY <1>4 DEF Signed, Magnitude
  <2> HIDE DEF sample
  <2> QED
    BY <1>2, <2>1, <2>2, <2>3, LinearIs
<1>6. Scaled(sample) = middle \div 8
  BY <1>4, <1>5, ScaledIs
<1> HIDE DEF sample
<1>7. EncodeAlaw(sample) = Toggle[Word(sample < 0, e, m)]
  BY <1>2, <1>4, <1>5, <1>6, AlawEncodesTo
<1> QED
  BY <1>1, <1>2, <1>3, <1>5, <1>7

----------------------------------------------------------------------------
(* Samples of either codec *)

Laws == {"ulaw", "alaw"}

(* What the table of a codec holds.                                        *)
LEMMA TableIs ==
  ASSUME NEW byte \in Bytes
  PROVE  /\ DecodeTable["ulaw"][byte] = DecodeUlaw(byte)
         /\ DecodeTable["alaw"][byte] = DecodeAlaw(byte)
BY DEF DecodeTable

(* Either encoder makes bytes.                                             *)
LEMMA EncoderIs ==
  ASSUME law \in Laws, NEW sample \in Linear
  PROVE  Encoder(sample) \in Bytes
BY UlawError, AlawError DEF Encoder, Laws

(* Either decoder makes samples that its encoder takes back.               *)
LEMMA DecoderIs ==
  ASSUME law \in Laws, NEW byte \in Bytes
  PROVE  /\ DecodeTable[law][byte] \in Linear
         /\ byte # MinusZero \/ law = "alaw" => Encoder(DecodeTable[law][byte]) = byte
<1>1. CASE law = "ulaw"
  BY <1>1, TableIs, UlawTandem DEF Encoder
<1>2. CASE law = "alaw"
  BY <1>2, TableIs, AlawTandem DEF Encoder
<1> QED
  BY <1>1, <1>2 DEF Laws

----------------------------------------------------------------------------
(* Frames *)

(* Of two samples the second is chosen: each is one of the frame.          *)
LEMMA ChosenIs ==
  ASSUME NEW samples \in Seq(Linear)
  PROVE  /\ Chosen(samples) \in Seq(Linear)
         /\ Len(Chosen(samples)) = (Len(samples) + 1) \div 2
         /\ DOMAIN Chosen(samples) = 1 .. (Len(samples) + 1) \div 2
<1> DEFINE n == Len(samples)
           k == (n + 1) \div 2
<1>1. n \in Nat /\ k \in Nat /\ \A i \in 1 .. n : samples[i] \in Linear
  OBVIOUS
<1>2. ASSUME NEW i \in 1 .. k PROVE samples[AtMost(n, 2 * i)] \in Linear
  <2> HIDE DEF n
  <2>1. AtMost(n, 2 * i) \in 1 .. n
    BY <1>1 DEF AtMost
  <2> QED
    BY <1>1, <2>1
<1>3. Chosen(samples) = [i \in 1 .. k |-> samples[AtMost(n, 2 * i)]]
  BY DEF Chosen, ResampleFactor
<1> HIDE DEF k, n
<1>4. Chosen(samples) \in [1 .. k -> Linear] /\ DOMAIN Chosen(samples) = 1 .. k
  BY <1>2, <1>3
<1>5. Chosen(samples) \in Seq(Linear) /\ Len(Chosen(samples)) = k
  BY <1>1, <1>4
<1> QED
  BY <1>4, <1>5 DEF k, n

(* The payload of a frame and the frame of a payload.                      *)
EncodedFrame(samples) == [i \in DOMAIN Chosen(samples) |-> Encoder(Chosen(samples)[i])]

DecodedFrame(bytes) ==
  [i \in 1 .. 2 * Len(bytes) |-> DecodeTable[law][bytes[(i + 1) \div 2]]]

(* A frame becomes half as many bytes.                                     *)
LEMMA EncodedFrameIs ==
  ASSUME law \in Laws, NEW samples \in Seq(Linear)
  PROVE  /\ EncodedFrame(samples) \in Seq(Bytes)
         /\ Len(EncodedFrame(samples)) = (Len(samples) + 1) \div 2
<1> DEFINE k == (Len(samples) + 1) \div 2
<1>1. k \in Nat
  OBVIOUS
<1>2. /\ DOMAIN Chosen(samples) = 1 .. k
      /\ \A i \in 1 .. k : Chosen(samples)[i] \in Linear
  BY ChosenIs
<1> HIDE DEF k
<1>3. \A i \in 1 .. k : Encoder(Chosen(samples)[i]) \in Bytes
  BY <1>2, EncoderIs
<1>4. EncodedFrame(samples) \in [1 .. k -> Bytes]
  BY <1>2, <1>3 DEF EncodedFrame
<1> QED
  BY <1>1, <1>4 DEF k

(* A payload becomes twice as many samples.                                *)
LEMMA DecodedFrameIs ==
  ASSUME law \in Laws, NEW bytes \in Seq(Bytes)
  PROVE  /\ DecodedFrame(bytes) \in Seq(Linear)
         /\ Len(DecodedFrame(bytes)) = 2 * Len(bytes)
<1> DEFINE n == Len(bytes)
<1>1. n \in Nat /\ \A i \in 1 .. n : bytes[i] \in Bytes
  OBVIOUS
<1>2. ASSUME NEW i \in 1 .. 2 * n PROVE DecodeTable[law][bytes[(i + 1) \div 2]] \in Linear
  <2> HIDE DEF n
  <2>1. (i + 1) \div 2 \in 1 .. n
    BY <1>1
  <2> QED
    BY <1>1, <2>1, DecoderIs
<1>3. DecodedFrame(bytes) \in [1 .. 2 * n -> Linear]
  BY <1>2 DEF DecodedFrame
<1> HIDE DEF n
<1>4. 2 * n \in Nat
  BY <1>1
<1> QED
  BY <1>3, <1>4 DEF n

(* Of a decoded frame the samples are chosen that the bytes stand for.     *)
LEMMA ChosenOfDecoded ==
  ASSUME law \in Laws, NEW bytes \in Seq(Bytes)
  PROVE  /\ DOMAIN Chosen(DecodedFrame(bytes)) = 1 .. Len(bytes)
         /\ \A i \in 1 .. Len(bytes) :
              Chosen(DecodedFrame(bytes))[i] = DecodeTable[law][bytes[i]]
<1> DEFINE n       == Len(bytes)
           samples == DecodedFrame(bytes)
<1>1. n \in Nat /\ samples \in Seq(Linear) /\ Len(samples) = 2 * n
  BY DecodedFrameIs
<1>2. (2 * n + 1) \div 2 = n
  BY <1>1
<1>3. DOMAIN Chosen(samples) = 1 .. n
  BY <1>1, <1>2, ChosenIs
<1>4. ASSUME NEW i \in 1 .. n PROVE Chosen(samples)[i] = DecodeTable[law][bytes[i]]
  <2>1. Chosen(samples)[i] = samples[AtMost(2 * n, 2 * i)]
    <3> HIDE DEF samples, n
    <3> QED
      BY <1>1, <1>2 DEF Chosen, ResampleFactor
  <2>2. AtMost(2 * n, 2 * i) = 2 * i
    <3> HIDE DEF n
    <3> QED
      BY <1>1 DEF AtMost
  <2>3. 2 * i \in 1 .. 2 * n /\ (2 * i + 1) \div 2 = i
    <3> HIDE DEF n
    <3> QED
      BY <1>1
  <2>4. samples[2 * i] = DecodeTable[law][bytes[(2 * i + 1) \div 2]]
    BY <2>3 DEF DecodedFrame
  <2> HIDE DEF samples, n
  <2> QED
    BY <2>1, <2>2, <2>3, <2>4
<1> QED
  BY <1>3, <1>4

----------------------------------------------------------------------------
(* Every state *)

(* Unless it is what the application said, a frame is the decoded payload, *)
(* and unless it is what the peer sent, a payload is the encoded frame.    *)
OfEachOther ==
  /\ at = "coded" /\ frame # <<>> => payload = EncodedFrame(frame)
  /\ at = "linear" /\ payload # <<>> => frame = DecodedFrame(payload)

IInv == TypeOK /\ OfEachOther

(* One of the two is empty in the beginning.                               *)
LEMMA InitIInv == Init => IInv
<1> SUFFICES ASSUME Init PROVE IInv
  OBVIOUS
<1> USE SpeechAssumption
<1>1. CASE Spoken
  <2>1. payload = <<>> /\ at = "linear" /\ frame \in Seq(Linear)
    BY <1>1 DEF Spoken
  <2>2. payload \in Seq(Bytes)
    BY <2>1
  <2> QED
    BY <2>1, <2>2 DEF Init, IInv, TypeOK, OfEachOther
<1>2. CASE Heard
  <2>1. frame = <<>> /\ at = "coded" /\ payload \in Seq(Bytes)
    BY <1>2 DEF Heard
  <2>2. frame \in Seq(Linear)
    BY <2>1
  <2> QED
    BY <2>1, <2>2 DEF Init, IInv, TypeOK, OfEachOther
<1> QED
  BY <1>1, <1>2 DEF Init

(* What Encode leaves behind.                                              *)
LEMMA EncodeIs ==
  ASSUME TypeOK, Encode
  PROVE  payload' = EncodedFrame(frame) /\ payload' \in Seq(Bytes)
<1>1. law \in Laws /\ frame \in Seq(Linear)
  BY DEF TypeOK, Laws
<1>2. payload' = EncodedFrame(frame)
  BY DEF Encode, EncodedFrame
<1> QED
  BY <1>1, <1>2, EncodedFrameIs

(* What Decode leaves behind.                                              *)
LEMMA DecodeIs ==
  ASSUME TypeOK, Decode
  PROVE  frame' = DecodedFrame(payload) /\ frame' \in Seq(Linear)
<1>1. law \in Laws /\ payload \in Seq(Bytes)
  BY DEF TypeOK, Laws
<1>2. frame' = DecodedFrame(payload)
  BY DEF Decode, DecodedFrame, ResampleFactor
<1> QED
  BY <1>1, <1>2, DecodedFrameIs

(* Each action makes one of the other, and leaves the law alone.           *)
LEMMA NextIInv == IInv /\ [Next]_vars => IInv'
<1> SUFFICES ASSUME IInv, [Next]_vars PROVE IInv'
  OBVIOUS
<1>1. TypeOK
  BY DEF IInv
<1>2. CASE Encode
  <2>1. /\ payload' = EncodedFrame(frame) /\ payload' \in Seq(Bytes)
        /\ at' = "coded" /\ law' = law /\ frame' = frame
    BY <1>1, <1>2, EncodeIs DEF Encode
  <2>2. payload' = EncodedFrame(frame)'
    BY <2>1 DEF EncodedFrame, Encoder
  <2> QED
    BY <1>1, <2>1, <2>2 DEF IInv, TypeOK, OfEachOther
<1>3. CASE Decode
  <2>1. /\ frame' = DecodedFrame(payload) /\ frame' \in Seq(Linear)
        /\ at' = "linear" /\ law' = law /\ payload' = payload
    BY <1>1, <1>3, DecodeIs DEF Decode
  <2>2. frame' = DecodedFrame(payload)'
    BY <2>1 DEF DecodedFrame
  <2> QED
    BY <1>1, <2>1, <2>2 DEF IInv, TypeOK, OfEachOther
<1>4. CASE UNCHANGED vars
  BY <1>4 DEF vars, IInv, TypeOK, OfEachOther, EncodedFrame, DecodedFrame, Encoder
<1> QED
  BY <1>2, <1>3, <1>4 DEF Next

(* A frame and its payload stay what Encode and Decode make of each other. *)
LEMMA SpecIInv == Spec => []IInv
BY InitIInv, NextIInv, PTL DEF Spec

(* Decoded samples fit i16 and code words u8: the casts of                 *)
(* decode_ulaw_sample, decode_alaw_sample and both encoders lose nothing.  *)
THEOREM SpecTypeOK == Spec => []TypeOK
<1>1. IInv => TypeOK
  BY DEF IInv
<1> QED
  BY <1>1, SpecIInv, PTL

(* In a frame of any length, every code word is within one part in 32 of   *)
(* its sample: encode_ulaw_sample and encode_alaw_sample pick the segment, *)
(* and decode_ulaw_sample and decode_alaw_sample its middle.               *)
THEOREM SpecErrorIsRelative == Spec => []ErrorIsRelative
<1>1. IInv => ErrorIsRelative
  <2> SUFFICES ASSUME IInv, at = "coded", frame # <<>>, NEW i \in DOMAIN payload
               PROVE  LET sample == Chosen(frame)[i]
                          error  == Magnitude(DecodeTable[law][payload[i]] - sample)
                      IN  \/ law = "ulaw" /\ 32 * error <= Magnitude(sample) + Bias
                          \/ law = "alaw" /\ (32 * error <= Magnitude(sample) \/ error <= 8)
    BY DEF ErrorIsRelative
  <2> DEFINE sample == Chosen(frame)[i]
  <2>1. law \in Laws /\ frame \in Seq(Linear) /\ payload = EncodedFrame(frame)
    BY DEF IInv, TypeOK, OfEachOther, Laws
  <2>2. i \in DOMAIN Chosen(frame) /\ payload[i] = Encoder(sample)
    BY <2>1 DEF EncodedFrame
  <2>3. sample \in Linear
    BY <2>1, <2>2, ChosenIs
  <2>4. CASE law = "ulaw"
    <3>1. payload[i] = EncodeUlaw(sample)
      BY <2>2, <2>4 DEF Encoder
    <3>2. EncodeUlaw(sample) \in Bytes
      BY <2>3, UlawError
    <3>3. DecodeTable[law][payload[i]] = DecodeUlaw(EncodeUlaw(sample))
      BY <2>4, <3>1, <3>2, TableIs
    <3> QED
      BY <2>3, <2>4, <3>3, UlawError
  <2>5. CASE law = "alaw"
    <3>1. payload[i] = EncodeAlaw(sample)
      BY <2>2, <2>5 DEF Encoder
    <3>2. EncodeAlaw(sample) \in Bytes
      BY <2>3, AlawError
    <3>3. DecodeTable[law][payload[i]] = DecodeAlaw(EncodeAlaw(sample))
      BY <2>5, <3>1, <3>2, TableIs
    <3> QED
      BY <2>3, <2>5, <3>3, AlawError
  <2> QED
    BY <2>1, <2>4, <2>5 DEF Laws
<1> QED
  BY <1>1, SpecIInv, PTL

(* A payload of any length survives a gateway: what the decoder of either  *)
(* codec makes of it, its encoder turns into the same bytes.               *)
THEOREM SpecTandemIsLossless == Spec => TandemIsLossless
<1>1. IInv /\ [Next]_vars =>
        [Encode /\ payload # <<>> =>
           /\ Len(payload') = Len(payload)
           /\ \A i \in DOMAIN payload :
                payload[i] # MinusZero \/ law = "alaw" => payload'[i] = payload[i]]_vars
  <2> SUFFICES ASSUME IInv, Encode, payload # <<>>
               PROVE  /\ Len(payload') = Len(payload)
                      /\ \A i \in DOMAIN payload :
                           payload[i] # MinusZero \/ law = "alaw" => payload'[i] = payload[i]
    OBVIOUS
  <2>1. /\ law \in Laws /\ payload \in Seq(Bytes) /\ payload' \in Seq(Bytes)
        /\ payload' = EncodedFrame(DecodedFrame(payload))
    <3>1. TypeOK /\ at = "linear"
      BY DEF IInv, Encode
    <3> QED
      BY <3>1, EncodeIs DEF IInv, OfEachOther, TypeOK, Laws
  <2>2. /\ DOMAIN payload' = 1 .. Len(payload)
        /\ \A i \in 1 .. Len(payload) : payload'[i] = Encoder(DecodeTable[law][payload[i]])
    BY <2>1, ChosenOfDecoded DEF EncodedFrame
  <2>3. Len(payload') = Len(payload)
    BY <2>1, <2>2
  <2>4. ASSUME NEW i \in DOMAIN payload, payload[i] # MinusZero \/ law = "alaw"
        PROVE  payload'[i] = payload[i]
    <3>1. i \in 1 .. Len(payload) /\ payload[i] \in Bytes
      BY <2>1
    <3> QED
      BY <2>1, <2>2, <2>4, <3>1, DecoderIs
  <2> QED
    BY <2>3, <2>4
<1> QED
  BY <1>1, SpecIInv, PTL DEF Spec, TandemIsLossless

Kinds == INSTANCE CodecKinds

KindOf == [ulaw |-> "pcmu", alaw |-> "pcma"]

(* The payloads and frames have the lengths that CodecKinds gives.         *)
LengthsAreCodecKinds ==
  [][/\ Encode => Len(payload') \in Kinds!EncodedBytes(KindOf[law], Len(frame))
     /\ Decode => Len(frame') \in Kinds!DecodedSamples(KindOf[law], Len(payload))]_vars

(* The lengths the echo call reckons with are those of the codecs: the     *)
(* chunks of two samples and the doubling, in encode and decode of         *)
(* pcmu.rs and pcma.rs, are what CodecKinds says of PCMU and PCMA.         *)
THEOREM SpecLengthsAreCodecKinds == Spec => LengthsAreCodecKinds
<1>1. IInv /\ [Next]_vars =>
        [/\ Encode => Len(payload') \in Kinds!EncodedBytes(KindOf[law], Len(frame))
         /\ Decode => Len(frame') \in Kinds!DecodedSamples(KindOf[law], Len(payload))]_vars
  <2> SUFFICES ASSUME IInv
               PROVE  /\ Encode => Len(payload') \in Kinds!EncodedBytes(KindOf[law], Len(frame))
                      /\ Decode => Len(frame') \in Kinds!DecodedSamples(KindOf[law], Len(payload))
    OBVIOUS
  <2>1. /\ TypeOK /\ law \in Laws
        /\ frame \in Seq(Linear) /\ payload \in Seq(Bytes)
        /\ KindOf[law] \in {"pcmu", "pcma"}
    BY DEF IInv, TypeOK, Laws, KindOf
  <2>2. ASSUME Encode
        PROVE  Len(payload') \in Kinds!EncodedBytes(KindOf[law], Len(frame))
    <3>1. Len(payload') = (Len(frame) + 1) \div 2
      BY <2>1, <2>2, EncodeIs, EncodedFrameIs
    <3> QED
      BY <2>1, <3>1 DEF Kinds!EncodedBytes, Kinds!G711Encode
  <2>3. ASSUME Decode
        PROVE  Len(frame') \in Kinds!DecodedSamples(KindOf[law], Len(payload))
    <3>1. Len(frame') = 2 * Len(payload)
      BY <2>1, <2>3, DecodeIs, DecodedFrameIs
    <3> QED
      BY <2>1, <3>1 DEF Kinds!DecodedSamples, Kinds!G711Decode
  <2> QED
    BY <2>2, <2>3
<1> QED
  BY <1>1, SpecIInv, PTL DEF Spec, LengthsAreCodecKinds
============================================================================
