---------------------------- MODULE CodecProofs -----------------------------
(***************************************************************************)
(* The round trips of Codec for every group of coefficients: the invariant *)
(* says what each array holds, the lemmas about the reductions, the        *)
(* compressions and the packing of Coeff what that means.                  *)
(***************************************************************************)
EXTENDS Codec, TLAPS

----------------------------------------------------------------------------
(* The operators on coefficients, for every argument: the quotients and     *)
(* remainders are named first; what is left is linear arithmetic.           *)

\* The representative chosen before packing is the remainder modulo q.
LEMMA PositiveMod ==
  ASSUME NEW u \in Coefficient
  PROVE  /\ Positive(u) \in Int /\ 0 <= Positive(u) /\ Positive(u) <= 3328
         /\ Positive(u) = u % KYBER_Q
         /\ u = Positive(u) \/ u = Positive(u) - 3329
BY DEF Positive, KYBER_Q, Coefficient

\* The product put together from halves is 80635 x / 2^28, rounded down.
LEMMA Times28 ==
  ASSUME NEW x \in Int
  PROVE  /\ TimesQ28(x) \in Int
         /\ 268435456 * TimesQ28(x) <= 80635 * x
         /\ 80635 * x < 268435456 * TimesQ28(x) + 268435456
<1> DEFINE a == x \div 4096
           b == x % 4096
           c == (2811 * b) \div 4096
<1>1. a \in Int /\ b \in 0 .. 4095 /\ x = 4096 * a + b
  BY SMT
<1>2. c \in Int /\ 4096 * c <= 2811 * b /\ 2811 * b < 4096 * c + 4096
  BY <1>1, SMT
<1> DEFINE y == 4096 * (19 * a) + 2811 * a + 19 * b + c
<1>3. y \in Int /\ 4096 * y <= 80635 * x /\ 80635 * x < 4096 * y + 4096
  BY <1>1, <1>2, SMT
<1>4. TimesQ28(x) = y \div 65536
  BY DEF TimesQ28, MulShift
<1> HIDE DEF y
<1>5. y \div 65536 \in Int /\ 65536 * (y \div 65536) <= y /\ y <= 65536 * (y \div 65536) + 65535
  BY <1>3, SMT
<1> QED
  BY <1>3, <1>4, <1>5, SMT

\* The product put together from halves is 1290167 x / 2^32, rounded down.
LEMMA Times32 ==
  ASSUME NEW x \in Int
  PROVE  /\ TimesQ32(x) \in Int
         /\ 4294967296 * TimesQ32(x) <= 1290167 * x
         /\ 1290167 * x < 4294967296 * TimesQ32(x) + 4294967296
<1> DEFINE a == x \div 4096
           b == x % 4096
           c == (4023 * b) \div 4096
<1>1. a \in Int /\ b \in 0 .. 4095 /\ x = 4096 * a + b
  BY SMT
<1>2. c \in Int /\ 4096 * c <= 4023 * b /\ 4023 * b < 4096 * c + 4096
  BY <1>1, SMT
<1> DEFINE y == 4096 * (314 * a) + 4023 * a + 314 * b + c
<1>3. y \in Int /\ 4096 * y <= 1290167 * x /\ 1290167 * x < 4096 * y + 4096
  BY <1>1, <1>2, SMT
<1>4. TimesQ32(x) = y \div 1048576
  BY DEF TimesQ32, MulShift
<1> HIDE DEF y
<1>5. y \div 1048576 \in Int /\ 1048576 * (y \div 1048576) <= y
      /\ y <= 1048576 * (y \div 1048576) + 1048575
  BY <1>3, SMT
<1> QED
  BY <1>3, <1>4, <1>5, SMT

\* The same with 40318 / 2^27.
LEMMA Times27 ==
  ASSUME NEW x \in Int
  PROVE  /\ TimesQ27(x) \in Int
         /\ 134217728 * TimesQ27(x) <= 40318 * x
         /\ 40318 * x < 134217728 * TimesQ27(x) + 134217728
<1> DEFINE a == x \div 4096
           b == x % 4096
           c == (3454 * b) \div 4096
<1>1. a \in Int /\ b \in 0 .. 4095 /\ x = 4096 * a + b
  BY SMT
<1>2. c \in Int /\ 4096 * c <= 3454 * b /\ 3454 * b < 4096 * c + 4096
  BY <1>1, SMT
<1> DEFINE y == 4096 * (9 * a) + 3454 * a + 9 * b + c
<1>3. y \in Int /\ 4096 * y <= 40318 * x /\ 40318 * x < 4096 * y + 4096
  BY <1>1, <1>2, SMT
<1>4. TimesQ27(x) = y \div 32768
  BY DEF TimesQ27, MulShift
<1> HIDE DEF y
<1>5. y \div 32768 \in Int /\ 32768 * (y \div 32768) <= y /\ y <= 32768 * (y \div 32768) + 32767
  BY <1>3, SMT
<1> QED
  BY <1>3, <1>4, <1>5, SMT

\* The same with 645084 / 2^31.
LEMMA Times31 ==
  ASSUME NEW x \in Int
  PROVE  /\ TimesQ31(x) \in Int
         /\ 2147483648 * TimesQ31(x) <= 645084 * x
         /\ 645084 * x < 2147483648 * TimesQ31(x) + 2147483648
<1> DEFINE a == x \div 4096
           b == x % 4096
           c == (2012 * b) \div 4096
<1>1. a \in Int /\ b \in 0 .. 4095 /\ x = 4096 * a + b
  BY SMT
<1>2. c \in Int /\ 4096 * c <= 2012 * b /\ 2012 * b < 4096 * c + 4096
  BY <1>1, SMT
<1> DEFINE y == 4096 * (157 * a) + 2012 * a + 157 * b + c
<1>3. y \in Int /\ 4096 * y <= 645084 * x /\ 645084 * x < 4096 * y + 4096
  BY <1>1, <1>2, SMT
<1>4. TimesQ31(x) = y \div 524288
  BY DEF TimesQ31, MulShift
<1> HIDE DEF y
<1>5. y \div 524288 \in Int /\ 524288 * (y \div 524288) <= y /\ y <= 524288 * (y \div 524288) + 524287
  BY <1>3, SMT
<1> QED
  BY <1>3, <1>4, <1>5, SMT

\* 16 u / q is rounded to the nearest: no quotient is lost by the approximation of 1 / q.
LEMMA Rounded4 ==
  ASSUME NEW u \in Int, 0 <= u, u <= 3328
  PROVE  /\ Round4(u) \in Int /\ 0 <= Round4(u) /\ Round4(u) <= 16
         /\ 3329 * Round4(u) <= 16 * u + 1664
         /\ 16 * u + 1664 <= 3329 * Round4(u) + 3328
<1> DEFINE t == Round4(u)
           p == (16 * u + 1664) \div 3329
<1>1. t \in Int /\ 268435456 * t <= 80635 * (16 * u + 1665)
      /\ 80635 * (16 * u + 1665) < 268435456 * t + 268435456
  BY Times28 DEF Round4
<1>2. p \in Int /\ 3329 * p <= 16 * u + 1664 /\ 16 * u + 1664 <= 3329 * p + 3328
  BY SMT
<1> HIDE DEF t, p
<1>3. 0 <= p /\ p <= 16
  BY <1>2, SMT
<1>q. t = p
  BY <1>1, <1>2, <1>3, SMT
<1> QED
  BY <1>2, <1>3, <1>q DEF t

\* 1024 u / q is rounded to the nearest; the approximation of 1 / q would be too coarse
\* from the quotient 954 on if q divided a rounded numerator, which it does not.
LEMMA Rounded10 ==
  ASSUME NEW u \in Int, 0 <= u, u <= 3328
  PROVE  /\ Round10(u) \in Int /\ 0 <= Round10(u) /\ Round10(u) <= 1024
         /\ 3329 * Round10(u) <= 1024 * u + 1664
         /\ 1024 * u + 1664 <= 3329 * Round10(u) + 3328
<1> DEFINE t == Round10(u)
           p == (1024 * u + 1664) \div 3329
<1>1. t \in Int /\ 4294967296 * t <= 1290167 * (1024 * u + 1665)
      /\ 1290167 * (1024 * u + 1665) < 4294967296 * t + 4294967296
  BY Times32 DEF Round10
<1>2. p \in Int /\ 3329 * p <= 1024 * u + 1664 /\ 1024 * u + 1664 <= 3329 * p + 3328
  BY SMT
<1> HIDE DEF t, p
<1>3. 0 <= p /\ p <= 1024
  BY <1>2, SMT
<1>4. p <= 953 \/ 3329 * p < 1024 * u + 1664
  BY <1>2, <1>3, SMT
<1>q. t = p
  BY <1>1, <1>2, <1>3, <1>4, SMT
<1> QED
  BY <1>2, <1>3, <1>q DEF t

\* 32 u / q is rounded to the nearest.
LEMMA Rounded5 ==
  ASSUME NEW u \in Int, 0 <= u, u <= 3328
  PROVE  /\ Round5(u) \in Int /\ 0 <= Round5(u) /\ Round5(u) <= 32
         /\ 3329 * Round5(u) <= 32 * u + 1664
         /\ 32 * u + 1664 <= 3329 * Round5(u) + 3328
<1> DEFINE t == Round5(u)
           p == (32 * u + 1664) \div 3329
<1>1. t \in Int /\ 134217728 * t <= 40318 * (32 * u + 1664)
      /\ 40318 * (32 * u + 1664) < 134217728 * t + 134217728
  BY Times27 DEF Round5
<1>2. p \in Int /\ 3329 * p <= 32 * u + 1664 /\ 32 * u + 1664 <= 3329 * p + 3328
  BY SMT
<1> HIDE DEF t, p
<1>3. 0 <= p /\ p <= 32
  BY <1>2, SMT
<1>q. t = p
  BY <1>1, <1>2, <1>3, SMT
<1> QED
  BY <1>2, <1>3, <1>q DEF t

\* 2048 u / q is rounded to the nearest; from the quotient 652 on the approximation of 1 / q
\* would be too coarse for the largest remainders, which do not occur there.
LEMMA Rounded11 ==
  ASSUME NEW u \in Int, 0 <= u, u <= 3328
  PROVE  /\ Round11(u) \in Int /\ 0 <= Round11(u) /\ Round11(u) <= 2048
         /\ 3329 * Round11(u) <= 2048 * u + 1664
         /\ 2048 * u + 1664 <= 3329 * Round11(u) + 3328
<1> DEFINE t == Round11(u)
           p == (2048 * u + 1664) \div 3329
<1>1. t \in Int /\ 2147483648 * t <= 645084 * (2048 * u + 1664)
      /\ 645084 * (2048 * u + 1664) < 2147483648 * t + 2147483648
  BY Times31 DEF Round11
<1>2. p \in Int /\ 3329 * p <= 2048 * u + 1664 /\ 2048 * u + 1664 <= 3329 * p + 3328
  BY SMT
<1> HIDE DEF t, p
<1>3. 0 <= p /\ p <= 2048
  BY <1>2, SMT
<1>4. ASSUME 2048 * u + 1664 = 3329 * p + 3328
      PROVE  p = 384
  BY <1>2, <1>3, <1>4, SMTT(60)
<1>5. ASSUME 2048 * u + 1664 = 3329 * p + 3327
      PROVE  p = 1153
  BY <1>2, <1>3, <1>5, SMT
<1>6. 2048 * u + 1664 <= 3329 * p + 3326 \/ p = 384 \/ p = 1153
  BY <1>2, <1>3, <1>4, <1>5, SMT
<1>7. p <= 1957 \/ 2048 * u + 1664 <= 3329 * p + 3325
  BY <1>2, <1>3, SMT
<1>q. t = p
  BY <1>1, <1>2, <1>3, <1>6, <1>7, SMT
<1> QED
  BY <1>2, <1>3, <1>q DEF t

\* Two values of 4 bits come back from their byte.
LEMMA Unpacked4 ==
  ASSUME NEW x \in Int, 0 <= x, x <= 15, NEW y \in Int, 0 <= y, y <= 15
  PROVE  Unpack4(Pack4(<<x, y>>)) = <<x, y>>
BY SMT DEF Unpack4, Pack4

\* Two values of 12 bits come back from their three bytes.
LEMMA Unpacked12 ==
  ASSUME NEW x \in Int, 0 <= x, x <= 4095, NEW y \in Int, 0 <= y, y <= 4095
  PROVE  /\ Unpack12(Pack12(<<x, y>>)) = <<x, y>>
         /\ \A j \in 1 .. 3 : Pack12(<<x, y>>)[j] \in Byte
<1> DEFINE a == x % 256
           p == x \div 256
           c == y \div 16
           d == y % 16
<1>1. /\ a \in 0 .. 255 /\ p \in 0 .. 15 /\ x = 256 * p + a
      /\ c \in 0 .. 255 /\ d \in 0 .. 15 /\ y = 16 * c + d
  BY SMT
<1>2. Pack12(<<x, y>>) = <<a, p + ((16 * y) % 256), c>>
  BY DEF Pack12
<1> HIDE DEF a, p, c, d
<1>3. (16 * y) % 256 = 16 * d
  BY <1>1, SMT
<1> DEFINE b == p + 16 * d
<1>4. /\ b \in 0 .. 255 /\ (a + 256 * b) % 4096 = x
      /\ b \div 16 = d /\ (d + 16 * c) % 4096 = y
  BY <1>1, SMT
<1> HIDE DEF b
<1>5. Pack12(<<x, y>>) = <<a, b, c>>
  BY <1>2, <1>3 DEF b
<1>6. Unpack12(<<a, b, c>>) = <<x, y>>
  BY <1>4 DEF Unpack12
<1> QED
  BY <1>1, <1>4, <1>5, <1>6 DEF Byte

\* Four values of 10 bits come back from their five bytes.
LEMMA Unpacked10 ==
  ASSUME NEW w \in Int, 0 <= w, w <= 1023, NEW x \in Int, 0 <= x, x <= 1023,
         NEW y \in Int, 0 <= y, y <= 1023, NEW z \in Int, 0 <= z, z <= 1023
  PROVE  Unpack10(Pack10(<<w, x, y, z>>)) = <<w, x, y, z>>
BY SMT DEF Unpack10, Pack10

\* Eight values of 5 bits come back from their 5 bytes.
LEMMA Unpacked5 ==
  ASSUME NEW c, \A i \in 1 .. 8 : c[i] \in Int /\ 0 <= c[i] /\ c[i] <= 31
  PROVE  Unpack5(Pack5(c)) = <<c[1], c[2], c[3], c[4], c[5], c[6], c[7], c[8]>>
<1> DEFINE s == c[1]
           t == c[2]
           u == c[3]
           v == c[4]
           w == c[5]
           x == c[6]
           y == c[7]
           z == c[8]
<1> DEFINE b1 == s + ((32 * t) % 256)
           b2 == (t \div 8) + 4 * u + ((128 * v) % 256)
           b3 == (v \div 2) + ((16 * w) % 256)
           b4 == (w \div 16) + 2 * x + ((64 * y) % 256)
           b5 == (y \div 4) + 8 * z
<1>0. /\ s \in Int /\ 0 <= s /\ s <= 31
      /\ t \in Int /\ 0 <= t /\ t <= 31
      /\ u \in Int /\ 0 <= u /\ u <= 31
      /\ v \in Int /\ 0 <= v /\ v <= 31
      /\ w \in Int /\ 0 <= w /\ w <= 31
      /\ x \in Int /\ 0 <= x /\ x <= 31
      /\ y \in Int /\ 0 <= y /\ y <= 31
      /\ z \in Int /\ 0 <= z /\ z <= 31
  OBVIOUS
<1>b. Pack5(c) = <<b1, b2, b3, b4, b5>>
  BY DEF Pack5
<1> HIDE DEF s, t, u, v, w, x, y, z
<1>1. b1 % 32 = s
  BY <1>0, SMT
<1>2. (b1 \div 32 + 8 * b2) % 32 = t
  BY <1>0, SMT
<1>3. (b2 \div 4) % 32 = u
  BY <1>0, SMT
<1>4. (b2 \div 128 + 2 * b3) % 32 = v
  BY <1>0, SMT
<1>5. (b3 \div 16 + 16 * b4) % 32 = w
  BY <1>0, SMT
<1>6. (b4 \div 2) % 32 = x
  BY <1>0, SMT
<1>7. (b4 \div 64 + 4 * b5) % 32 = y
  BY <1>0, SMT
<1>8. b5 \div 8 = z
  BY <1>0, SMT
<1> HIDE DEF b1, b2, b3, b4, b5
<1> QED
  BY <1>1, <1>2, <1>3, <1>4, <1>5, <1>6, <1>7, <1>8, <1>b DEF Unpack5, s, t, u, v, w, x, y, z

\* Eight values of 11 bits come back from their 11 bytes.
LEMMA Unpacked11 ==
  ASSUME NEW c, \A i \in 1 .. 8 : c[i] \in Int /\ 0 <= c[i] /\ c[i] <= 2047
  PROVE  Unpack11(Pack11(c)) = <<c[1], c[2], c[3], c[4], c[5], c[6], c[7], c[8]>>
<1> DEFINE s == c[1]
           t == c[2]
           u == c[3]
           v == c[4]
           w == c[5]
           x == c[6]
           y == c[7]
           z == c[8]
<1> DEFINE b1 == s % 256
           b2 == (s \div 256) + ((8 * t) % 256)
           b3 == (t \div 32) + ((64 * u) % 256)
           b4 == (u \div 4) % 256
           b5 == (u \div 1024) + ((2 * v) % 256)
           b6 == (v \div 128) + ((16 * w) % 256)
           b7 == (w \div 16) + ((128 * x) % 256)
           b8 == (x \div 2) % 256
           b9 == (x \div 512) + ((4 * y) % 256)
           b10 == (y \div 64) + ((32 * z) % 256)
           b11 == z \div 8
<1>0. /\ s \in Int /\ 0 <= s /\ s <= 2047
      /\ t \in Int /\ 0 <= t /\ t <= 2047
      /\ u \in Int /\ 0 <= u /\ u <= 2047
      /\ v \in Int /\ 0 <= v /\ v <= 2047
      /\ w \in Int /\ 0 <= w /\ w <= 2047
      /\ x \in Int /\ 0 <= x /\ x <= 2047
      /\ y \in Int /\ 0 <= y /\ y <= 2047
      /\ z \in Int /\ 0 <= z /\ z <= 2047
  OBVIOUS
<1>b. Pack11(c) = <<b1, b2, b3, b4, b5, b6, b7, b8, b9, b10, b11>>
  BY DEF Pack11
<1> HIDE DEF s, t, u, v, w, x, y, z
<1>1. (b1 + 256 * b2) % 2048 = s
  BY <1>0, SMT
<1>2. (b2 \div 8 + 32 * b3) % 2048 = t
  BY <1>0, SMT
<1>3. (b3 \div 64 + 4 * b4 + 1024 * b5) % 2048 = u
  BY <1>0, SMT
<1>4. (b5 \div 2 + 128 * b6) % 2048 = v
  BY <1>0, SMT
<1>5. (b6 \div 16 + 16 * b7) % 2048 = w
  BY <1>0, SMT
<1>6. (b7 \div 128 + 2 * b8 + 512 * b9) % 2048 = x
  BY <1>0, SMT
<1>7. (b9 \div 4 + 64 * b10) % 2048 = y
  BY <1>0, SMT
<1>8. (b10 \div 32 + 8 * b11) % 2048 = z
  BY <1>0, SMT
<1> HIDE DEF b1, b2, b3, b4, b5, b6, b7, b8, b9, b10, b11
<1> QED
  BY <1>1, <1>2, <1>3, <1>4, <1>5, <1>6, <1>7, <1>8, <1>b DEF Unpack11, s, t, u, v, w, x, y, z

\* What compression to 4 bits gives, and how far decompression is from the coefficient.
LEMMA Near4 ==
  ASSUME NEW u \in Coefficient
  PROVE  /\ Compress4(u) \in Int /\ 0 <= Compress4(u) /\ Compress4(u) <= 15
         /\ Compress4(u) = ((16 * (u % KYBER_Q) + 1664) \div KYBER_Q) % 16
         /\ Near(Decompress4(Compress4(u)), u, 104)
<1> DEFINE v == Positive(u)
           t == Round4(v)
<1>1. /\ u \in Int /\ v \in Int /\ 0 <= v /\ v <= 3328
      /\ v = u % 3329 /\ (u = v \/ u = v - 3329)
  BY PositiveMod DEF KYBER_Q, Coefficient
<1> HIDE DEF v
<1>2. /\ t \in Int /\ 0 <= t /\ t <= 16
      /\ 3329 * t <= 16 * v + 1664 /\ 16 * v + 1664 <= 3329 * t + 3328
  BY <1>1, Rounded4
<1>3. Compress4(u) = t % 16
  BY DEF v, Compress4
<1> HIDE DEF t
<1>4. t = (16 * v + 1664) \div 3329
  BY <1>1, <1>2, SMT
<1> DEFINE c == t % 16
<1>5. c \in Int /\ 0 <= c /\ c < 16 /\ (t = c \/ (t = 16 /\ c = 0))
  BY <1>2, SMT
<1> HIDE DEF c
<1> DEFINE e == (3329 * c + 8) \div 16
<1>6. e \in Int /\ 16 * e <= 3329 * c + 8 /\ 3329 * c + 8 < 16 * e + 16
  BY <1>5, SMT
<1> HIDE DEF e
<1>7. (e - v >= -104 /\ e - v <= 104) \/ (e = 0 /\ v >= 3329 - 104)
  BY <1>1, <1>2, <1>5, <1>6, SMT
<1>8. Near(e, u, 104)
  BY <1>1, <1>6, <1>7, SMT DEF Near, KYBER_Q
<1> QED
  BY <1>1, <1>4, <1>3, <1>5, <1>8 DEF c, e, Decompress4, KYBER_Q

\* The same for 10 bits.
LEMMA Near10 ==
  ASSUME NEW u \in Coefficient
  PROVE  /\ Compress10(u) \in Int /\ 0 <= Compress10(u) /\ Compress10(u) <= 1023
         /\ Compress10(u) = ((1024 * (u % KYBER_Q) + 1664) \div KYBER_Q) % 1024
         /\ Near(Decompress10(Compress10(u)), u, 2)
<1> DEFINE v == Positive(u)
           t == Round10(v)
<1>1. /\ u \in Int /\ v \in Int /\ 0 <= v /\ v <= 3328
      /\ v = u % 3329 /\ (u = v \/ u = v - 3329)
  BY PositiveMod DEF KYBER_Q, Coefficient
<1> HIDE DEF v
<1>2. /\ t \in Int /\ 0 <= t /\ t <= 1024
      /\ 3329 * t <= 1024 * v + 1664 /\ 1024 * v + 1664 <= 3329 * t + 3328
  BY <1>1, Rounded10
<1>3. Compress10(u) = t % 1024
  BY DEF v, Compress10
<1> HIDE DEF t
<1>4. t = (1024 * v + 1664) \div 3329
  BY <1>1, <1>2, SMT
<1> DEFINE c == t % 1024
<1>5. c \in Int /\ 0 <= c /\ c < 1024 /\ (t = c \/ (t = 1024 /\ c = 0))
  BY <1>2, SMT
<1> HIDE DEF c
<1> DEFINE e == (3329 * c + 512) \div 1024
<1>6. e \in Int /\ 1024 * e <= 3329 * c + 512 /\ 3329 * c + 512 < 1024 * e + 1024
  BY <1>5, SMT
<1> HIDE DEF e
<1>7. (e - v >= -2 /\ e - v <= 2) \/ (e = 0 /\ v >= 3329 - 2)
  BY <1>1, <1>2, <1>5, <1>6, SMT
<1>8. Near(e, u, 2)
  BY <1>1, <1>6, <1>7, SMT DEF Near, KYBER_Q
<1> QED
  BY <1>1, <1>4, <1>3, <1>5, <1>8 DEF c, e, Decompress10, KYBER_Q

\* The same for 5 bits.
LEMMA Near5 ==
  ASSUME NEW u \in Coefficient
  PROVE  /\ Compress5(u) \in Int /\ 0 <= Compress5(u) /\ Compress5(u) <= 31
         /\ Compress5(u) = ((32 * (u % KYBER_Q) + 1664) \div KYBER_Q) % 32
         /\ Near(Decompress5(Compress5(u)), u, 52)
<1> DEFINE v == Positive(u)
           t == Round5(v)
<1>1. /\ u \in Int /\ v \in Int /\ 0 <= v /\ v <= 3328
      /\ v = u % 3329 /\ (u = v \/ u = v - 3329)
  BY PositiveMod DEF KYBER_Q, Coefficient
<1> HIDE DEF v
<1>2. /\ t \in Int /\ 0 <= t /\ t <= 32
      /\ 3329 * t <= 32 * v + 1664 /\ 32 * v + 1664 <= 3329 * t + 3328
  BY <1>1, Rounded5
<1>3. Compress5(u) = t % 32
  BY DEF v, Compress5
<1> HIDE DEF t
<1>4. t = (32 * v + 1664) \div 3329
  BY <1>1, <1>2, SMT
<1> DEFINE c == t % 32
<1>5. c \in Int /\ 0 <= c /\ c < 32 /\ (t = c \/ (t = 32 /\ c = 0))
  BY <1>2, SMT
<1> HIDE DEF c
<1> DEFINE e == (3329 * c + 16) \div 32
<1>6. e \in Int /\ 32 * e <= 3329 * c + 16 /\ 3329 * c + 16 < 32 * e + 32
  BY <1>5, SMT
<1> HIDE DEF e
<1>7. (e - v >= -52 /\ e - v <= 52) \/ (e = 0 /\ v >= 3329 - 52)
  BY <1>1, <1>2, <1>5, <1>6, SMT
<1>8. Near(e, u, 52)
  BY <1>1, <1>6, <1>7, SMT DEF Near, KYBER_Q
<1> QED
  BY <1>1, <1>4, <1>3, <1>5, <1>8 DEF c, e, Decompress5, KYBER_Q

\* The same for 11 bits.
LEMMA Near11 ==
  ASSUME NEW u \in Coefficient
  PROVE  /\ Compress11(u) \in Int /\ 0 <= Compress11(u) /\ Compress11(u) <= 2047
         /\ Compress11(u) = ((2048 * (u % KYBER_Q) + 1664) \div KYBER_Q) % 2048
         /\ Near(Decompress11(Compress11(u)), u, 1)
<1> DEFINE v == Positive(u)
           t == Round11(v)
<1>1. /\ u \in Int /\ v \in Int /\ 0 <= v /\ v <= 3328
      /\ v = u % 3329 /\ (u = v \/ u = v - 3329)
  BY PositiveMod DEF KYBER_Q, Coefficient
<1> HIDE DEF v
<1>2. /\ t \in Int /\ 0 <= t /\ t <= 2048
      /\ 3329 * t <= 2048 * v + 1664 /\ 2048 * v + 1664 <= 3329 * t + 3328
  BY <1>1, Rounded11
<1>3. Compress11(u) = t % 2048
  BY DEF v, Compress11
<1> HIDE DEF t
<1>4. t = (2048 * v + 1664) \div 3329
  BY <1>1, <1>2, SMT
<1> DEFINE c == t % 2048
<1>5. c \in Int /\ 0 <= c /\ c < 2048 /\ (t = c \/ (t = 2048 /\ c = 0))
  BY <1>2, SMT
<1> HIDE DEF c
<1> DEFINE e == (3329 * c + 1024) \div 2048
<1>6. e \in Int /\ 2048 * e <= 3329 * c + 1024 /\ 3329 * c + 1024 < 2048 * e + 2048
  BY <1>5, SMT
<1> HIDE DEF e
<1>7. (e - v >= -1 /\ e - v <= 1) \/ (e = 0 /\ v >= 3329 - 1)
  BY <1>1, <1>2, <1>5, <1>6, SMT
<1>8. Near(e, u, 1)
  BY <1>1, <1>6, <1>7, SMT DEF Near, KYBER_Q
<1> QED
  BY <1>1, <1>4, <1>3, <1>5, <1>8 DEF c, e, Decompress11, KYBER_Q


\* A value stored in an int16_t is congruent to it modulo 2^16.
LEMMA Mod16 ==
  ASSUME NEW x \in Int
  PROVE  /\ I16(x) \in Int /\ -32768 <= I16(x) /\ I16(x) <= 32767
         /\ \E k \in Int : I16(x) = x - 65536 * k
<1> DEFINE over == (x + 32768) \div 65536
           rest == (x + 32768) % 65536
<1>1. x + 32768 = 65536 * over + rest
  BY SMTT(60)
<1>2. over \in Int /\ rest \in Int /\ 0 <= rest /\ rest < 65536
  BY SMTT(60)
<1>3. I16(x) = rest - 32768
  BY DEF I16
<1> HIDE DEF over, rest
<1>4. I16(x) \in Int /\ -32768 <= I16(x) /\ I16(x) <= 32767
  BY <1>2, <1>3, SMTT(60)
<1>5. I16(x) = x - 65536 * over
  BY <1>1, <1>2, <1>3, SMTT(60)
<1> QED
  <2>1. \E k \in Int : I16(x) = x - 65536 * k
    BY <1>2, <1>5, SMTT(60)
  <2> QED
    BY <1>4, <2>1, SMTT(60)

\* A value of 16 bits is stored as it is.
LEMMA Small16 ==
  ASSUME NEW x \in Int, -32768 <= x, x <= 32767
  PROVE  I16(x) = x
BY SMT DEF I16

\* barrett_reduce subtracts the multiple of q nearest to its argument.
LEMMA Barrett ==
  ASSUME NEW a \in Int16
  PROVE  /\ barrett_reduce(a) \in Int
         /\ -1664 <= barrett_reduce(a) /\ barrett_reduce(a) <= 1664
         /\ \E k \in Int : -10 <= k /\ k <= 10 /\ barrett_reduce(a) = a - 3329 * k
<1> DEFINE t == (20159 * a + 33554432) \div 67108864
<1>0. a \in Int /\ -32768 <= a /\ a <= 32767
  BY DEF Int16
<1>1. t \in Int /\ 67108864 * t <= 20159 * a + 33554432
      /\ 20159 * a + 33554432 < 67108864 * t + 67108864
  BY <1>0, SMT
<1>2. barrett_reduce(a) = I16(a - I16(KYBER_Q * I16(t)))
  BY DEF barrett_reduce
<1> HIDE DEF t
<1>3. -10 <= t /\ t <= 10 /\ -1664 <= a - 3329 * t /\ a - 3329 * t <= 1664
  BY <1>0, <1>1, SMT
<1>4. I16(t) = t
  BY <1>1, <1>3, Small16
<1>5. PICK k \in Int : I16(3329 * t) = 3329 * t - 65536 * k
  BY <1>1, Mod16
<1>6. I16(a - (3329 * t - 65536 * k)) = a - 3329 * t
  BY <1>0, <1>1, <1>3, SMT DEF I16
<1> QED
  BY <1>0, <1>1, <1>2, <1>3, <1>4, <1>5, <1>6 DEF KYBER_Q

\* montgomery_reduce divides exactly, after the subtraction of a multiple of q.
LEMMA Montgomery ==
  ASSUME NEW a \in Product
  PROVE  /\ montgomery_reduce(a) \in Int
         /\ -3328 <= montgomery_reduce(a) /\ montgomery_reduce(a) <= 3328
         /\ \E w \in Int : 65536 * montgomery_reduce(a) - a = 3329 * w
<1> DEFINE l == I16(a)
           x == QINV * l
           w == I16(x)
<1>0. a \in Int /\ -109084672 <= a /\ a <= 109084671
  BY SMT DEF Product
<1>1. l \in Int /\ \E k \in Int : l = a - 65536 * k
  BY <1>0, Mod16, SMT
<1> HIDE DEF l
<1>2. PICK k \in Int : l = a - 65536 * k
  BY <1>1, SMT
<1>3. x = -3327 * l /\ x \in Int
  BY <1>1, SMT DEF QINV
<1> HIDE DEF x
<1>4. /\ w \in Int /\ -32768 <= w /\ w <= 32767
      /\ \E m \in Int : w = x - 65536 * m
  BY <1>3, Mod16, SMT
<1> HIDE DEF w
<1>5. PICK m \in Int : w = x - 65536 * m
  BY <1>4, SMT
<1> DEFINE z == 169 * a + k - 11075584 * k + 3329 * m
<1>6. z \in Int /\ a - 3329 * w = 65536 * z
  BY <1>0, <1>2, <1>3, <1>5, SMT
<1> HIDE DEF z
<1>7. -3328 <= z /\ z <= 3328
  BY <1>0, <1>4, <1>6, SMT
<1>8. (a - 3329 * w) \div 65536 = z
  BY <1>0, <1>4, <1>6, SMT
<1>9. montgomery_reduce(a) = I16((a - KYBER_Q * w) \div 65536)
  BY SMT DEF montgomery_reduce, w, x, l
<1>10. montgomery_reduce(a) = z
  BY <1>6, <1>7, <1>8, <1>9, Small16, SMT DEF KYBER_Q
<1>11. \E n \in Int : 65536 * z - a = 3329 * n
  <2> DEFINE n == -w
  <2>1. n \in Int /\ 65536 * z - a = 3329 * n
    BY <1>0, <1>4, <1>6, SMT
  <2> HIDE DEF n
  <2> QED
    BY <2>1, SMT
<1> QED
  BY <1>6, <1>7, <1>10, <1>11, SMT

\* A bit comes back through every noise the assumption allows.
LEMMA BitKept ==
  ASSUME NEW b \in {0, 1}, NEW e \in Noise
  PROVE  ToBit(barrett_reduce(FromBit(b) + e)) = b
<1> DEFINE a == FromBit(b) + e
           r == barrett_reduce(a)
<1>0. e \in Int /\ -832 <= e /\ e <= 831 /\ b \in Int
  BY DEF Noise
<1>1. a = 1665 * b + e /\ a \in Int /\ -832 <= a /\ a <= 2496
  BY <1>0 DEF FromBit, KYBER_Q
<1> HIDE DEF a
<1>2. a \in Int16
  BY <1>1 DEF Int16
<1>3. /\ r \in Int /\ -1664 <= r /\ r <= 1664
      /\ \E k \in Int : -10 <= k /\ k <= 10 /\ r = a - 3329 * k
  BY <1>2, Barrett
<1> HIDE DEF r
<1>4. PICK k \in Int : r = a - 3329 * k
  BY <1>3
<1>5. k = 0 \/ (k = 1 /\ b = 1)
  BY <1>0, <1>1, <1>3, <1>4, SMT
<1> DEFINE t == Round1(r)
<1>6. /\ t \in Int /\ 268435456 * t <= 80635 * (2 * r + 1665)
      /\ 80635 * (2 * r + 1665) < 268435456 * t + 268435456
  BY <1>3, Times28 DEF Round1
<1> HIDE DEF t
<1>7. CASE b = 0
  <2>1. t = 0
    BY <1>0, <1>1, <1>3, <1>4, <1>5, <1>6, <1>7, SMT
  <2> QED
    BY <2>1, <1>7 DEF t, r, a, ToBit
<1>8. CASE b = 1
  <2>1. t = 1 \/ t = -1
    BY <1>0, <1>1, <1>3, <1>4, <1>5, <1>6, <1>8, SMT
  <2>2. t % 2 = 1
    BY <2>1, SMT
  <2> QED
    BY <2>2, <1>8 DEF t, r, a, ToBit
<1> QED
  BY <1>7, <1>8

\* A byte is put together from its bits.
LEMMA Packed1 ==
  ASSUME NEW x \in Byte
  PROVE  /\ Bits(x) \in [1 .. 8 -> {0, 1}]
         /\ Pack1(Bits(x)) = <<x>>
<1>0. x \in Int /\ 0 <= x /\ x <= 255
  BY DEF Byte
<1>1. /\ Bits(x)[1] = x % 2 /\ Bits(x)[2] = (x \div 2) % 2
      /\ Bits(x)[3] = (x \div 4) % 2 /\ Bits(x)[4] = (x \div 8) % 2
      /\ Bits(x)[5] = (x \div 16) % 2 /\ Bits(x)[6] = (x \div 32) % 2
      /\ Bits(x)[7] = (x \div 64) % 2 /\ Bits(x)[8] = (x \div 128) % 2
  BY <1>0, SMT DEF Bits
<1>2. /\ x = 2 * (x \div 2) + (x % 2)
      /\ x \div 2 = 2 * (x \div 4) + ((x \div 2) % 2)
      /\ x \div 4 = 2 * (x \div 8) + ((x \div 4) % 2)
      /\ x \div 8 = 2 * (x \div 16) + ((x \div 8) % 2)
      /\ x \div 16 = 2 * (x \div 32) + ((x \div 16) % 2)
      /\ x \div 32 = 2 * (x \div 64) + ((x \div 32) % 2)
      /\ x \div 64 = 2 * (x \div 128) + ((x \div 64) % 2)
      /\ x \div 128 = (x \div 128) % 2
  BY <1>0, SMT
<1>3. Pack1(Bits(x)) = <<x>>
  BY <1>0, <1>1, <1>2, SMT DEF Pack1
<1>4. Bits(x) \in [1 .. 8 -> {0, 1}]
  <2>1. \A j \in 1 .. 8 : Bits(x)[j] \in {0, 1}
    BY <1>0, <1>1, SMT
  <2>2. DOMAIN Bits(x) = 1 .. 8 /\ Bits(x) = [j \in 1 .. 8 |-> Bits(x)[j]]
    BY DEF Bits
  <2> QED
    BY <2>1, <2>2
<1> QED
  BY <1>3, <1>4

----------------------------------------------------------------------------
(* The steps.                                                               *)

\* What has been computed so far, for each kind of argument.
CodecInv ==
  /\ kind = "key" =>
       /\ given \in KeyGroups
       /\ pc # "begin" => bytes = Pack12(OnEach(Positive, given))
       /\ pc = "done" => coeffs = Unpack12(bytes)
  /\ kind = "v" =>
       /\ given \in VGroups
       /\ pc # "begin" => bytes = Pack4(OnEach(Compress4, given))
       /\ pc = "done" => coeffs = OnEach(Decompress4, Unpack4(bytes))
  /\ kind = "b" =>
       /\ given \in BGroups
       /\ pc # "begin" => bytes = Pack10(OnEach(Compress10, given))
       /\ pc = "done" => coeffs = OnEach(Decompress10, Unpack10(bytes))
  /\ kind = "v160" =>
       /\ given \in Eights
       /\ pc # "begin" => bytes = Pack5(OnEach(Compress5, given))
       /\ pc = "done" => coeffs = OnEach(Decompress5, Unpack5(bytes))
  /\ kind = "b352" =>
       /\ given \in Eights
       /\ pc # "begin" => bytes = Pack11(OnEach(Compress11, given))
       /\ pc = "done" => coeffs = OnEach(Decompress11, Unpack11(bytes))
  /\ kind = "message" =>
       /\ given \in Messages
       /\ pc = "between" => coeffs = OnEach(FromBit, Bits(given))
       /\ pc = "recovered" =>
            \E e \in Noises :
               coeffs = [j \in 1 .. 8 |-> barrett_reduce(OnEach(FromBit, Bits(given))[j] + e[j])]
       /\ pc = "done" => bytes = <<given>>
  /\ kind = "sum" =>
       /\ given \in Sums
       /\ pc = "done" => coeffs = <<barrett_reduce(given)>>
  /\ kind = "product" =>
       /\ given \in Products
       /\ pc = "done" => coeffs = <<montgomery_reduce(given)>>

\* The eight bits of a message byte come back together.
LEMMA ByteKept ==
  ASSUME NEW m \in Byte, NEW e \in [1 .. 8 -> Noise],
         NEW c, c = [j \in 1 .. 8 |-> barrett_reduce(OnEach(FromBit, Bits(m))[j] + e[j])]
  PROVE  Pack1(OnEach(ToBit, c)) = <<m>>
<1>1. Bits(m) \in [1 .. 8 -> {0, 1}]
  BY Packed1
<1>2. ASSUME NEW j \in 1 .. 8
      PROVE  ToBit(c[j]) = Bits(m)[j]
  <2>1. Bits(m)[j] \in {0, 1} /\ e[j] \in Noise
    BY <1>1
  <2>2. c[j] = barrett_reduce(FromBit(Bits(m)[j]) + e[j])
    BY <1>1 DEF OnEach
  <2> QED
    BY <2>1, <2>2, BitKept
<1>3. OnEach(ToBit, c) = Bits(m)
  <2>1. DOMAIN c = 1 .. 8
    OBVIOUS
  <2> QED
    BY <1>1, <1>2, <2>1 DEF OnEach
<1> QED
  BY <1>3, Packed1

\* Each function keeps the invariant.
LEMMA CodecStep ==
  CodecInv /\ [Next]_vars => CodecInv'
<1> SUFFICES ASSUME CodecInv, [Next]_vars
             PROVE  CodecInv'
  OBVIOUS
<1>1. CASE poly_tobytes
  BY <1>1 DEF CodecInv, poly_tobytes, Write
<1>2. CASE poly_frombytes
  BY <1>2 DEF CodecInv, poly_frombytes, Read
<1>3. CASE poly_compress
  BY <1>3 DEF CodecInv, poly_compress, Write
<1>4. CASE poly_decompress
  BY <1>4 DEF CodecInv, poly_decompress, Read
<1>5. CASE polyvec_compress
  BY <1>5 DEF CodecInv, polyvec_compress, Write
<1>6. CASE polyvec_decompress
  BY <1>6 DEF CodecInv, polyvec_decompress, Read
<1>7. CASE poly_frommsg
  BY <1>7 DEF CodecInv, poly_frommsg, Read
<1>8. CASE Recover
  <2>1. PICK e \in Noises :
           Read("message", "between", "recovered",
                [j \in 1 .. 8 |-> barrett_reduce(coeffs[j] + e[j])])
    BY <1>8 DEF Recover
  <2>2. kind = "message" /\ kind' = kind /\ pc' = "recovered" /\ given' = given
        /\ coeffs = OnEach(FromBit, Bits(given)) /\ given \in Messages
        /\ coeffs' = [j \in 1 .. 8 |-> barrett_reduce(coeffs[j] + e[j])]
    BY <2>1 DEF CodecInv, Read
  <2>3. coeffs' = [j \in 1 .. 8 |-> barrett_reduce(OnEach(FromBit, Bits(given'))[j] + e[j])]
    BY <2>2
  <2> QED
    BY <2>2, <2>3 DEF CodecInv
<1>9. CASE poly_tomsg
  <2>1. kind = "message" /\ kind' = kind /\ pc' = "done" /\ given' = given /\ given \in Messages
        /\ bytes' = Pack1(OnEach(ToBit, coeffs))
    BY <1>9 DEF CodecInv, poly_tomsg, Write
  <2>2. PICK e \in Noises :
           coeffs = [j \in 1 .. 8 |-> barrett_reduce(OnEach(FromBit, Bits(given))[j] + e[j])]
    BY <1>9 DEF CodecInv, poly_tomsg, Write
  <2>3. given \in Byte /\ e \in [1 .. 8 -> Noise]
    BY <2>1, CodecAssumption DEF CodecAssumption
  <2>4. bytes' = <<given>>
    BY <2>1, <2>2, <2>3, ByteKept
  <2> QED
    BY <2>1, <2>4 DEF CodecInv
<1>10. CASE poly_reduce
  BY <1>10 DEF CodecInv, poly_reduce, Read
<1>11. CASE fqmul
  BY <1>11 DEF CodecInv, fqmul, Read
<1>12. CASE poly_compress160
  BY <1>12 DEF CodecInv, poly_compress160, Write
<1>13. CASE poly_decompress160
  BY <1>13 DEF CodecInv, poly_decompress160, Read
<1>14. CASE polyvec_compress352
  BY <1>14 DEF CodecInv, polyvec_compress352, Write
<1>15. CASE polyvec_decompress352
  BY <1>15 DEF CodecInv, polyvec_decompress352, Read
<1>16. CASE UNCHANGED vars
  BY <1>16 DEF CodecInv, vars
<1> QED
  BY <1>1, <1>2, <1>3, <1>4, <1>5, <1>6, <1>7, <1>8, <1>9, <1>10, <1>11, <1>12,
     <1>13, <1>14, <1>15, <1>16 DEF Next

\* The arrays hold what CodecInv says in every state.
LEMMA CodecAlways == Spec => []CodecInv
<1>1. Init => CodecInv
  BY DEF Init, CodecInv
<1> QED
  BY <1>1, CodecStep, PTL DEF Spec

\* A key read by the client is the key written by the server, modulo q.
THEOREM KeysKept == Spec => []KeyKept
<1>1. CodecInv => KeyKept
  <2> SUFFICES ASSUME CodecInv, kind = "key", pc # "begin"
               PROVE  /\ \A j \in 1 .. 3 : bytes[j] \in Byte
                      /\ pc = "done" => \A j \in 1 .. 2 : coeffs[j] = given[j] % KYBER_Q
    BY DEF KeyKept, Done
  <2> DEFINE x == Positive(given[1])
             y == Positive(given[2])
  <2>1. given \in [1 .. 2 -> Coefficient]
    BY CodecAssumption DEF CodecInv, CodecAssumption
  <2>2. given[1] \in Coefficient /\ given[2] \in Coefficient
    BY <2>1
  <2>3. x \in Int /\ 0 <= x /\ x <= 3328 /\ y \in Int /\ 0 <= y /\ y <= 3328
    BY <2>2, PositiveMod
  <2>4. x = given[1] % KYBER_Q /\ y = given[2] % KYBER_Q
    BY <2>2, PositiveMod
  <2>5. OnEach(Positive, given) = <<x, y>>
    BY <2>1 DEF OnEach
  <2>6. bytes = Pack12(<<x, y>>)
    BY <2>5 DEF CodecInv
  <2> HIDE DEF x, y
  <2>7. Unpack12(bytes) = <<x, y>> /\ \A j \in 1 .. 3 : bytes[j] \in Byte
    BY <2>3, <2>6, Unpacked12
  <2>8. pc = "done" => coeffs = <<x, y>>
    BY <2>7 DEF CodecInv
  <2> QED
    BY <2>4, <2>7, <2>8
<1> QED
  BY <1>1, CodecAlways, PTL

\* The bytes of a ciphertext group hold the compressed coefficients.
LEMMA VBytes ==
  ASSUME CodecInv, kind = "v", pc # "begin"
  PROVE  /\ given \in [1 .. 2 -> Coefficient]
         /\ Unpack4(bytes) = [j \in 1 .. 2 |-> Compress4(given[j])]
<1> DEFINE x == Compress4(given[1])
           y == Compress4(given[2])
<1>1. given \in [1 .. 2 -> Coefficient]
  BY CodecAssumption DEF CodecInv, CodecAssumption
<1>2. given[1] \in Coefficient /\ given[2] \in Coefficient
  BY <1>1
<1>3. /\ x \in Int /\ 0 <= x /\ x <= 15
      /\ y \in Int /\ 0 <= y /\ y <= 15
  BY <1>2, Near4
<1>4. OnEach(Compress4, given) = <<x, y>>
  BY <1>1 DEF OnEach
<1>5. bytes = Pack4(<<x, y>>)
  BY <1>4 DEF CodecInv
<1>6. Unpack4(bytes) = <<x, y>>
  BY <1>3, <1>5, Unpacked4
<1> QED
  BY <1>1, <1>6

\* The same for the vector b.
LEMMA BBytes ==
  ASSUME CodecInv, kind = "b", pc # "begin"
  PROVE  /\ given \in [1 .. 4 -> Coefficient]
         /\ Unpack10(bytes) = [j \in 1 .. 4 |-> Compress10(given[j])]
<1> DEFINE w == Compress10(given[1])
           x == Compress10(given[2])
           y == Compress10(given[3])
           z == Compress10(given[4])
<1>1. given \in [1 .. 4 -> Coefficient]
  BY CodecAssumption DEF CodecInv, CodecAssumption
<1>2. given[1] \in Coefficient /\ given[2] \in Coefficient /\ given[3] \in Coefficient /\ given[4] \in Coefficient
  BY <1>1
<1>3. /\ w \in Int /\ 0 <= w /\ w <= 1023
      /\ x \in Int /\ 0 <= x /\ x <= 1023
      /\ y \in Int /\ 0 <= y /\ y <= 1023
      /\ z \in Int /\ 0 <= z /\ z <= 1023
  BY <1>2, Near10
<1>4. OnEach(Compress10, given) = <<w, x, y, z>>
  BY <1>1 DEF OnEach
<1>5. bytes = Pack10(<<w, x, y, z>>)
  BY <1>4 DEF CodecInv
<1>6. Unpack10(bytes) = <<w, x, y, z>>
  BY <1>3, <1>5, Unpacked10
<1> QED
  BY <1>1, <1>6

\* The same for v in 160 bytes.
LEMMA V160Bytes ==
  ASSUME CodecInv, kind = "v160", pc # "begin"
  PROVE  /\ given \in [1 .. 8 -> Coefficient]
         /\ Unpack5(bytes) = [j \in 1 .. 8 |-> Compress5(given[j])]
<1>1. given \in [1 .. 8 -> Coefficient]
  BY CodecAssumption DEF CodecInv, CodecAssumption
<1>2. ASSUME NEW i \in 1 .. 8
      PROVE  OnEach(Compress5, given)[i] = Compress5(given[i]) /\ given[i] \in Coefficient
  BY <1>1 DEF OnEach
<1> DEFINE c == OnEach(Compress5, given)
<1>3. ASSUME NEW i \in 1 .. 8
      PROVE  c[i] \in Int /\ 0 <= c[i] /\ c[i] <= 31
  <2>1. c[i] = Compress5(given[i]) /\ given[i] \in Coefficient
    BY <1>2
  <2> HIDE DEF c
  <2> QED
    BY <2>1, Near5
<1>4. bytes = Pack5(c)
  BY DEF CodecInv
<1> HIDE DEF c
<1>5. Unpack5(bytes) = <<c[1], c[2], c[3], c[4], c[5], c[6], c[7], c[8]>>
  BY <1>3, <1>4, Unpacked5
<1>6. Unpack5(bytes) = [i \in 1 .. 8 |-> c[i]]
  BY <1>5
<1> QED
  BY <1>1, <1>2, <1>6 DEF c

\* The same for a polynomial of b in 352 bytes.
LEMMA B352Bytes ==
  ASSUME CodecInv, kind = "b352", pc # "begin"
  PROVE  /\ given \in [1 .. 8 -> Coefficient]
         /\ Unpack11(bytes) = [j \in 1 .. 8 |-> Compress11(given[j])]
<1>1. given \in [1 .. 8 -> Coefficient]
  BY CodecAssumption DEF CodecInv, CodecAssumption
<1>2. ASSUME NEW i \in 1 .. 8
      PROVE  OnEach(Compress11, given)[i] = Compress11(given[i]) /\ given[i] \in Coefficient
  BY <1>1 DEF OnEach
<1> DEFINE c == OnEach(Compress11, given)
<1>3. ASSUME NEW i \in 1 .. 8
      PROVE  c[i] \in Int /\ 0 <= c[i] /\ c[i] <= 2047
  <2>1. c[i] = Compress11(given[i]) /\ given[i] \in Coefficient
    BY <1>2
  <2> HIDE DEF c
  <2> QED
    BY <2>1, Near11
<1>4. bytes = Pack11(c)
  BY DEF CodecInv
<1> HIDE DEF c
<1>5. Unpack11(bytes) = <<c[1], c[2], c[3], c[4], c[5], c[6], c[7], c[8]>>
  BY <1>3, <1>4, Unpacked11
<1>6. Unpack11(bytes) = [i \in 1 .. 8 |-> c[i]]
  BY <1>5
<1> QED
  BY <1>1, <1>2, <1>6 DEF c

\* The multiply-and-shift forms compute the commented rounded quotients.
LEMMA CompressionDocumented == Spec => []CompressAsDocumented
<1>1. CodecInv => CompressAsDocumented
  <2>1. ASSUME CodecInv, kind = "v", pc = "between", NEW j \in 1 .. 2
        PROVE  Unpack4(bytes)[j] = ((16 * (given[j] % KYBER_Q) + 1664) \div KYBER_Q) % 16
    <3>1. given[j] \in Coefficient /\ Unpack4(bytes)[j] = Compress4(given[j])
      BY <2>1, VBytes
    <3> QED
      BY <3>1, Near4
  <2>2. ASSUME CodecInv, kind = "b", pc = "between", NEW j \in 1 .. 4
        PROVE  Unpack10(bytes)[j] = ((1024 * (given[j] % KYBER_Q) + 1664) \div KYBER_Q) % 1024
    <3>1. given[j] \in Coefficient /\ Unpack10(bytes)[j] = Compress10(given[j])
      BY <2>2, BBytes
    <3> QED
      BY <3>1, Near10
  <2>3. ASSUME CodecInv, kind = "v160", pc = "between", NEW j \in 1 .. 8
        PROVE  Unpack5(bytes)[j] = ((32 * (given[j] % KYBER_Q) + 1664) \div KYBER_Q) % 32
    <3>1. given[j] \in Coefficient /\ Unpack5(bytes)[j] = Compress5(given[j])
      BY <2>3, V160Bytes
    <3> QED
      BY <3>1, Near5
  <2>4. ASSUME CodecInv, kind = "b352", pc = "between", NEW j \in 1 .. 8
        PROVE  Unpack11(bytes)[j] = ((2048 * (given[j] % KYBER_Q) + 1664) \div KYBER_Q) % 2048
    <3>1. given[j] \in Coefficient /\ Unpack11(bytes)[j] = Compress11(given[j])
      BY <2>4, B352Bytes
    <3> QED
      BY <3>1, Near11
  <2> QED
    BY <2>1, <2>2, <2>3, <2>4 DEF CompressAsDocumented
<1> QED
  BY <1>1, CodecAlways, PTL

\* Compression loses at most half a step, in every place of a group, and computes
\* the commented quotients.
THEOREM CompressionClose == Spec => []CiphertextClose
<1>1. CodecInv /\ CompressAsDocumented => CiphertextClose
  <2>1. ASSUME CodecInv, Done("v"), NEW j \in 1 .. 2
        PROVE  Near(coeffs[j], given[j], 104)
    <3>1. /\ given \in [1 .. 2 -> Coefficient]
          /\ Unpack4(bytes) = [i \in 1 .. 2 |-> Compress4(given[i])]
          /\ coeffs = OnEach(Decompress4, Unpack4(bytes))
      BY <2>1, VBytes DEF Done, CodecInv
    <3>2. coeffs[j] = Decompress4(Compress4(given[j])) /\ given[j] \in Coefficient
      BY <3>1 DEF OnEach
    <3> QED
      BY <3>2, Near4
  <2>2. ASSUME CodecInv, Done("b"), NEW j \in 1 .. 4
        PROVE  Near(coeffs[j], given[j], 2)
    <3>1. /\ given \in [1 .. 4 -> Coefficient]
          /\ Unpack10(bytes) = [i \in 1 .. 4 |-> Compress10(given[i])]
          /\ coeffs = OnEach(Decompress10, Unpack10(bytes))
      BY <2>2, BBytes DEF Done, CodecInv
    <3>2. coeffs[j] = Decompress10(Compress10(given[j])) /\ given[j] \in Coefficient
      BY <3>1 DEF OnEach
    <3> QED
      BY <3>2, Near10
  <2>3. ASSUME CodecInv, Done("v160"), NEW j \in 1 .. 8
        PROVE  Near(coeffs[j], given[j], 52)
    <3>1. /\ given \in [1 .. 8 -> Coefficient]
          /\ Unpack5(bytes) = [i \in 1 .. 8 |-> Compress5(given[i])]
          /\ coeffs = OnEach(Decompress5, Unpack5(bytes))
      BY <2>3, V160Bytes DEF Done, CodecInv
    <3>2. coeffs[j] = Decompress5(Compress5(given[j])) /\ given[j] \in Coefficient
      BY <3>1 DEF OnEach
    <3> QED
      BY <3>2, Near5
  <2>4. ASSUME CodecInv, Done("b352"), NEW j \in 1 .. 8
        PROVE  Near(coeffs[j], given[j], 1)
    <3>1. /\ given \in [1 .. 8 -> Coefficient]
          /\ Unpack11(bytes) = [i \in 1 .. 8 |-> Compress11(given[i])]
          /\ coeffs = OnEach(Decompress11, Unpack11(bytes))
      BY <2>4, B352Bytes DEF Done, CodecInv
    <3>2. coeffs[j] = Decompress11(Compress11(given[j])) /\ given[j] \in Coefficient
      BY <3>1 DEF OnEach
    <3> QED
      BY <3>2, Near11
  <2> QED
    BY <2>1, <2>2, <2>3, <2>4 DEF CiphertextClose
<1> QED
  BY <1>1, CompressionDocumented, CodecAlways, PTL

\* A message survives every noise below a quarter of q.
THEOREM MessagesKept == Spec => []MessageKept
<1>1. CodecInv => MessageKept
  BY DEF CodecInv, MessageKept, Done
<1> QED
  BY <1>1, CodecAlways, PTL

\* barrett_reduce centers every int16_t.
LEMMA BarrettCenters == Spec => []BarrettCentered
<1>1. CodecInv => BarrettCentered
  <2> SUFFICES ASSUME CodecInv, Done("sum")
               PROVE  -1664 <= coeffs[1] /\ coeffs[1] <= 1664 /\ (coeffs[1] - given) % KYBER_Q = 0
    BY DEF BarrettCentered
  <2>1. given \in Int16 /\ coeffs[1] = barrett_reduce(given)
    BY CodecAssumption DEF CodecInv, CodecAssumption, Done
  <2>2. given \in Int
    BY <2>1 DEF Int16
  <2>3. PICK k \in Int : barrett_reduce(given) = given - 3329 * k
    BY <2>1, Barrett
  <2>4. coeffs[1] \in Int /\ -1664 <= coeffs[1] /\ coeffs[1] <= 1664
    BY <2>1, Barrett
  <2>5. (coeffs[1] - given) % 3329 = 0
    BY <2>1, <2>2, <2>3, SMT
  <2> QED
    BY <2>4, <2>5, SMT DEF KYBER_Q
<1> QED
  BY <1>1, CodecAlways, PTL

\* montgomery_reduce divides by 2^16 modulo q, for every argument it is described for.
LEMMA MontgomeryReduces == Spec => []MontgomeryReduced
<1>1. CodecInv => MontgomeryReduced
  <2> SUFFICES ASSUME CodecInv, Done("product")
               PROVE  -3328 <= coeffs[1] /\ coeffs[1] <= 3328 /\ (65536 * coeffs[1] - given) % KYBER_Q = 0
    BY DEF MontgomeryReduced
  <2>1. given \in Product /\ coeffs[1] = montgomery_reduce(given)
    BY CodecAssumption DEF CodecInv, CodecAssumption, Done
  <2>2. given \in Int
    BY <2>1 DEF Product
  <2>3. PICK k \in Int : 65536 * montgomery_reduce(given) - given = 3329 * k
    BY <2>1, Montgomery, SMT
  <2>4. coeffs[1] \in Int /\ -3328 <= coeffs[1] /\ coeffs[1] <= 3328
    BY <2>1, Montgomery, SMT
  <2>5. (65536 * coeffs[1] - given) % 3329 = 0
    BY <2>1, <2>2, <2>3, SMT
  <2> QED
    BY <2>4, <2>5, SMT DEF KYBER_Q
<1> QED
  BY <1>1, CodecAlways, PTL

\* The reductions are exact for every argument, where their products wrap too.
THEOREM ReductionsAreExact == Spec => []ReductionsExact
  BY BarrettCenters, MontgomeryReduces, PTL DEF ReductionsExact
=============================================================================
