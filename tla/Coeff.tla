------------------------------- MODULE Coeff --------------------------------
(***************************************************************************)
(* The arithmetic on single Kyber coefficients (reduce.c) and the packing  *)
(* of groups of them into bytes (poly.c, polyvec.c).  The loops of the     *)
(* code treat the groups of a polynomial one after the other and alike, so *)
(* the operators are those of one group.                                   *)
(*                                                                         *)
(* An `or' of values whose bits do not overlap is written as their sum, a  *)
(* shift as a product or a quotient, a mask of low bits as a remainder.    *)
(***************************************************************************)
EXTENDS Integers, Sequences

KYBER_Q == 3329

Byte == 0 .. 255
Int16 == {x \in Int : -32768 <= x /\ x <= 32767}
Coefficient == {x \in Int : -3328 <= x /\ x <= 3328}

\* -q 2^15 .. q 2^15 - 1
Product == {x \in Int : -109084672 <= x /\ x <= 109084671}

\* A noise of a quarter of q or more is a decryption failure.
Noise == -832 .. 831

\* The distance of x and y modulo q is at most d.
Near(x, y, d) == (x - y) % KYBER_Q \in 0 .. d \cup KYBER_Q - d .. KYBER_Q - 1

\* 1 / q modulo 2^16, as a signed number
QINV == 0 - 3327

\* (int16_t) x
I16(x) == ((x + 32768) % 65536) - 32768

montgomery_reduce(a) == I16((a - KYBER_Q * I16(QINV * I16(a))) \div 65536)

\* Mutant: the rounding term 1<<25 is left out.
barrett_reduceFloor(a) == I16(a - I16(KYBER_Q * I16((20159 * a) \div 67108864)))

\* t *= KYBER_Q may wrap, the difference then wraps back.
barrett_reduce(a) == I16(a - I16(KYBER_Q * I16((20159 * a + 33554432) \div 67108864)))

\* Mutant: no mapping to 0 .. q-1.
PositiveNot(u) == u

\* The representative in 0 .. q-1: u += (u >> 15) & KYBER_Q.
Positive(u) == IF u < 0 THEN u + KYBER_Q ELSE u

\* (x * (4096 ch + cl)) >> s, where 2^s = 4096 d: TLC's integers have 32 bits,
\* so the product is put together from halves.
MulShift(x, ch, cl, d) ==
  (4096 * (ch * (x \div 4096)) + cl * (x \div 4096) + ch * (x % 4096)
   + (cl * (x % 4096)) \div 4096) \div d

\* 80635 / 2^28 stands for 1 / q in poly_compress and poly_tomsg, 1290167 / 2^32
\* in polyvec_compress.
TimesQ28(x) == MulShift(x, 19, 2811, 65536)
TimesQ32(x) == MulShift(x, 314, 4023, 1048576)

\* 40318 / 2^27 and 645084 / 2^31 do the same where KYBER_K is 4.
TimesQ27(x) == MulShift(x, 9, 3454, 32768)
TimesQ31(x) == MulShift(x, 157, 2012, 524288)

\* 16 u / q, rounded
Round4(u) == TimesQ28(16 * u + 1665)

\* Mutant: without the rounding term.
Round10Floor(u) == TimesQ32(1024 * u)

\* 1024 u / q, rounded
Round10(u) == TimesQ32(1024 * u + 1665)

\* Mutant: without the rounding term.
Round1Floor(u) == TimesQ28(2 * u)

\* 2 u / q, rounded
Round1(u) == TimesQ28(2 * u + 1665)

\* Only four bits of the rounded value are kept: the product may wrap at 2^32.
Compress4(u) == Round4(Positive(u)) % 16
Compress10(u) == Round10(Positive(u)) % 1024

\* 32 u / q, rounded, and 2048 u / q
Round5(u) == TimesQ27(32 * u + 1664)
Round11(u) == TimesQ31(2048 * u + 1664)

Compress5(u) == Round5(Positive(u)) % 32
Compress11(u) == Round11(Positive(u)) % 2048

Decompress4(t) == (KYBER_Q * t + 8) \div 16
Decompress10(t) == (KYBER_Q * t + 512) \div 1024
Decompress5(t) == (KYBER_Q * t + 16) \div 32
Decompress11(t) == (KYBER_Q * t + 1024) \div 2048

FromBit(b) == ((KYBER_Q + 1) \div 2) * b

\* t is unsigned: 2^32 is added to a negative coefficient, and drops out of the bit.
ToBit(u) == Round1(u) % 2

OnEach(Op(_), s) == [j \in DOMAIN s |-> Op(s[j])]

----------------------------------------------------------------------------
(* Groups of values in bytes: two of 4 bits, four of 10 bits, two of 12     *)
(* bits, eight of 5 bits, of 11 bits and of one bit.                        *)

Pack4(t) == <<t[1] + 16 * t[2]>>
Unpack4(a) == <<a[1] % 16, a[1] \div 16>>

Pack10(t) == <<t[1] % 256,
               (t[1] \div 256) + ((4 * t[2]) % 256),
               (t[2] \div 64) + ((16 * t[3]) % 256),
               (t[3] \div 16) + ((64 * t[4]) % 256),
               t[4] \div 4>>

Unpack10(a) == <<(a[1] + 256 * a[2]) % 1024,
                 ((a[2] \div 4) + 64 * a[3]) % 1024,
                 ((a[3] \div 16) + 16 * a[4]) % 1024,
                 ((a[4] \div 64) + 4 * a[5]) % 1024>>

Pack12(t) == <<t[1] % 256, (t[1] \div 256) + ((16 * t[2]) % 256), t[2] \div 16>>

Unpack12(a) == <<(a[1] + 256 * a[2]) % 4096, ((a[2] \div 16) + 16 * a[3]) % 4096>>

Pack5(t) == <<t[1] + ((32 * t[2]) % 256),
              (t[2] \div 8) + 4 * t[3] + ((128 * t[4]) % 256),
              (t[4] \div 2) + ((16 * t[5]) % 256),
              (t[5] \div 16) + 2 * t[6] + ((64 * t[7]) % 256),
              (t[7] \div 4) + 8 * t[8]>>

Unpack5(a) == <<a[1] % 32,
                ((a[1] \div 32) + 8 * a[2]) % 32,
                (a[2] \div 4) % 32,
                ((a[2] \div 128) + 2 * a[3]) % 32,
                ((a[3] \div 16) + 16 * a[4]) % 32,
                (a[4] \div 2) % 32,
                ((a[4] \div 64) + 4 * a[5]) % 32,
                a[5] \div 8>>

Pack11(t) == <<t[1] % 256,
               (t[1] \div 256) + ((8 * t[2]) % 256),
               (t[2] \div 32) + ((64 * t[3]) % 256),
               (t[3] \div 4) % 256,
               (t[3] \div 1024) + ((2 * t[4]) % 256),
               (t[4] \div 128) + ((16 * t[5]) % 256),
               (t[5] \div 16) + ((128 * t[6]) % 256),
               (t[6] \div 2) % 256,
               (t[6] \div 512) + ((4 * t[7]) % 256),
               (t[7] \div 64) + ((32 * t[8]) % 256),
               t[8] \div 8>>

Unpack11(a) == <<(a[1] + 256 * a[2]) % 2048,
                 ((a[2] \div 8) + 32 * a[3]) % 2048,
                 ((a[3] \div 64) + 4 * a[4] + 1024 * a[5]) % 2048,
                 ((a[5] \div 2) + 128 * a[6]) % 2048,
                 ((a[6] \div 16) + 16 * a[7]) % 2048,
                 ((a[7] \div 128) + 2 * a[8] + 512 * a[9]) % 2048,
                 ((a[9] \div 4) + 64 * a[10]) % 2048,
                 ((a[10] \div 32) + 8 * a[11]) % 2048>>

Bits(x) == [j \in 1 .. 8 |->
              (x \div <<1, 2, 4, 8, 16, 32, 64, 128>>[j]) % 2]

Pack1(t) == <<t[1] + 2 * t[2] + 4 * t[3] + 8 * t[4]
              + 16 * t[5] + 32 * t[6] + 64 * t[7] + 128 * t[8]>>
=============================================================================
