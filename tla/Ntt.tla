-------------------------------- MODULE Ntt ---------------------------------
(***************************************************************************)
(* The operations on whole polynomials that encryption and decryption are  *)
(* made of (ntt.c and the rest of poly.c and polyvec.c).  A polynomial is  *)
(* a function from its 256 indices to int16_t; a layer of the transform    *)
(* writes every coefficient once, from two old ones, so it is a function   *)
(* of the old array.  Stores into an int16_t wrap.                         *)
(***************************************************************************)
EXTENDS Coeff, Strict

Index == 0 .. 255

zetas == <<
  -1044,  -758,  -359, -1517,  1493,  1422,   287,   202,
   -171,   622,  1577,   182,   962, -1202, -1474,  1468,
    573, -1325,   264,   383,  -829,  1458, -1602,  -130,
   -681,  1017,   732,   608, -1542,   411,  -205, -1571,
   1223,   652,  -552,  1015, -1293,  1491,  -282, -1544,
    516,    -8,  -320,  -666, -1618, -1162,   126,  1469,
   -853,   -90,  -271,   830,   107, -1421,  -247,  -951,
   -398,   961, -1508,  -725,   448, -1065,   677, -1275,
  -1103,   430,   555,   843, -1251,   871,  1550,   105,
    422,   587,   177,  -235,  -291,  -460,  1574,  1653,
   -246,   778,  1159,  -147,  -777,  1483,  -602,  1119,
  -1590,   644,  -872,   349,   418,   329,  -156,   -75,
    817,  1097,   603,   610,  1322, -1285, -1465,   384,
  -1215,  -136,  1218, -1335,  -874,   220, -1187, -1659,
  -1185, -1530, -1278,   794, -1510,  -854,  -870,   478,
   -108,  -308,   996,   991,   958, -1460,  1522,  1628 >>

Zeta(k) == zetas[k + 1]

fqmul(a, b) == montgomery_reduce(a * b)

\* Index j is in the lower half of its block of 2 len indices.
Lower(j, len) == (j \div len) % 2 = 0
Block(j, len) == j \div (2 * len)

\* Mutant: zetas[++k], one too far in every block.
NttZetaLate(j, len) == Zeta(((128 \div len) + Block(j, len) + 1) % 128)

\* zetas[k++], one for each block
NttZeta(j, len) == Zeta((128 \div len) + Block(j, len))

Butterfly(r, j, len) ==
  IF Lower(j, len)
  THEN I16(r[j] + fqmul(NttZeta(j, len), r[j + len]))
  ELSE I16(r[j - len] - fqmul(NttZeta(j, len), r[j]))

NttLayer(r, len) == Computed([j \in Index |-> Butterfly(r, j, len)])

\* zetas[k--], from the last
InvZeta(j, len) == Zeta((256 \div len) - 1 - Block(j, len))

\* Mutant: the sum is stored as it is.
InvButterflyLazy(r, j, len) ==
  IF Lower(j, len)
  THEN I16(r[j] + r[j + len])
  ELSE fqmul(InvZeta(j, len), I16(r[j] - r[j - len]))

InvButterfly(r, j, len) ==
  IF Lower(j, len)
  THEN barrett_reduce(I16(r[j] + r[j + len]))
  ELSE fqmul(InvZeta(j, len), I16(r[j] - r[j - len]))

InvLayer(r, len) == Computed([j \in Index |-> InvButterfly(r, j, len)])

\* mont^2 / 128
InvScale(r) == [j \in Index |-> fqmul(r[j], 1441)]

\* Mutant: the second factor of a pair is taken modulo X^2 - zeta too.
BaseZetaPlus(i) == Zeta(64 + (i \div 2))

\* The pairs are multiplied modulo X^2 - zeta and X^2 + zeta in turn.
BaseZeta(i) == IF i % 2 = 0 THEN Zeta(64 + (i \div 2)) ELSE 0 - Zeta(64 + (i \div 2))

poly_basemul_montgomery(a, b) ==
  [j \in Index |->
     IF j % 2 = 0
     THEN I16(fqmul(fqmul(a[j + 1], b[j + 1]), BaseZeta(j \div 2)) + fqmul(a[j], b[j]))
     ELSE I16(fqmul(a[j - 1], b[j]) + fqmul(a[j], b[j - 1]))]

poly_reduce(r) == [j \in Index |-> barrett_reduce(r[j])]

poly_add(a, b) == [j \in Index |-> I16(a[j] + b[j])]
poly_sub(a, b) == [j \in Index |-> I16(a[j] - b[j])]

\* 2^32 mod q
poly_tomont(r) == [j \in Index |-> fqmul(r[j], 1353)]

ntt(r) ==
  NttLayer(NttLayer(NttLayer(NttLayer(NttLayer(NttLayer(NttLayer(
    r, 128), 64), 32), 16), 8), 4), 2)

invntt(r) ==
  InvScale(InvLayer(InvLayer(InvLayer(InvLayer(InvLayer(InvLayer(InvLayer(
    r, 2), 4), 8), 16), 32), 64), 128))

poly_ntt(r) == poly_reduce(ntt(r))

\* KYBER_K = 2 products, added
Accumulate(a, b) ==
  poly_add(poly_basemul_montgomery(a[1], b[1]), poly_basemul_montgomery(a[2], b[2]))

polyvec_basemul_acc_montgomery(a, b) == poly_reduce(Accumulate(a, b))
=============================================================================
