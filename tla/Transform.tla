----------------------------- MODULE Transform ------------------------------
(***************************************************************************)
(* The number-theoretic transform at work, layer by layer: a polynomial is *)
(* transformed and reduced (poly_ntt), then either multiplied, as an entry *)
(* of a vector, with another vector (polyvec_basemul_acc_montgomery) or    *)
(* left as it is, and transformed back (poly_invntt_tomont).               *)
(***************************************************************************)
EXTENDS Ntt

CONSTANTS
  Polys,    \* the polynomials transformed
  Factors   \* <<b1, a2, b2>>: the product is that of the vectors <<given, a2>> and <<b1, b2>>

\* The polynomials that are transformed have reduced or decompressed coefficients.
ASSUME TransformAssumption ==
  /\ Polys \subseteq [Index -> Coefficient]
  /\ Factors \subseteq [1 .. 3 -> [Index -> Coefficient]]

VARIABLES
  given,   \* the polynomial transformed
  factor,  \* what it is multiplied with, <<>> if it is not
  r,       \* the array
  len,     \* the length of the next layer
  pc       \* "ntt", "reduce", "middle", "sum", "invntt", "scale" or "done"

vars == <<given, factor, r, len, pc>>

Init ==
  /\ given \in Polys
  /\ factor = <<>>
  /\ r = given
  /\ len = 128
  /\ pc = "ntt"

\* A round of the outer loop of ntt.
Forward ==
  /\ pc = "ntt"
  /\ r' = NttLayer(r, len)
  /\ len' = len \div 2
  /\ pc' = IF len = 2 THEN "reduce" ELSE "ntt"
  /\ UNCHANGED <<given, factor>>

\* The call of poly_reduce at the end of poly_ntt.
Reduce ==
  /\ pc = "reduce"
  /\ r' = poly_reduce(r)
  /\ pc' = "middle"
  /\ UNCHANGED <<given, factor, len>>

\* Back without a multiplication.
Keep ==
  /\ pc = "middle"
  /\ len' = 2
  /\ pc' = "invntt"
  /\ UNCHANGED <<given, factor, r>>

\* polyvec_basemul_acc_montgomery up to its reduction.
Multiply ==
  /\ pc = "middle"
  /\ factor' \in Factors
  /\ r' = Accumulate(<<r, poly_ntt(factor'[2])>>, <<poly_ntt(factor'[1]), poly_ntt(factor'[3])>>)
  /\ pc' = "sum"
  /\ UNCHANGED <<given, len>>

\* The call of poly_reduce at its end.
ReduceSum ==
  /\ pc = "sum"
  /\ r' = poly_reduce(r)
  /\ len' = 2
  /\ pc' = "invntt"
  /\ UNCHANGED <<given, factor>>

\* A round of the outer loop of invntt.
Backward ==
  /\ pc = "invntt"
  /\ r' = InvLayer(r, len)
  /\ len' = 2 * len
  /\ pc' = IF len = 128 THEN "scale" ELSE "invntt"
  /\ UNCHANGED <<given, factor>>

Scale ==
  /\ pc = "scale"
  /\ r' = InvScale(r)
  /\ pc' = "done"
  /\ UNCHANGED <<given, factor, len>>

Next == Forward \/ Reduce \/ Keep \/ Multiply \/ ReduceSum \/ Backward \/ Scale

Spec == Init /\ [][Next]_vars

----------------------------------------------------------------------------

\* What a coefficient may be before the layer of length len: each layer of ntt
\* adds less than q, each layer of invntt reduces what it adds.
Limit ==
  CASE pc = "ntt" /\ len = 128 -> 3328
    [] pc = "ntt" /\ len = 64 -> 6656
    [] pc = "ntt" /\ len = 32 -> 9984
    [] pc = "ntt" /\ len = 16 -> 13312
    [] pc = "ntt" /\ len = 8 -> 16640
    [] pc = "ntt" /\ len = 4 -> 19968
    [] pc = "ntt" /\ len = 2 -> 23296
    [] pc = "reduce" -> 26624
    [] pc = "sum" -> 13312
    [] OTHER -> 3328

\* No store of the transform or of its inverse wraps: the seven unreduced
\* layers of ntt stay within int16_t, the sum of the products too, and the sums
\* and differences of invntt because it reduces in every layer.
NoWrap == \A j \in Index : r[j] \in Int /\ 0 - Limit <= r[j] /\ r[j] <= Limit

\* Neighbours are added.
Pairs(f) == [i \in Nat |-> f[2 * i] + f[2 * i + 1]]

\* f[0] + .. + f[2^k - 1], where f is 0 outside its domain.
SumOf(f, k) ==
  LET level[l \in 0 .. k] ==
        IF l = 0 THEN [i \in Nat |-> IF i \in DOMAIN f THEN f[i] ELSE 0]
        ELSE Pairs(level[l - 1])
  IN  level[k][0]

\* The 128th roots of -1: 17 is a 256th root of unity, and the places of the
\* transform are in bit-reversed order.
Powers ==
  LET power[n \in 0 .. 255] ==
        IF n = 0 THEN 1
        ELSE LET h == power[n \div 2]
             IN  (h * h * (IF n % 2 = 0 THEN 1 ELSE 17)) % KYBER_Q
  IN  Computed(power)
BitReverse(i) ==
  64 * (i % 2) + 32 * ((i \div 2) % 2) + 16 * ((i \div 4) % 2) + 8 * ((i \div 8) % 2)
  + 4 * ((i \div 16) % 2) + 2 * ((i \div 32) % 2) + ((i \div 64) % 2)

\* ntt is the remainder modulo each X^2 - w, where w is an odd power of 17: the
\* table zetas, its order and the loops that walk through it fit together.
NttEvaluates ==
  pc = "middle" =>
    \A i \in 0 .. 127 : \A b \in 0 .. 1 :
      LET w == 2 * BitReverse(i) + 1
          value == SumOf([j \in 0 .. 127 |-> (given[2 * j + b] * Powers[(w * j) % 256]) % KYBER_Q], 7)
      IN  (r[2 * i + b] - value) % KYBER_Q = 0

\* Coefficient j of the product modulo X^256 + 1.
Times(a, b, j) ==
  SumOf([i \in Index |-> IF i <= j
                         THEN (a[i] * b[j - i]) % KYBER_Q
                         ELSE (0 - a[i] * b[256 + j - i]) % KYBER_Q], 8)

\* invntt undoes ntt and multiplies by 2^16, as its description says; and with
\* polyvec_basemul_acc_montgomery between them it gives the product of two vectors of
\* polynomials modulo X^256 + 1: the Montgomery factors of the two cancel.
ProductInRing ==
  pc = "done" =>
    \A j \in Index :
      LET exact == IF factor = <<>> THEN (65536 % KYBER_Q) * given[j]
                   ELSE Times(given, factor[1], j) + Times(factor[2], factor[3], j)
      IN  (r[j] - exact) % KYBER_Q = 0
=============================================================================
