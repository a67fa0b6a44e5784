-------------------------- MODULE TransformProofs ---------------------------
(***************************************************************************)
(* The transform computes what it should, for every polynomial.  First: no *)
(* coefficient leaves int16_t, because a layer of ntt adds at most q - 1   *)
(* to the limit of the layer before, and seven layers fit, and a layer of  *)
(* invntt keeps its limit.  Then, modulo q: ntt takes the remainders       *)
(* modulo the 128 polynomials X^2 - w, poly_basemul_montgomery multiplies  *)
(* them, and invntt puts them together again.                              *)
(***************************************************************************)
EXTENDS Transform, WellFoundedInduction, TLAPS

\* A value stored in an int16_t is congruent to it modulo 2^16.
LEMMA Mod16 ==
  ASSUME NEW x \in Int
  PROVE  /\ I16(x) \in Int /\ -32768 <= I16(x) /\ I16(x) <= 32767
         /\ \E k \in Int : I16(x) = x - 65536 * k
<1> DEFINE over == (x + 32768) \div 65536
           rest == (x + 32768) % 65536
<1>1. x + 32768 = 65536 * over + rest
  BY SMTT(60)
<1>2. over \in Int /\ rest \in Int /\ 0 <= rest /\ rest < 65536
  BY SMTT(60)
<1>3. I16(x) = rest - 32768
  BY DEF I16
<1> HIDE DEF over, rest
<1>4. I16(x) \in Int /\ -32768 <= I16(x) /\ I16(x) <= 32767
  BY <1>2, <1>3, SMTT(60)
<1>5. I16(x) = x - 65536 * over
  BY <1>1, <1>2, <1>3, SMTT(60)
<1> QED
  <2>1. \E k \in Int : I16(x) = x - 65536 * k
    BY <1>2, <1>5, SMTT(60)
  <2> QED
    BY <1>4, <2>1, SMTT(60)

\* A value of 16 bits is stored as it is.
LEMMA Small16 ==
  ASSUME NEW x \in Int, -32768 <= x, x <= 32767
  PROVE  I16(x) = x
BY SMT DEF I16

\* barrett_reduce takes away a multiple of q, and leaves half of q at most.
LEMMA Barrett ==
  ASSUME NEW a \in Int16
  PROVE  /\ barrett_reduce(a) \in Int
         /\ -1664 <= barrett_reduce(a) /\ barrett_reduce(a) <= 1664
         /\ \E k \in Int : barrett_reduce(a) = a - 3329 * k
<1> DEFINE t == (20159 * a + 33554432) \div 67108864
<1>0. a \in Int /\ -32768 <= a /\ a <= 32767
  BY DEF Int16
<1>1. t \in Int /\ 67108864 * t <= 20159 * a + 33554432
      /\ 20159 * a + 33554432 < 67108864 * t + 67108864
  BY <1>0, SMT
<1>2. barrett_reduce(a) = I16(a - I16(KYBER_Q * I16(t)))
  BY DEF barrett_reduce
<1> HIDE DEF t
<1>3. -10 <= t /\ t <= 10 /\ -1664 <= a - 3329 * t /\ a - 3329 * t <= 1664
  BY <1>0, <1>1, SMT
<1>4. I16(t) = t
  BY <1>1, <1>3, Small16
<1>5. PICK k \in Int : I16(3329 * t) = 3329 * t - 65536 * k
  BY <1>1, Mod16
<1>6. I16(a - (3329 * t - 65536 * k)) = a - 3329 * t
  BY <1>0, <1>1, <1>3, SMT DEF I16
<1> QED
  BY <1>0, <1>1, <1>2, <1>3, <1>4, <1>5, <1>6 DEF KYBER_Q

\* montgomery_reduce gives a coefficient, which is the quotient by 2^16 modulo q.
LEMMA Montgomery ==
  ASSUME NEW a \in Product
  PROVE  /\ montgomery_reduce(a) \in Coefficient
         /\ \E k \in Int : 65536 * montgomery_reduce(a) = a - 3329 * k
<1> DEFINE l == I16(a)
           x == QINV * l
           w == I16(x)
<1>0. a \in Int /\ -109084672 <= a /\ a <= 109084671
  BY SMT DEF Product
<1>1. l \in Int /\ \E k \in Int : l = a - 65536 * k
  BY <1>0, Mod16, SMT
<1> HIDE DEF l
<1>2. PICK k \in Int : l = a - 65536 * k
  BY <1>1, SMT
<1>3. x = -3327 * l /\ x \in Int
  BY <1>1, SMT DEF QINV
<1> HIDE DEF x
<1>4. /\ w \in Int /\ -32768 <= w /\ w <= 32767
      /\ \E m \in Int : w = x - 65536 * m
  BY <1>3, Mod16, SMT
<1> HIDE DEF w
<1>5. PICK m \in Int : w = x - 65536 * m
  BY <1>4, SMT
<1> DEFINE z == 169 * a + k - 11075584 * k + 3329 * m
<1>6. z \in Int /\ a - 3329 * w = 65536 * z
  BY <1>0, <1>2, <1>3, <1>5, SMT
<1> HIDE DEF z
<1>7. -3328 <= z /\ z <= 3328
  BY <1>0, <1>4, <1>6, SMT
<1>8. (a - 3329 * w) \div 65536 = z
  BY <1>0, <1>4, <1>6, SMT
<1>9. montgomery_reduce(a) = I16((a - KYBER_Q * w) \div 65536)
  BY SMT DEF montgomery_reduce, w, x, l
<1>10. montgomery_reduce(a) = z
  BY <1>6, <1>7, <1>8, <1>9, Small16, SMT DEF KYBER_Q
<1>11. montgomery_reduce(a) \in Coefficient
  BY <1>6, <1>7, <1>10, SMT DEF Coefficient
<1> QED
  BY <1>4, <1>6, <1>10, <1>11

\* The table holds coefficients.
LEMMA ZetaBound ==
  ASSUME NEW k \in Int, 0 <= k, k <= 127
  PROVE  Zeta(k) \in Coefficient
BY SMT DEF Zeta, zetas, Coefficient

\* A product with a coefficient is an argument montgomery_reduce allows.
LEMMA ProductBound ==
  ASSUME NEW a \in Coefficient, NEW b \in Int16
  PROVE  a * b \in Product
<1>1. /\ a \in Int /\ -3328 <= a /\ a <= 3328
      /\ b \in Int /\ -32768 <= b /\ b <= 32767
  BY SMT DEF Coefficient, Int16
<1>2. a * b \in Int /\ -109051904 <= a * b /\ a * b <= 109051904
  BY <1>1, SMT
<1> QED
  BY <1>2, SMT DEF Product

\* fqmul gives a coefficient.
LEMMA FqmulBound ==
  ASSUME NEW a \in Coefficient, NEW b \in Int16
  PROVE  /\ fqmul(a, b) \in Coefficient
         /\ \E k \in Int : 65536 * fqmul(a, b) = a * b - 3329 * k
<1> DEFINE p == a * b
<1>1. p \in Product
  BY ProductBound
<1>2. fqmul(a, b) = montgomery_reduce(p)
  BY DEF fqmul
<1> HIDE DEF p
<1>3. fqmul(a, b) \in Coefficient /\ \E k \in Int : 65536 * fqmul(a, b) = p - 3329 * k
  BY <1>1, <1>2, Montgomery
<1> QED
  BY <1>3 DEF p

\* A coefficient is an int16_t.
LEMMA CoefficientType == Coefficient \subseteq Int16
BY SMT DEF Coefficient, Int16

\* What a store into an int16_t leaves is one.
LEMMA StoreType ==
  ASSUME NEW x \in Int
  PROVE  I16(x) \in Int16
BY Mod16, SMT DEF Int16

Lens == {2, 4, 8, 16, 32, 64, 128}

\* A butterfly stays inside the array, and takes its zeta from inside the table.
LEMMA Inside ==
  ASSUME NEW n \in Lens, NEW j \in Index
  PROVE  /\ Lower(j, n) => j + n \in Index
         /\ ~Lower(j, n) => j - n \in Index
         /\ (128 \div n) + Block(j, n) \in Int
         /\ 0 <= (128 \div n) + Block(j, n) /\ (128 \div n) + Block(j, n) <= 127
         /\ (256 \div n) - 1 - Block(j, n) \in Int
         /\ 0 <= (256 \div n) - 1 - Block(j, n) /\ (256 \div n) - 1 - Block(j, n) <= 127
<1>1. CASE n = 128
  BY <1>1, SMT DEF Index, Lower, Block
<1>2. CASE n = 64
  BY <1>2, SMT DEF Index, Lower, Block
<1>3. CASE n = 32
  BY <1>3, SMT DEF Index, Lower, Block
<1>4. CASE n = 16
  BY <1>4, SMT DEF Index, Lower, Block
<1>5. CASE n = 8
  BY <1>5, SMT DEF Index, Lower, Block
<1>6. CASE n = 4
  BY <1>6, SMT DEF Index, Lower, Block
<1>7. CASE n = 2
  BY <1>7, SMT DEF Index, Lower, Block
<1> QED
  BY <1>1, <1>2, <1>3, <1>4, <1>5, <1>6, <1>7 DEF Lens

\* A value chosen from a singleton is its element.
LEMMA ComputedIs ==
  ASSUME NEW f
  PROVE  Computed(f) = f
BY DEF Computed

\* The coefficients of a are within the limit m.
Within(a, m) == \A j \in Index : a[j] \in Int /\ 0 - m <= a[j] /\ a[j] <= m

\* A layer of ntt adds less than q.
LEMMA NttLayerBound ==
  ASSUME NEW n \in Lens, NEW a, NEW m \in Int, 0 <= m, m <= 23296, Within(a, m)
  PROVE  Within(NttLayer(a, n), m + 3328)
<1> SUFFICES ASSUME NEW j \in Index
             PROVE  /\ Butterfly(a, j, n) \in Int
                    /\ 0 - (m + 3328) <= Butterfly(a, j, n) /\ Butterfly(a, j, n) <= m + 3328
  BY ComputedIs DEF Within, NttLayer
<1> DEFINE z == NttZeta(j, n)
<1>1. z \in Coefficient
  BY Inside, ZetaBound DEF NttZeta
<1> HIDE DEF z
<1>2. CASE Lower(j, n)
  <2> DEFINE t == fqmul(z, a[j + n])
  <2>1. /\ a[j] \in Int /\ 0 - m <= a[j] /\ a[j] <= m
        /\ a[j + n] \in Int /\ 0 - m <= a[j + n] /\ a[j + n] <= m
    BY <1>2, Inside DEF Within
  <2>2. t \in Int /\ -3328 <= t /\ t <= 3328
    <3>1. a[j + n] \in Int16
      BY <2>1, SMT DEF Int16
    <3>2. t \in Coefficient
      BY <1>1, <3>1, FqmulBound
    <3> QED
      BY <3>2, SMT DEF Coefficient
  <2>3. Butterfly(a, j, n) = I16(a[j] + t)
    BY <1>2 DEF Butterfly, z
  <2> HIDE DEF t
  <2>4. I16(a[j] + t) = a[j] + t
    BY <2>1, <2>2, Small16
  <2> QED
    BY <2>1, <2>2, <2>3, <2>4
<1>3. CASE ~Lower(j, n)
  <2> DEFINE t == fqmul(z, a[j])
  <2>1. /\ a[j] \in Int /\ 0 - m <= a[j] /\ a[j] <= m
        /\ a[j - n] \in Int /\ 0 - m <= a[j - n] /\ a[j - n] <= m
    BY <1>3, Inside DEF Within
  <2>2. t \in Int /\ -3328 <= t /\ t <= 3328
    <3>1. a[j] \in Int16
      BY <2>1, SMT DEF Int16
    <3>2. t \in Coefficient
      BY <1>1, <3>1, FqmulBound
    <3> QED
      BY <3>2, SMT DEF Coefficient
  <2>3. Butterfly(a, j, n) = I16(a[j - n] - t)
    BY <1>3 DEF Butterfly, z
  <2> HIDE DEF t
  <2>4. I16(a[j - n] - t) = a[j - n] - t
    BY <2>1, <2>2, Small16
  <2> QED
    BY <2>1, <2>2, <2>3, <2>4
<1> QED
  BY <1>2, <1>3

\* A layer of invntt stays below q.
LEMMA InvLayerBound ==
  ASSUME NEW n \in Lens, NEW a, Within(a, 3328)
  PROVE  Within(InvLayer(a, n), 3328)
<1> SUFFICES ASSUME NEW j \in Index
             PROVE  /\ InvButterfly(a, j, n) \in Int
                    /\ -3328 <= InvButterfly(a, j, n) /\ InvButterfly(a, j, n) <= 3328
  BY ComputedIs DEF Within, InvLayer
<1>1. InvZeta(j, n) \in Coefficient
  BY Inside, ZetaBound DEF InvZeta
<1>2. CASE Lower(j, n)
  <2>1. /\ a[j] \in Int /\ -3328 <= a[j] /\ a[j] <= 3328
        /\ a[j + n] \in Int /\ -3328 <= a[j + n] /\ a[j + n] <= 3328
    BY <1>2, Inside DEF Within
  <2> DEFINE s == I16(a[j] + a[j + n])
  <2>2. s \in Int16
    BY <2>1, StoreType
  <2>3. InvButterfly(a, j, n) = barrett_reduce(s)
    BY <1>2 DEF InvButterfly
  <2> HIDE DEF s
  <2> QED
    BY <2>2, <2>3, Barrett
<1>3. CASE ~Lower(j, n)
  <2>1. /\ a[j] \in Int /\ -3328 <= a[j] /\ a[j] <= 3328
        /\ a[j - n] \in Int /\ -3328 <= a[j - n] /\ a[j - n] <= 3328
    BY <1>3, Inside DEF Within
  <2> DEFINE s == I16(a[j] - a[j - n])
  <2>2. s \in Int16
    BY <2>1, StoreType
  <2>3. InvButterfly(a, j, n) = fqmul(InvZeta(j, n), s)
    BY <1>3 DEF InvButterfly
  <2> HIDE DEF s
  <2> QED
    BY <1>1, <2>2, <2>3, FqmulBound, SMT DEF Coefficient
<1> QED
  BY <1>2, <1>3

\* poly_reduce centers whatever fits into an int16_t.
LEMMA ReduceBound ==
  ASSUME NEW a, \A j \in Index : a[j] \in Int16
  PROVE  Within(poly_reduce(a), 3328)
<1> SUFFICES ASSUME NEW j \in Index
             PROVE  /\ barrett_reduce(a[j]) \in Int
                    /\ -3328 <= barrett_reduce(a[j]) /\ barrett_reduce(a[j]) <= 3328
  BY DEF Within, poly_reduce
<1>1. a[j] \in Int16
  OBVIOUS
<1> QED
  BY <1>1, Barrett, SMT

\* The factor of the last loop of invntt is small.
LEMMA ScaleBound ==
  ASSUME NEW a, Within(a, 3328)
  PROVE  Within(InvScale(a), 3328)
<1> SUFFICES ASSUME NEW j \in Index
             PROVE  /\ fqmul(a[j], 1441) \in Int
                    /\ -3328 <= fqmul(a[j], 1441) /\ fqmul(a[j], 1441) <= 3328
  BY DEF Within, InvScale
<1>1. a[j] \in Coefficient
  BY SMT DEF Within, Coefficient
<1>2. 1441 \in Int16
  BY SMT DEF Int16
<1>3. fqmul(a[j], 1441) \in Coefficient
  BY <1>1, <1>2, FqmulBound
<1> QED
  BY <1>3, SMT DEF Coefficient

\* The transform of a polynomial, reduced, is within the limit.
LEMMA PolyNttBound ==
  ASSUME NEW f \in [Index -> Coefficient]
  PROVE  Within(poly_ntt(f), 3328)
<1> DEFINE f1 == NttLayer(f, 128)
           f2 == NttLayer(f1, 64)
           f3 == NttLayer(f2, 32)
           f4 == NttLayer(f3, 16)
           f5 == NttLayer(f4, 8)
           f6 == NttLayer(f5, 4)
           f7 == NttLayer(f6, 2)
<1>0. Within(f, 3328)
  <2> SUFFICES ASSUME NEW j \in Index
               PROVE  f[j] \in Int /\ -3328 <= f[j] /\ f[j] <= 3328
    BY DEF Within
  <2>1. f[j] \in Coefficient
    OBVIOUS
  <2> QED
    BY <2>1, SMT DEF Coefficient
<1>n. poly_ntt(f) = poly_reduce(f7)
  BY DEF poly_ntt, ntt
<1>1. Within(f1, 6656)
  <2>1. 128 \in Lens /\ 3328 + 3328 = 6656
    BY SMT DEF Lens
  <2> QED
    BY <1>0, <2>1, NttLayerBound, SMT
<1> HIDE DEF f1
<1>2. Within(f2, 9984)
  <2>1. 64 \in Lens /\ 6656 + 3328 = 9984
    BY SMT DEF Lens
  <2> QED
    BY <1>1, <2>1, NttLayerBound, SMT
<1> HIDE DEF f2
<1>3. Within(f3, 13312)
  <2>1. 32 \in Lens /\ 9984 + 3328 = 13312
    BY SMT DEF Lens
  <2> QED
    BY <1>2, <2>1, NttLayerBound, SMT
<1> HIDE DEF f3
<1>4. Within(f4, 16640)
  <2>1. 16 \in Lens /\ 13312 + 3328 = 16640
    BY SMT DEF Lens
  <2> QED
    BY <1>3, <2>1, NttLayerBound, SMT
<1> HIDE DEF f4
<1>5. Within(f5, 19968)
  <2>1. 8 \in Lens /\ 16640 + 3328 = 19968
    BY SMT DEF Lens
  <2> QED
    BY <1>4, <2>1, NttLayerBound, SMT
<1> HIDE DEF f5
<1>6. Within(f6, 23296)
  <2>1. 4 \in Lens /\ 19968 + 3328 = 23296
    BY SMT DEF Lens
  <2> QED
    BY <1>5, <2>1, NttLayerBound, SMT
<1> HIDE DEF f6
<1>7. Within(f7, 26624)
  <2>1. 2 \in Lens /\ 23296 + 3328 = 26624
    BY SMT DEF Lens
  <2> QED
    BY <1>6, <2>1, NttLayerBound, SMT
<1> HIDE DEF f7
<1>8. \A j \in Index : f7[j] \in Int16
  BY <1>7, SMT DEF Within, Int16
<1> QED
  BY <1>8, <1>n, ReduceBound

\* Two coefficients are added without wrapping.
LEMMA PairSum ==
  ASSUME NEW x \in Coefficient, NEW y \in Coefficient
  PROVE  /\ I16(x + y) \in Int
         /\ -6656 <= I16(x + y) /\ I16(x + y) <= 6656
<1>1. /\ x + y \in Int /\ -6656 <= x + y /\ x + y <= 6656
  BY SMT DEF Coefficient
<1>2. I16(x + y) = x + y
  BY <1>1, Small16
<1> QED
  BY <1>1, <1>2

\* A product of two polynomials within the limit is within twice the limit.
LEMMA BasemulBound ==
  ASSUME NEW a, NEW b, Within(a, 3328), Within(b, 3328), NEW j \in Index
  PROVE  /\ poly_basemul_montgomery(a, b)[j] \in Int
         /\ -6656 <= poly_basemul_montgomery(a, b)[j]
         /\ poly_basemul_montgomery(a, b)[j] <= 6656
<1>1. CASE j % 2 = 0
  <2> DEFINE s == fqmul(a[j + 1], b[j + 1])
             u == fqmul(a[j], b[j])
             z == BaseZeta(j \div 2)
  <2>1. j + 1 \in Index /\ j \div 2 \in 0 .. 127
    BY <1>1, SMT DEF Index
  <2>2. /\ a[j] \in Coefficient /\ b[j] \in Coefficient
        /\ a[j + 1] \in Coefficient /\ b[j + 1] \in Coefficient
    BY <2>1, SMT DEF Within, Coefficient
  <2>i. b[j] \in Int16 /\ b[j + 1] \in Int16
    BY <2>2, CoefficientType
  <2>s. s \in Coefficient
    BY <2>2, <2>i, FqmulBound
  <2>u. u \in Coefficient
    BY <2>2, <2>i, FqmulBound
  <2>3. s \in Coefficient /\ u \in Coefficient
    BY <2>s, <2>u
  <2>4. z \in Coefficient
    <3> DEFINE k == 64 + ((j \div 2) \div 2)
               y == Zeta(k)
    <3>1. k \in Int /\ 0 <= k /\ k <= 127
      BY <2>1, SMT
    <3>2. z = y \/ z = 0 - y
      BY DEF BaseZeta
    <3> HIDE DEF k, z
    <3>3. y \in Coefficient
      BY <3>1, ZetaBound
    <3> HIDE DEF y
    <3> QED
      BY <3>2, <3>3, SMT DEF Coefficient
  <2>5. poly_basemul_montgomery(a, b)[j] = I16(fqmul(s, z) + u)
    BY <1>1 DEF poly_basemul_montgomery
  <2> HIDE DEF s, u, z
  <2>6. fqmul(s, z) \in Coefficient
    BY <2>3, <2>4, FqmulBound, CoefficientType
  <2> QED
    BY <2>3, <2>5, <2>6, PairSum
<1>2. CASE j % 2 # 0
  <2> DEFINE s == fqmul(a[j - 1], b[j])
             u == fqmul(a[j], b[j - 1])
  <2>1. j - 1 \in Index
    BY <1>2, SMT DEF Index
  <2>2. /\ a[j] \in Coefficient /\ b[j] \in Coefficient
        /\ a[j - 1] \in Coefficient /\ b[j - 1] \in Coefficient
    BY <2>1, SMT DEF Within, Coefficient
  <2>i. b[j] \in Int16 /\ b[j - 1] \in Int16
    BY <2>2, CoefficientType
  <2>s. s \in Coefficient
    BY <2>2, <2>i, FqmulBound
  <2>u. u \in Coefficient
    BY <2>2, <2>i, FqmulBound
  <2>3. s \in Coefficient /\ u \in Coefficient
    BY <2>s, <2>u
  <2>4. poly_basemul_montgomery(a, b)[j] = I16(s + u)
    BY <1>2 DEF poly_basemul_montgomery
  <2> HIDE DEF s, u
  <2> QED
    BY <2>3, <2>4, PairSum
<1> QED
  BY <1>1, <1>2

\* The sum of two products is within four times the limit.
LEMMA AccumulateBound ==
  ASSUME NEW a, NEW b, Within(a[1], 3328), Within(b[1], 3328),
         Within(a[2], 3328), Within(b[2], 3328)
  PROVE  Within(Accumulate(a, b), 13312)
<1> DEFINE x == poly_basemul_montgomery(a[1], b[1])
           y == poly_basemul_montgomery(a[2], b[2])
<1>1. \A j \in Index : x[j] \in Int /\ -6656 <= x[j] /\ x[j] <= 6656
  BY BasemulBound
<1>2. \A j \in Index : y[j] \in Int /\ -6656 <= y[j] /\ y[j] <= 6656
  BY BasemulBound
<1>3. Accumulate(a, b) = [j \in Index |-> I16(x[j] + y[j])]
  BY DEF Accumulate, poly_add
<1> HIDE DEF x, y
<1> SUFFICES ASSUME NEW j \in Index
             PROVE  /\ I16(x[j] + y[j]) \in Int
                    /\ 0 - 13312 <= I16(x[j] + y[j]) /\ I16(x[j] + y[j]) <= 13312
  BY <1>3 DEF Within
<1>4. /\ x[j] + y[j] \in Int /\ -13312 <= x[j] + y[j] /\ x[j] + y[j] <= 13312
  BY <1>1, <1>2
<1>5. I16(x[j] + y[j]) = x[j] + y[j]
  BY <1>4, Small16
<1> QED
  BY <1>4, <1>5

\* Where the loops are, and the limit of the coefficients there.
TransformInv ==
  /\ pc \in {"ntt", "reduce", "middle", "sum", "invntt", "scale", "done"}
  /\ pc \in {"ntt", "invntt"} => len \in Lens
  /\ Within(r, Limit)

\* The polynomials given are within the first limit.
LEMMA TransformStart == Init => TransformInv
<1> SUFFICES ASSUME Init PROVE TransformInv
  OBVIOUS
<1>1. given \in [Index -> Coefficient] /\ r = given /\ pc = "ntt" /\ len = 128
  BY TransformAssumption DEF Init, TransformAssumption
<1>2. Limit = 3328
  BY <1>1 DEF Limit
<1>3. \A j \in Index : r[j] \in Int /\ -3328 <= r[j] /\ r[j] <= 3328
  <2> SUFFICES ASSUME NEW j \in Index
               PROVE  r[j] \in Int /\ -3328 <= r[j] /\ r[j] <= 3328
    OBVIOUS
  <2>1. r[j] \in Coefficient
    BY <1>1
  <2> QED
    BY <2>1, SMT DEF Coefficient
<1> QED
  BY <1>1, <1>2, <1>3 DEF TransformInv, Within, Lens

\* Each round keeps the invariant.
LEMMA TransformStep == TransformInv /\ [Next]_vars => TransformInv'
<1> SUFFICES ASSUME TransformInv, [Next]_vars PROVE TransformInv'
  OBVIOUS
<1>1. CASE Forward
  <2>1. len \in Lens /\ pc = "ntt" /\ Within(r, Limit) /\ r' = NttLayer(r, len)
        /\ len' = len \div 2 /\ pc' = (IF len = 2 THEN "reduce" ELSE "ntt")
    BY <1>1 DEF TransformInv, Forward
  <2>2. /\ Limit \in Int /\ 0 <= Limit /\ Limit <= 23296
        /\ Limit' = Limit + 3328
        /\ pc' = "ntt" => len' \in Lens
        /\ pc' \in {"ntt", "reduce"}
    BY <2>1, SMT DEF Lens, Limit
  <2>3. Within(r', Limit + 3328)
    BY <2>1, <2>2, NttLayerBound
  <2> QED
    BY <2>2, <2>3 DEF TransformInv
<1>2. CASE Reduce
  <2>1. pc = "reduce" /\ Within(r, Limit) /\ r' = poly_reduce(r) /\ pc' = "middle"
    BY <1>2 DEF TransformInv, Reduce
  <2>2. Limit = 26624 /\ Limit' = 3328
    BY <2>1 DEF Limit
  <2>3. \A j \in Index : r[j] \in Int16
    BY <2>1, <2>2, SMT DEF Within, Int16
  <2> QED
    BY <2>1, <2>2, <2>3, ReduceBound DEF TransformInv
<1>3. CASE Keep
  <2>1. pc = "middle" /\ Within(r, Limit) /\ r' = r /\ pc' = "invntt" /\ len' = 2
    BY <1>3 DEF TransformInv, Keep
  <2>2. Limit = 3328 /\ Limit' = 3328
    BY <2>1 DEF Limit
  <2> QED
    BY <2>1, <2>2 DEF TransformInv, Lens
<1>4. CASE Multiply
  <2> DEFINE a == <<r, poly_ntt(factor'[2])>>
             b == <<poly_ntt(factor'[1]), poly_ntt(factor'[3])>>
  <2>1. r' = Accumulate(a, b) /\ pc' = "sum"
    BY <1>4 DEF Multiply
  <2>2. Limit' = 13312
    BY <2>1 DEF Limit
  <2>3. Within(r, 3328)
    <3>1. Limit = 3328
      BY <1>4 DEF Multiply, Limit
    <3> QED
      BY <3>1 DEF TransformInv
  <2>4. /\ factor'[1] \in [Index -> Coefficient]
        /\ factor'[2] \in [Index -> Coefficient]
        /\ factor'[3] \in [Index -> Coefficient]
    BY <1>4, TransformAssumption DEF Multiply, TransformAssumption
  <2>5. /\ Within(poly_ntt(factor'[1]), 3328)
        /\ Within(poly_ntt(factor'[2]), 3328)
        /\ Within(poly_ntt(factor'[3]), 3328)
    BY <2>4, PolyNttBound
  <2>6. Within(a[1], 3328) /\ Within(a[2], 3328) /\ Within(b[1], 3328) /\ Within(b[2], 3328)
    BY <2>3, <2>5
  <2> HIDE DEF a, b
  <2>7. Within(r', 13312)
    BY <2>1, <2>6, AccumulateBound
  <2> QED
    BY <2>1, <2>2, <2>7 DEF TransformInv
<1>8. CASE ReduceSum
  <2>1. pc = "sum" /\ Within(r, Limit) /\ r' = poly_reduce(r) /\ pc' = "invntt" /\ len' = 2
    BY <1>8 DEF TransformInv, ReduceSum
  <2>2. Limit = 13312 /\ Limit' = 3328
    BY <2>1 DEF Limit
  <2>3. \A j \in Index : r[j] \in Int16
    BY <2>1, <2>2, SMT DEF Within, Int16
  <2> QED
    BY <2>1, <2>2, <2>3, ReduceBound DEF TransformInv, Lens
<1>5. CASE Backward
  <2>1. len \in Lens /\ pc = "invntt" /\ Within(r, Limit) /\ r' = InvLayer(r, len)
        /\ len' = 2 * len /\ pc' = (IF len = 128 THEN "scale" ELSE "invntt")
    BY <1>5 DEF TransformInv, Backward
  <2>2. /\ Limit = 3328 /\ Limit' = 3328
        /\ pc' = "invntt" => len' \in Lens
        /\ pc' \in {"invntt", "scale"}
    BY <2>1 DEF Lens, Limit
  <2>3. Within(r', 3328)
    BY <2>1, <2>2, InvLayerBound
  <2> QED
    BY <2>2, <2>3 DEF TransformInv
<1>6. CASE Scale
  <2>1. pc = "scale" /\ Within(r, Limit) /\ r' = InvScale(r) /\ pc' = "done"
    BY <1>6 DEF TransformInv, Scale
  <2>2. Limit = 3328 /\ Limit' = 3328
    BY <2>1 DEF Limit
  <2> QED
    BY <2>1, <2>2, ScaleBound DEF TransformInv
<1>7. CASE UNCHANGED vars
  BY <1>7 DEF TransformInv, vars, Limit, Within
<1> QED
  BY <1>1, <1>2, <1>3, <1>4, <1>5, <1>6, <1>7, <1>8 DEF Next

\* The transform and its inverse never wrap, whatever polynomials they are given.
THEOREM TransformNeverWraps == Spec => []NoWrap
<1>1. TransformInv => NoWrap
  BY DEF TransformInv, Within, NoWrap
<1> QED
  BY <1>1, TransformStart, TransformStep, PTL DEF Spec

----------------------------------------------------------------------------
(* Congruence modulo q.                                                     *)

Same(x, y) == (x - y) % KYBER_Q = 0

\* They are k times q apart.
Apart(x, y, k) == k \in Int /\ x = y + 3329 * k

\* Congruence modulo q is a multiple of q apart.
LEMMA SameIs ==
  ASSUME NEW x \in Int, NEW y \in Int
  PROVE  Same(x, y) <=> \E k : Apart(x, y, k)
<1>1. /\ x - y = 3329 * ((x - y) \div 3329) + ((x - y) % 3329)
      /\ (x - y) \div 3329 \in Int
  BY SMT
<1>2. ASSUME NEW k \in Int, x = y + 3329 * k PROVE (x - y) % 3329 = 0
  BY <1>2, SMT
<1>3. ASSUME (x - y) % 3329 = 0 PROVE \E k : Apart(x, y, k)
  <2> DEFINE m == (x - y) \div 3329
  <2>1. m \in Int /\ x = y + 3329 * m
    BY <1>1, <1>3
  <2>2. Apart(x, y, m)
    BY <2>1 DEF Apart
  <2> QED
    BY <2>2
<1>4. ASSUME NEW k, Apart(x, y, k) PROVE (x - y) % 3329 = 0
  BY <1>2, <1>4 DEF Apart
<1> QED
  BY <1>3, <1>4 DEF Same, KYBER_Q

\* Congruence is reflexive,
LEMMA SameRefl ==
  ASSUME NEW x \in Int
  PROVE  Same(x, x)
<1> DEFINE m == 0
<1>1. Apart(x, x, m)
  BY DEF Apart
<1> HIDE DEF m
<1> QED
  BY <1>1, SameIs

\* symmetric
LEMMA SameSym ==
  ASSUME NEW x \in Int, NEW y \in Int, Same(x, y)
  PROVE  Same(y, x)
<1>1. PICK k : Apart(x, y, k)
  BY SameIs
<1> DEFINE m == 0 - k
<1>2. Apart(y, x, m)
  BY <1>1 DEF Apart
<1> HIDE DEF m
<1> QED
  BY <1>2, SameIs

\* and transitive;
LEMMA SameTrans ==
  ASSUME NEW x \in Int, NEW y \in Int, NEW z \in Int, Same(x, y), Same(y, z)
  PROVE  Same(x, z)
<1>1. PICK k : Apart(x, y, k)
  BY SameIs
<1>2. PICK l : Apart(y, z, l)
  BY SameIs
<1> DEFINE m == k + l
<1>3. Apart(x, z, m)
  BY <1>1, <1>2 DEF Apart
<1> HIDE DEF m
<1> QED
  BY <1>3, SameIs

\* it goes with sums and differences,
LEMMA SameSum ==
  ASSUME NEW x \in Int, NEW y \in Int, NEW u \in Int, NEW v \in Int, Same(x, y), Same(u, v)
  PROVE  Same(x + u, y + v) /\ Same(x - u, y - v)
<1>1. PICK k : Apart(x, y, k)
  BY SameIs
<1>2. PICK l : Apart(u, v, l)
  BY SameIs
<1> DEFINE p == x + u
           m == x - u
           r1 == y + v
           r2 == y - v
           k1 == k + l
           k2 == k - l
<1>3. /\ Apart(p, r1, k1) /\ p \in Int /\ r1 \in Int
      /\ Apart(m, r2, k2) /\ m \in Int /\ r2 \in Int
  BY <1>1, <1>2 DEF Apart
<1>4. Same(p, r1) /\ Same(m, r2)
  <2> HIDE DEF p, m, r1, r2, k1, k2
  <2> QED
    BY <1>3, SameIs
<1> QED
  BY <1>4

\* with a common factor
LEMMA SameTimes ==
  ASSUME NEW x \in Int, NEW y \in Int, NEW z \in Int, Same(x, y)
  PROVE  Same(z * x, z * y)
<1>1. PICK k : Apart(x, y, k)
  BY SameIs
<1> DEFINE p == z * x
           s == z * y
           m == z * k
<1>2. Apart(p, s, m) /\ p \in Int /\ s \in Int
  BY <1>1 DEF Apart
<1>3. Same(p, s)
  <2> HIDE DEF p, s, m
  <2> QED
    BY <1>2, SameIs
<1> QED
  BY <1>3

\* and with products.
LEMMA SameProduct ==
  ASSUME NEW x \in Int, NEW y \in Int, NEW u \in Int, NEW v \in Int, Same(x, y), Same(u, v)
  PROVE  Same(x * u, y * v)
<1>1. x * u \in Int /\ y * u \in Int /\ y * v \in Int /\ u * x = x * u /\ u * y = y * u
  OBVIOUS
<1>2. Same(x * u, y * u)
  BY <1>1, SameTimes
<1>3. Same(y * u, y * v)
  BY SameTimes
<1> QED
  BY <1>1, <1>2, <1>3, SameTrans

\* 169 is 1 / 2^16.
LEMMA SameMont ==
  ASSUME NEW x \in Int
  PROVE  Same(169 * (65536 * x), x) /\ Same(65536 * (169 * x), x)
<1> DEFINE p == 169 * (65536 * x)
           s == 65536 * (169 * x)
           m == 3327 * x
<1>1. Apart(p, x, m) /\ Apart(s, x, m) /\ p \in Int /\ s \in Int
  BY DEF Apart
<1>2. Same(p, x) /\ Same(s, x)
  <2> HIDE DEF p, s, m
  <2> QED
    BY <1>1, SameIs
<1> QED
  BY <1>2


\* 2^16 is invertible modulo q.
LEMMA SameCancel ==
  ASSUME NEW x \in Int, NEW y \in Int, Same(65536 * x, 65536 * y)
  PROVE  Same(x, y)
<1> DEFINE p == 65536 * x
           s == 65536 * y
           p1 == 169 * p
           s1 == 169 * s
<1>1. p \in Int /\ s \in Int /\ p1 \in Int /\ s1 \in Int /\ Same(p, s)
  OBVIOUS
<1>2. Same(p1, x) /\ Same(s1, y)
  BY SameMont
<1>3. Same(p1, s1)
  <2> HIDE DEF p, s
  <2> QED
    BY <1>1, SameTimes
<1> HIDE DEF p1, s1
<1>4. Same(x, p1)
  BY <1>1, <1>2, SameSym
<1>5. Same(x, s1)
  BY <1>1, <1>3, <1>4, SameTrans
<1> QED
  BY <1>1, <1>2, <1>5, SameTrans

\* barrett_reduce and fqmul compute modulo q.
LEMMA BarrettSame ==
  ASSUME NEW a \in Int16
  PROVE  barrett_reduce(a) \in Int /\ Same(barrett_reduce(a), a)
<1> DEFINE b == barrett_reduce(a)
<1>1. b \in Int /\ \E k \in Int : b = a - 3329 * k
  BY Barrett
<1> HIDE DEF b
<1>2. PICK k \in Int : b = a - 3329 * k
  BY <1>1
<1> DEFINE m == 0 - k
<1>3. Apart(b, a, m) /\ a \in Int
  BY <1>2 DEF Apart, Int16
<1>4. Same(b, a)
  BY <1>1, <1>3, SameIs
<1> QED
  BY <1>1, <1>4 DEF b

\* 2^16 times what fqmul gives is the product.
LEMMA FqmulSame ==
  ASSUME NEW a \in Coefficient, NEW b \in Int16
  PROVE  fqmul(a, b) \in Int /\ Same(65536 * fqmul(a, b), a * b)
<1> DEFINE f == fqmul(a, b)
           p == a * b
           t == 65536 * f
<1>1. f \in Coefficient /\ \E k \in Int : t = p - 3329 * k
  BY FqmulBound
<1>2. f \in Int /\ t \in Int /\ p \in Int
  <2>1. f \in Int /\ a \in Int /\ b \in Int
    BY <1>1 DEF Coefficient, Int16
  <2> HIDE DEF f
  <2> QED
    BY <2>1
<1> HIDE DEF t, p
<1>3. PICK k \in Int : t = p - 3329 * k
  BY <1>1
<1> DEFINE m == 0 - k
<1>4. Apart(t, p, m)
  BY <1>2, <1>3 DEF Apart
<1>5. Same(t, p)
  BY <1>2, <1>4, SameIs
<1> QED
  BY <1>2, <1>5 DEF t, p

\* A factor 2^16 p is the factor p for fqmul.
LEMMA FqmulPower ==
  ASSUME NEW z \in Coefficient, NEW x \in Int16, NEW p \in Int, Same(z, 65536 * p)
  PROVE  fqmul(z, x) \in Int /\ Same(fqmul(z, x), p * x)
<1> DEFINE f == fqmul(z, x)
           t == 65536 * f
           a == z * x
           y == 65536 * p
           b == y * x
           c == p * x
<1>1. f \in Int /\ Same(t, a)
  BY FqmulSame
<1>2. z \in Int /\ x \in Int
  BY DEF Coefficient, Int16
<1> HIDE DEF f
<1>3. t \in Int /\ a \in Int /\ y \in Int /\ b \in Int /\ c \in Int /\ b = 65536 * c
  BY <1>1, <1>2
<1>4. Same(a, b)
  <2>1. Same(z, y) /\ Same(x, x)
    BY <1>2, SameRefl
  <2> HIDE DEF y
  <2> QED
    BY <1>2, <1>3, <2>1, SameProduct
<1>5. Same(t, b)
  <2> HIDE DEF t, a, b
  <2> QED
    BY <1>1, <1>3, <1>4, SameTrans
<1>6. Same(65536 * f, 65536 * c)
  <2> HIDE DEF b, c
  <2> QED
    BY <1>3, <1>5
<1> HIDE DEF c
<1>7. Same(f, c)
  BY <1>1, <1>3, <1>6, SameCancel
<1> QED
  BY <1>1, <1>7 DEF f, c


----------------------------------------------------------------------------
(* Sums.                                                                    *)

\* A set of numbers with 0 and every successor holds them all.
LEMMA Induction ==
  ASSUME NEW X \in SUBSET Nat, 0 \in X, \A n \in X : n + 1 \in X
  PROVE  \A n \in Nat : n \in X
  <1> SUFFICES ASSUME Nat \ X # {} PROVE FALSE
    OBVIOUS
  <1> DEFINE C == Nat \ X
             Below == OpToRel(<, Nat)
  <1>1. \A x, y \in Nat : x < y => <<x, y>> \in Below
    BY DEF OpToRel
  <1>2. IsWellFoundedOn(Below, Nat)
    BY NatLessThanWellFounded
  <1>3. C \in SUBSET Nat /\ C # {}
    OBVIOUS
  <1>4. \A n \in C : n \in Nat /\ n # 0 /\ n - 1 \in C
    OBVIOUS
  <1> HIDE DEF C, Below
  <1>5. PICK m \in C : \A i \in C : ~(<<i, m>> \in Below)
    BY <1>2, <1>3, WFMin
  <1>6. m \in Nat /\ m - 1 \in Nat /\ m - 1 \in C /\ m - 1 < m
    BY <1>3, <1>4
  <1> QED
    BY <1>1, <1>5, <1>6

\* A sequence without an end that is defined by its first value and by its turns.
LEMMA Recursion ==
  \A S : \A A \in S : \A G \in [Nat -> [S -> S]] :
    \E f \in [Nat -> S] : f[0] = A /\ \A j \in Nat : f[j + 1] = G[j][f[j]]
  <1> SUFFICES ASSUME NEW S, NEW A \in S, NEW G \in [Nat -> [S -> S]]
               PROVE  \E f \in [Nat -> S] : f[0] = A /\ \A j \in Nat : f[j + 1] = G[j][f[j]]
    OBVIOUS
  <1> DEFINE Record(k, f) == /\ f \in [0 .. k -> S] /\ f[0] = A
                             /\ \A j \in Nat : j < k => f[j + 1] = G[j][f[j]]
             X == {k \in Nat : \E f : Record(k, f)}
  <1>1. 0 \in X
    <2>1. Record(0, [j \in 0 .. 0 |-> A])
      OBVIOUS
    <2> QED
      BY <2>1
  <1>2. ASSUME NEW k \in X PROVE k + 1 \in X
    <2>1. PICK f : Record(k, f)
      OBVIOUS
    <2> DEFINE g == [j \in 0 .. k + 1 |-> IF j = k + 1 THEN G[k][f[k]] ELSE f[j]]
    <2>2. G[k][f[k]] \in S
      BY <2>1
    <2>3. g \in [0 .. k + 1 -> S] /\ g[0] = A
      BY <2>1, <2>2
    <2>4. ASSUME NEW j \in Nat, j < k + 1 PROVE g[j + 1] = G[j][g[j]]
      <3>1. j + 1 \in 0 .. k + 1 /\ j \in 0 .. k + 1 /\ j # k + 1
        BY <2>4
      <3>2. g[j] = f[j]
        BY <3>1
      <3>3. CASE j = k
        <4>1. j + 1 = k + 1
          BY <3>3
        <4>2. g[j + 1] = G[k][f[k]]
          BY <3>1, <4>1
        <4> QED
          BY <3>2, <3>3, <4>2
      <3>4. CASE j < k
        <4>1. g[j + 1] = f[j + 1]
          BY <3>1, <3>4
        <4> QED
          BY <2>1, <3>2, <3>4, <4>1
      <3> QED
        BY <2>4, <3>3, <3>4
    <2>5. Record(k + 1, g)
      <3> HIDE DEF g
      <3> QED
        BY <2>3, <2>4
    <2>6. \E h : Record(k + 1, h)
      <3> HIDE DEF Record
      <3> QED
        BY <2>5
    <2> QED
      <3> HIDE DEF Record
      <3> QED
        BY <2>6
  <1>3. \A k \in Nat : \E f : Record(k, f)
    <2>1. X \in SUBSET Nat
      OBVIOUS
    <2>2. \A k \in Nat : k \in X
      <3> HIDE DEF X
      <3> QED
        BY <1>1, <1>2, <2>1, Induction
    <2> QED
      BY <2>2
  <1>4. ASSUME NEW k \in Nat, NEW l \in Nat, NEW f, NEW g, Record(k, f), Record(l, g)
        PROVE  \A j \in Nat : j <= k /\ j <= l => f[j] = g[j]
    <2> DEFINE Y == {j \in Nat : j <= k /\ j <= l => f[j] = g[j]}
    <2>1. Y \in SUBSET Nat /\ 0 \in Y
      BY <1>4
    <2>2. ASSUME NEW j \in Y PROVE j + 1 \in Y
      <3> SUFFICES ASSUME j + 1 <= k, j + 1 <= l PROVE f[j + 1] = g[j + 1]
        BY <2>1
      <3>1. j \in Nat /\ j < k /\ j < l /\ f[j] = g[j]
        BY <2>1
      <3>2. f[j + 1] = G[j][f[j]] /\ g[j + 1] = G[j][g[j]]
        BY <1>4, <3>1
      <3> QED
        BY <3>1, <3>2
    <2>3. \A j \in Nat : j \in Y
      <3> HIDE DEF Y
      <3> QED
        BY <2>1, <2>2, Induction
    <2> QED
      BY <2>3
  <1> DEFINE To(k) == CHOOSE f : Record(k, f)
             F == [k \in Nat |-> To(k)[k]]
  <1>5. \A k \in Nat : Record(k, To(k))
    <2> HIDE DEF Record
    <2> QED
      BY <1>3
  <1> HIDE DEF To
  <1>6. F \in [Nat -> S] /\ F[0] = A
    BY <1>5
  <1>7. ASSUME NEW j \in Nat PROVE F[j + 1] = G[j][F[j]]
    <2>1. To(j + 1)[j + 1] = G[j][To(j + 1)[j]]
      BY <1>5
    <2>2. To(j + 1)[j] = To(j)[j]
      <3> HIDE DEF Record
      <3> QED
        BY <1>4, <1>5
    <2> QED
      BY <2>1, <2>2
  <1> QED
    BY <1>6, <1>7

\* f[0] + .. + f[n - 1] at place n.
Total(f) == CHOOSE s \in [Nat -> Int] : s[0] = 0 /\ \A n \in Nat : s[n + 1] = s[n] + f[n]

\* Total(f)[n] is f[0] + .. + f[n - 1].
LEMMA TotalIs ==
  ASSUME NEW f \in [Nat -> Int]
  PROVE  /\ Total(f) \in [Nat -> Int]
         /\ Total(f)[0] = 0
         /\ \A n \in Nat : Total(f)[n + 1] = Total(f)[n] + f[n]
<1> DEFINE G == [n \in Nat |-> [x \in Int |-> x + f[n]]]
<1>1. G \in [Nat -> [Int -> Int]]
  OBVIOUS
<1>2. \A n \in Nat : \A x \in Int : G[n][x] = x + f[n]
  OBVIOUS
<1> HIDE DEF G
<1>3. 0 \in Int
  OBVIOUS
<1>4. PICK s \in [Nat -> Int] : s[0] = 0 /\ \A n \in Nat : s[n + 1] = G[n][s[n]]
  <2> DEFINE S == Int
  <2>1. \A A \in S : \A F \in [Nat -> [S -> S]] :
          \E g \in [Nat -> S] : g[0] = A /\ \A n \in Nat : g[n + 1] = F[n][g[n]]
    <3> HIDE DEF S
    <3> QED
      BY Recursion, SMTT(30)
  <2> QED
    BY <1>1, <1>3, <2>1
<1>5. \A n \in Nat : s[n + 1] = s[n] + f[n]
  BY <1>2, <1>4
<1> QED
  BY <1>4, <1>5 DEF Total

\* Terms that are congruent have congruent sums.
Alike(f, g, n) == \A i \in Nat : i < n => Same(f[i], g[i])

\* Congruent summands have congruent sums.
LEMMA TotalSame ==
  ASSUME NEW f \in [Nat -> Int], NEW g \in [Nat -> Int], NEW n \in Nat, Alike(f, g, n)
  PROVE  Same(Total(f)[n], Total(g)[n])
<1> DEFINE X == {m \in Nat : m <= n => Same(Total(f)[m], Total(g)[m])}
<1>1. X \in SUBSET Nat
  OBVIOUS
<1>2. 0 \in X
  BY TotalIs, SameRefl
<1>3. ASSUME NEW m \in X PROVE m + 1 \in X
  <2> SUFFICES ASSUME m + 1 <= n PROVE Same(Total(f)[m + 1], Total(g)[m + 1])
    OBVIOUS
  <2>1. Same(Total(f)[m], Total(g)[m]) /\ m \in Nat
    OBVIOUS
  <2>2. Same(f[m], g[m])
    BY <2>1 DEF Alike
  <2>3. Total(f)[m] \in Int /\ Total(g)[m] \in Int /\ f[m] \in Int /\ g[m] \in Int
    BY <2>1, TotalIs
  <2>4. Same(Total(f)[m] + f[m], Total(g)[m] + g[m])
    BY <2>1, <2>2, <2>3, SameSum
  <2> QED
    BY <2>1, <2>4, TotalIs
<1>4. \A m \in Nat : m \in X
  <2> HIDE DEF X
  <2> QED
    BY <1>1, <1>2, <1>3, Induction
<1> QED
  BY <1>4

\* h is the sum of f and g.
Adds(h, f, g, n) == \A i \in Nat : i < n => h[i] = f[i] + g[i]

\* The sum of the sums of two sequences.
LEMMA TotalAdds ==
  ASSUME NEW h \in [Nat -> Int], NEW f \in [Nat -> Int], NEW g \in [Nat -> Int], NEW n \in Nat,
         Adds(h, f, g, n)
  PROVE  Total(h)[n] = Total(f)[n] + Total(g)[n]
<1> DEFINE X == {m \in Nat : m <= n => Total(h)[m] = Total(f)[m] + Total(g)[m]}
<1>1. X \in SUBSET Nat
  OBVIOUS
<1>2. 0 \in X
  BY TotalIs
<1>3. ASSUME NEW m \in X PROVE m + 1 \in X
  <2> SUFFICES ASSUME m + 1 <= n PROVE Total(h)[m + 1] = Total(f)[m + 1] + Total(g)[m + 1]
    OBVIOUS
  <2>1. Total(h)[m] = Total(f)[m] + Total(g)[m] /\ m \in Nat
    OBVIOUS
  <2>2. h[m] = f[m] + g[m]
    BY <2>1 DEF Adds
  <2>3. /\ Total(h)[m] \in Int /\ Total(f)[m] \in Int /\ Total(g)[m] \in Int
        /\ h[m] \in Int /\ f[m] \in Int /\ g[m] \in Int
    BY <2>1, TotalIs
  <2>4. /\ Total(h)[m + 1] = Total(h)[m] + h[m]
        /\ Total(f)[m + 1] = Total(f)[m] + f[m]
        /\ Total(g)[m + 1] = Total(g)[m] + g[m]
    BY <2>1, TotalIs
  <2> QED
    BY <2>1, <2>2, <2>3, <2>4
<1>4. \A m \in Nat : m \in X
  <2> HIDE DEF X
  <2> QED
    BY <1>1, <1>2, <1>3, Induction
<1> QED
  BY <1>4

\* h is z times f.
Scales(h, z, f, n) == \A i \in Nat : i < n => h[i] = z * f[i]

\* A common factor of the summands.
LEMMA TotalScales ==
  ASSUME NEW h \in [Nat -> Int], NEW z \in Int, NEW f \in [Nat -> Int], NEW n \in Nat,
         Scales(h, z, f, n)
  PROVE  Total(h)[n] = z * Total(f)[n]
<1> DEFINE X == {m \in Nat : m <= n => Total(h)[m] = z * Total(f)[m]}
<1>1. X \in SUBSET Nat
  OBVIOUS
<1>2. 0 \in X
  <2>1. Total(h)[0] = 0 /\ Total(f)[0] = 0
    BY TotalIs, Zenon
  <2> QED
    BY <2>1
<1>3. ASSUME NEW m \in X PROVE m + 1 \in X
  <2> SUFFICES ASSUME m + 1 <= n PROVE Total(h)[m + 1] = z * Total(f)[m + 1]
    OBVIOUS
  <2>1. Total(h)[m] = z * Total(f)[m] /\ m \in Nat
    OBVIOUS
  <2>2. h[m] = z * f[m]
    BY <2>1 DEF Scales
  <2>3. Total(h)[m] \in Int /\ Total(f)[m] \in Int /\ h[m] \in Int /\ f[m] \in Int
    BY <2>1, TotalIs
  <2>4. Total(h)[m + 1] = Total(h)[m] + h[m] /\ Total(f)[m + 1] = Total(f)[m] + f[m]
    BY <2>1, TotalIs
  <2> DEFINE a == Total(f)[m]
             b == f[m]
  <2>5. a \in Int /\ b \in Int /\ Total(h)[m + 1] = z * a + z * b /\ Total(f)[m + 1] = a + b
    BY <2>1, <2>2, <2>3, <2>4
  <2> HIDE DEF a, b
  <2>6. z * (a + b) = z * a + z * b
    BY <2>5
  <2> QED
    BY <2>5, <2>6
<1>4. \A m \in Nat : m \in X
  <2> HIDE DEF X
  <2> QED
    BY <1>1, <1>2, <1>3, Induction
<1> QED
  BY <1>4

\* h adds the neighbours of f.
Joins(h, f, n) == \A i \in Nat : i < n => h[i] = f[2 * i] + f[2 * i + 1]

\* Adding the neighbours first does not change a sum.
LEMMA TotalJoins ==
  ASSUME NEW h \in [Nat -> Int], NEW f \in [Nat -> Int], NEW n \in Nat, Joins(h, f, n)
  PROVE  Total(h)[n] = Total(f)[2 * n]
<1> DEFINE X == {m \in Nat : m <= n => Total(h)[m] = Total(f)[2 * m]}
<1>1. X \in SUBSET Nat
  OBVIOUS
<1>2. 0 \in X
  BY TotalIs
<1>3. ASSUME NEW m \in X PROVE m + 1 \in X
  <2> SUFFICES ASSUME m + 1 <= n PROVE Total(h)[m + 1] = Total(f)[2 * (m + 1)]
    OBVIOUS
  <2>1. Total(h)[m] = Total(f)[2 * m] /\ m \in Nat /\ 2 * m \in Nat /\ 2 * m + 1 \in Nat
    OBVIOUS
  <2>2. h[m] = f[2 * m] + f[2 * m + 1]
    BY <2>1 DEF Joins
  <2>3. /\ Total(h)[m] \in Int /\ Total(f)[2 * m] \in Int
        /\ f[2 * m] \in Int /\ f[2 * m + 1] \in Int
    BY <2>1, TotalIs
  <2>4. /\ Total(h)[m + 1] = Total(h)[m] + h[m]
        /\ Total(f)[2 * m + 1] = Total(f)[2 * m] + f[2 * m]
        /\ Total(f)[(2 * m + 1) + 1] = Total(f)[2 * m + 1] + f[2 * m + 1]
    BY <2>1, TotalIs
  <2>5. (2 * m + 1) + 1 = 2 * (m + 1)
    BY <2>1
  <2> QED
    BY <2>1, <2>2, <2>3, <2>4, <2>5
<1>4. \A m \in Nat : m \in X
  <2> HIDE DEF X
  <2> QED
    BY <1>1, <1>2, <1>3, Induction
<1> QED
  BY <1>4


\* The sum of the terms at even and at odd places.
Splits(f, e, o, n) == \A i \in Nat : i < n => f[2 * i] = e[i] /\ f[2 * i + 1] = o[i]

\* The summands at even and at odd places.
LEMMA TotalSplits ==
  ASSUME NEW f \in [Nat -> Int], NEW e \in [Nat -> Int], NEW o \in [Nat -> Int], NEW n \in Nat,
         Splits(f, e, o, n)
  PROVE  Total(f)[2 * n] = Total(e)[n] + Total(o)[n]
<1> DEFINE h == [i \in Nat |-> f[2 * i] + f[2 * i + 1]]
<1>1. h \in [Nat -> Int]
  OBVIOUS
<1>2. Joins(h, f, n) /\ Adds(h, e, o, n)
  BY DEF Joins, Adds, Splits
<1> HIDE DEF h
<1> QED
  BY <1>1, <1>2, TotalJoins, TotalAdds

\* The sum of sums in the other order.
Rows(F, m) == [i \in Nat |-> Total(F[i])[m]]
Column(F, j) == [i \in Nat |-> F[i][j]]
Columns(F, n) == [j \in Nat |-> Total(Column(F, j))[n]]

\* A table is summed up by rows or by columns.
LEMMA TotalSwap ==
  ASSUME NEW F \in [Nat -> [Nat -> Int]], NEW m \in Nat, NEW n \in Nat
  PROVE  /\ Rows(F, m) \in [Nat -> Int] /\ Columns(F, n) \in [Nat -> Int]
         /\ Total(Rows(F, m))[n] = Total(Columns(F, n))[m]
<1>1. Rows(F, m) \in [Nat -> Int] /\ \A i \in Nat : Rows(F, m)[i] = Total(F[i])[m]
  BY TotalIs DEF Rows
<1>2. \A j \in Nat : Column(F, j) \in [Nat -> Int] /\ \A i \in Nat : Column(F, j)[i] = F[i][j]
  BY DEF Column
<1>3. ASSUME NEW k \in Nat
      PROVE  Columns(F, k) \in [Nat -> Int] /\ \A j \in Nat : Columns(F, k)[j] = Total(Column(F, j))[k]
  BY <1>2, TotalIs DEF Columns
<1> DEFINE X == {k \in Nat : Total(Rows(F, m))[k] = Total(Columns(F, k))[m]}
<1>4. X \in SUBSET Nat
  OBVIOUS
<1>5. 0 \in X
  <2> DEFINE z == 0
             c == Columns(F, 0)
  <2>1. c \in [Nat -> Int] /\ \A j \in Nat : c[j] = 0
    BY <1>2, <1>3, TotalIs, ZenonT(60)
  <2>2. z \in Int /\ Scales(c, z, c, m)
    BY <2>1 DEF Scales
  <2> HIDE DEF c
  <2>3. Total(c)[m] = z * Total(c)[m] /\ Total(c)[m] \in Int
    <3> HIDE DEF z
    <3> QED
      BY <2>1, <2>2, TotalScales, TotalIs
  <2>4. Total(c)[m] = 0
    BY <2>3
  <2>5. Total(Rows(F, m))[0] = 0
    BY <1>1, TotalIs
  <2> QED
    BY <2>4, <2>5 DEF c
<1>6. ASSUME NEW k \in X PROVE k + 1 \in X
  <2>1. k \in Nat /\ k + 1 \in Nat /\ F[k] \in [Nat -> Int]
        /\ Total(Rows(F, m))[k] = Total(Columns(F, k))[m]
    OBVIOUS
  <2>2. ASSUME NEW j \in Nat PROVE Columns(F, k + 1)[j] = Columns(F, k)[j] + F[k][j]
    <3>1. Columns(F, k + 1)[j] = Total(Column(F, j))[k + 1]
      BY <1>3, <2>1
    <3>2. Columns(F, k)[j] = Total(Column(F, j))[k]
      BY <1>3, <2>1
    <3>3. Total(Column(F, j))[k + 1] = Total(Column(F, j))[k] + Column(F, j)[k]
      BY <1>2, <2>1, TotalIs
    <3>4. Column(F, j)[k] = F[k][j]
      BY <1>2, <2>1
    <3> QED
      BY <3>1, <3>2, <3>3, <3>4
  <2>4. Total(Columns(F, k + 1))[m] = Total(Columns(F, k))[m] + Total(F[k])[m]
    <3> DEFINE a == Columns(F, k + 1)
               b == Columns(F, k)
               c == F[k]
    <3>1. a \in [Nat -> Int] /\ b \in [Nat -> Int] /\ c \in [Nat -> Int]
      BY <1>3, <2>1
    <3>2. Adds(a, b, c, m)
      BY <2>2 DEF Adds
    <3> HIDE DEF a, b, c
    <3>3. Total(a)[m] = Total(b)[m] + Total(c)[m]
      BY <3>1, <3>2, TotalAdds, SMTT(60)
    <3> QED
      BY <3>3 DEF a, b, c
  <2>5. Total(Rows(F, m))[k + 1] = Total(Rows(F, m))[k] + Total(F[k])[m]
    BY <1>1, <2>1, TotalIs
  <2> QED
    BY <2>1, <2>4, <2>5
<1>7. \A k \in Nat : k \in X
  <2> HIDE DEF X
  <2> QED
    BY <1>4, <1>5, <1>6, Induction
<1> QED
  BY <1>1, <1>3, <1>7

\* A tower of sums of neighbours.
Tower(s) == s \in [Nat -> [Nat -> Int]] /\ \A l \in Nat : s[l + 1] = Pairs(s[l])

\* The levels of SumOf end in the sum.
LEMMA TowerTotal ==
  ASSUME NEW s, Tower(s)
  PROVE  s[7][0] = Total(s[0])[128] /\ s[8][0] = Total(s[0])[256]
<1>1. ASSUME NEW l \in Nat, NEW n \in Nat PROVE Total(s[l + 1])[n] = Total(s[l])[2 * n]
  <2>1. s[l] \in [Nat -> Int] /\ s[l + 1] \in [Nat -> Int]
    BY DEF Tower
  <2>2. s[l + 1] = Pairs(s[l])
    BY DEF Tower
  <2>3. Joins(s[l + 1], s[l], n)
    BY <2>2 DEF Pairs, Joins
  <2> QED
    BY <2>1, <2>3, TotalJoins
<1>2. ASSUME NEW l \in Nat PROVE s[l][0] = Total(s[l])[1]
  <2>1. s[l] \in [Nat -> Int]
    BY DEF Tower
  <2>2. Total(s[l])[0 + 1] = Total(s[l])[0] + s[l][0] /\ Total(s[l])[0] = 0 /\ s[l][0] \in Int
    BY <2>1, TotalIs
  <2> QED
    BY <2>2
<1>3. ASSUME NEW n \in Nat PROVE Total(s[7])[n] = Total(s[0])[128 * n]
  <2>1. Total(s[7])[n] = Total(s[6])[2 * n] /\ 2 * n \in Nat
    BY <1>1
  <2>2. Total(s[6])[2 * n] = Total(s[5])[4 * n] /\ 4 * n \in Nat
    BY <1>1
  <2>3. Total(s[5])[4 * n] = Total(s[4])[8 * n] /\ 8 * n \in Nat
    BY <1>1
  <2>4. Total(s[4])[8 * n] = Total(s[3])[16 * n] /\ 16 * n \in Nat
    BY <1>1
  <2>5. Total(s[3])[16 * n] = Total(s[2])[32 * n] /\ 32 * n \in Nat
    BY <1>1
  <2>6. Total(s[2])[32 * n] = Total(s[1])[64 * n] /\ 64 * n \in Nat
    BY <1>1
  <2>7. Total(s[1])[64 * n] = Total(s[0])[128 * n]
    BY <1>1
  <2> QED
    BY <2>1, <2>2, <2>3, <2>4, <2>5, <2>6, <2>7
<1>4. s[7][0] = Total(s[0])[128 * 1]
  BY <1>2, <1>3
<1>5. s[8][0] = Total(s[7])[2 * 1]
  BY <1>1, <1>2
<1>6. Total(s[7])[2] = Total(s[0])[128 * 2]
  BY <1>3
<1> QED
  BY <1>4, <1>5, <1>6

\* f, and 0 outside its domain.
Padded(f) == [i \in Nat |-> IF i \in DOMAIN f THEN f[i] ELSE 0]

\* The sums of the properties are sums of the terms one after the other.
LEMMA SumOfIs ==
  ASSUME NEW f, Padded(f) \in [Nat -> Int]
  PROVE  SumOf(f, 7) = Total(Padded(f))[128] /\ SumOf(f, 8) = Total(Padded(f))[256]
<1> DEFINE S == [Nat -> Int]
           G == [n \in Nat |-> [x \in S |-> Pairs(x)]]
           A == Padded(f)
<1>1. \A x \in S : Pairs(x) \in S
  BY DEF Pairs
<1>2. A \in S /\ G \in [Nat -> [S -> S]] /\ \A n \in Nat : \A x \in S : G[n][x] = Pairs(x)
  <2> HIDE DEF S
  <2> QED
    BY <1>1 DEF S
<1>3. PICK s \in [Nat -> S] : s[0] = A /\ \A n \in Nat : s[n + 1] = G[n][s[n]]
  <2>1. \A a \in S : \A F \in [Nat -> [S -> S]] :
          \E g \in [Nat -> S] : g[0] = a /\ \A n \in Nat : g[n + 1] = F[n][g[n]]
    <3> HIDE DEF S
    <3> QED
      BY Recursion, SMTT(30)
  <2> HIDE DEF S, G, A
  <2> QED
    BY <1>2, <2>1
<1>4. Tower(s) /\ s[0] = A /\ \A n \in Nat : s[n + 1] = Pairs(s[n])
  <2> HIDE DEF S, G, A
  <2>1. \A n \in Nat : s[n] \in S
    BY <1>3
  <2>2. \A n \in Nat : s[n + 1] = Pairs(s[n])
    BY <1>2, <1>3, <2>1
  <2> QED
    BY <1>3, <2>2 DEF Tower, S
<1>5. ASSUME NEW k \in Nat PROVE SumOf(f, k) = s[k][0]
  <2> DEFINE V(v) == [l \in 0 .. k |-> IF l = 0 THEN Padded(f) ELSE Pairs(v[l - 1])]
             L == CHOOSE v : v = V(v)
             w == [l \in 0 .. k |-> s[l]]
  <2>1. SumOf(f, k) = L[k][0]
    BY DEF SumOf, Padded
  <2>2. w = V(w)
    <3>1. ASSUME NEW l \in 0 .. k PROVE s[l] = IF l = 0 THEN Padded(f) ELSE Pairs(w[l - 1])
      <4>1. CASE l = 0
        BY <1>4, <4>1 DEF A
      <4>2. CASE l # 0
        <5>1. l - 1 \in Nat /\ l - 1 \in 0 .. k /\ (l - 1) + 1 = l
          BY <4>2
        <5>2. s[(l - 1) + 1] = Pairs(s[l - 1])
          BY <1>4, <5>1
        <5>3. w[l - 1] = s[l - 1]
          BY <5>1
        <5> QED
          BY <4>2, <5>1, <5>2, <5>3
      <4> QED
        BY <4>1, <4>2
    <3> QED
      BY <3>1
  <2>3. L = V(L)
    <3> HIDE DEF V
    <3> QED
      BY <2>2
  <2> HIDE DEF L
  <2>4. L[0] = Padded(f) /\ \A l \in Nat : l < k => L[l + 1] = Pairs(L[l])
    <3>1. \A l \in 0 .. k : L[l] = V(L)[l]
      <4> HIDE DEF V
      <4> QED
        BY <2>3
    <3>2. ASSUME NEW l \in Nat, l < k PROVE L[l + 1] = Pairs(L[l])
      <4>1. l + 1 \in 0 .. k /\ l + 1 # 0 /\ (l + 1) - 1 = l
        BY <3>2
      <4> QED
        BY <3>1, <4>1
    <3> QED
      BY <3>1, <3>2
  <2> HIDE DEF V
  <2> DEFINE X == {l \in Nat : l <= k => L[l] = s[l]}
  <2>5. X \in SUBSET Nat
    OBVIOUS
  <2>6. 0 \in X
    BY <1>4, <2>4 DEF A
  <2>7. \A l \in X : l + 1 \in X
    BY <1>4, <2>4
  <2>8. \A l \in Nat : l \in X
    <3> HIDE DEF X
    <3> QED
      BY <2>5, <2>6, <2>7, Induction
  <2> QED
    BY <2>1, <2>8
<1>6. SumOf(f, 7) = s[7][0] /\ SumOf(f, 8) = s[8][0]
  BY <1>5
<1>7. s[7][0] = Total(A)[128] /\ s[8][0] = Total(A)[256]
  <2> HIDE DEF A
  <2> QED
    BY <1>4, TowerTotal
<1> QED
  BY <1>6, <1>7


----------------------------------------------------------------------------
(* The powers of 17.                                                        *)

\* The power n from the power n \div 2.
Doubled(h, n) == (h * h * (IF n % 2 = 0 THEN 1 ELSE 17)) % KYBER_Q

\* Halving the exponent: the square of the half, and 17 once more if it is odd.
LEMMA DoubledIs ==
  ASSUME NEW h \in Int, NEW n \in Nat
  PROVE  Doubled(h, n) \in Int /\ Same(Doubled(h, n), (IF n % 2 = 0 THEN 1 ELSE 17) * (h * h))
<1> DEFINE c == IF n % 2 = 0 THEN 1 ELSE 17
           s == h * h
           x == c * s
           y == h * h * c
           k == 0 - (x \div 3329)
<1>1. c \in Int /\ s \in Int /\ x \in Int /\ y = x
  OBVIOUS
<1>2. Doubled(h, n) = x % 3329
  BY <1>1 DEF Doubled, KYBER_Q
<1> HIDE DEF c, s, x, y
<1>3. x % 3329 \in Int /\ Apart(x % 3329, x, k)
  BY <1>1 DEF Apart
<1>4. Same(x % 3329, x)
  <2> HIDE DEF k
  <2> QED
    BY <1>1, <1>3, SameIs, SMTT(30)
<1> QED
  BY <1>2, <1>3, <1>4 DEF x, c, s

\* Powers is what its recursion says.
LEMMA PowersAre ==
  /\ Powers[0] = 1
  /\ \A n \in 1 .. 255 : Powers[n] = Doubled(Powers[n \div 2], n)
<1> DEFINE B(v) == [n \in 0 .. 255 |-> IF n = 0 THEN 1 ELSE Doubled(v[n \div 2], n)]
           v0 == [n \in 0 .. 255 |-> 1]
           v1 == B(v0)
           v2 == B(v1)
           v3 == B(v2)
           v4 == B(v3)
           v5 == B(v4)
           v6 == B(v5)
           v7 == B(v6)
           v8 == B(v7)
           v9 == B(v8)
           Agree(u, v, k) == \A n \in 0 .. 255 : n < k => u[n] = v[n]
<1>1. ASSUME NEW u, NEW v, NEW k \in Nat, Agree(u, v, k) PROVE Agree(B(u), B(v), 2 * k)
  <2> SUFFICES ASSUME NEW n \in 0 .. 255, n < 2 * k PROVE B(u)[n] = B(v)[n]
    OBVIOUS
  <2>1. n \div 2 \in 0 .. 255 /\ n \div 2 < k
    OBVIOUS
  <2>2. u[n \div 2] = v[n \div 2]
    BY <1>1, <2>1, SMTT(30)
  <2> QED
    BY <2>2, SMTT(30)
<1>2. Agree(v1, v0, 1)
  <2> SUFFICES ASSUME NEW n \in 0 .. 255, n < 1 PROVE v1[n] = v0[n]
    OBVIOUS
  <2>1. n = 0
    OBVIOUS
  <2> QED
    BY <2>1 DEF v0
<1>3. v9 = v8
  <2> DEFINE Like(u, v, k) == Agree(u, v, k)
  <2>1. \A u, v : \A k \in Nat : Like(u, v, k) => Like(B(u), B(v), 2 * k)
    BY <1>1, ZenonT(30)
  <2>2. Like(v1, v0, 1)
    BY <1>2, SMTT(30)
  <2>3. \A u, v : Like(B(u), B(v), 256) => B(u) = B(v)
    <3> SUFFICES ASSUME NEW u, NEW v, Agree(B(u), B(v), 256) PROVE B(u) = B(v)
      OBVIOUS
    <3>1. \A n \in 0 .. 255 : B(u)[n] = B(v)[n]
      <4> HIDE DEF B
      <4> QED
        BY SMTT(30)
    <3> QED
      BY <3>1, ZenonT(60)
  <2> HIDE DEF Like, v0, B, Agree
  <2>4. Like(v2, v1, 2)
    BY <2>1, <2>2
  <2>5. Like(v3, v2, 4)
    BY <2>1, <2>4
  <2>6. Like(v4, v3, 8)
    BY <2>1, <2>5
  <2>7. Like(v5, v4, 16)
    BY <2>1, <2>6
  <2>8. Like(v6, v5, 32)
    BY <2>1, <2>7
  <2>9. Like(v7, v6, 64)
    BY <2>1, <2>8
  <2>10. Like(v8, v7, 128)
    BY <2>1, <2>9
  <2>11. Like(v9, v8, 256)
    BY <2>1, <2>10
  <2> HIDE DEF v7
  <2> QED
    BY <2>3, <2>11
<1> DEFINE P == CHOOSE v : v = B(v)
<1>4. P = B(P)
  <2> HIDE DEF B, v8
  <2>1. v9 = B(v8)
    OBVIOUS
  <2> HIDE DEF v9
  <2>2. v8 = B(v8)
    BY <1>3, <2>1, ZenonT(30)
  <2> QED
    BY <2>2
<1>5. Powers = P
  <2> HIDE DEF v0, v1, v2, v3, v4, v5, v6, v7, v8, v9
  <2> QED
    BY ZenonT(30) DEF Powers, Computed, Doubled
<1> HIDE DEF P, v0, v1, v2, v3, v4, v5, v6, v7, v8, v9
<1> QED
  <2>1. Powers = B(Powers)
    BY <1>4, <1>5, Zenon
  <2>2. \A n \in 0 .. 255 : Powers[n] = IF n = 0 THEN 1 ELSE Doubled(Powers[n \div 2], n)
    BY <2>1, ZenonT(60)
  <2> HIDE DEF B
  <2>3. 0 \in 0 .. 255 /\ \A n \in 1 .. 255 : n \in 0 .. 255 /\ n # 0
    OBVIOUS
  <2> QED
    BY <2>2, <2>3, ZenonT(60)


\* Its values are integers.
LEMMA PowersType == \A n \in 0 .. 255 : Powers[n] \in Int
<1> DEFINE X == {m \in Nat : \A n \in 0 .. 255 : n < m => Powers[n] \in Int}
<1>1. X \in SUBSET Nat /\ 0 \in X
  OBVIOUS
<1>2. ASSUME NEW m \in X PROVE m + 1 \in X
  <2> SUFFICES ASSUME NEW n \in 0 .. 255, n < m + 1 PROVE Powers[n] \in Int
    OBVIOUS
  <2>1. CASE n = 0
    BY <2>1, PowersAre
  <2>2. CASE n # 0
    <3>1. n \in 1 .. 255 /\ n \in Nat /\ n \div 2 \in 0 .. 255 /\ n \div 2 < m
      BY <2>2
    <3>2. Powers[n \div 2] \in Int
      BY <3>1
    <3>3. Powers[n] = Doubled(Powers[n \div 2], n)
      BY <3>1, PowersAre
    <3> QED
      BY <3>1, <3>2, <3>3, DoubledIs
  <2> QED
    BY <2>1, <2>2
<1>3. \A m \in Nat : m \in X
  <2> HIDE DEF X
  <2> QED
    BY <1>1, <1>2, Induction
<1>4. 256 \in X
  BY <1>3, SMTT(60)
<1> QED
  BY <1>4

\* Each power is 17 times the one before.
StepAt(n) == Same(Powers[n + 1], 17 * Powers[n])

\* The step from an even exponent to the next,
LEMMA EvenStep ==
  ASSUME NEW n \in 0 .. 254, n % 2 = 0
  PROVE  StepAt(n)
<1>1. CASE n = 0
  <2>1. Powers[1] = Doubled(Powers[1 \div 2], 1)
    BY PowersAre
  <2>2. 1 \div 2 = 0 /\ 1 % 2 = 1
    OBVIOUS
  <2>3. Powers[1] = (1 * 1 * 17) % 3329
    BY <2>1, <2>2, PowersAre DEF Doubled, KYBER_Q
  <2>4. Powers[1] = 17 * Powers[0] /\ Powers[1] \in Int
    BY <2>3, PowersAre
  <2> QED
    BY <1>1, <2>4, SameRefl DEF StepAt
<1>2. CASE n # 0
  <2> DEFINE h == Powers[n \div 2]
             s == h * h
             a == Powers[n]
             b == Powers[n + 1]
  <2>1. n \in 1 .. 255 /\ n + 1 \in 1 .. 255 /\ (n + 1) \div 2 = n \div 2 /\ (n + 1) % 2 = 1
        /\ n \div 2 \in 0 .. 255 /\ n \in Nat /\ n + 1 \in Nat
    BY <1>2
  <2>2. h \in Int /\ a \in Int /\ b \in Int /\ s \in Int
    <3>1. h \in Int /\ a \in Int /\ b \in Int
      BY <2>1, PowersType
    <3> HIDE DEF h
    <3> QED
      BY <3>1
  <2>3. a = Doubled(h, n) /\ b = Doubled(h, n + 1)
    BY <2>1, PowersAre
  <2> HIDE DEF h, a, b
  <2>4. Same(Doubled(h, n), (IF n % 2 = 0 THEN 1 ELSE 17) * s)
        /\ Same(Doubled(h, n + 1), (IF (n + 1) % 2 = 0 THEN 1 ELSE 17) * s)
    BY <2>1, <2>2, DoubledIs
  <2> HIDE DEF s
  <2>5. Same(a, s) /\ Same(b, 17 * s)
    BY <2>1, <2>2, <2>3, <2>4
  <2>6. Same(17 * a, 17 * s) /\ 17 * a \in Int /\ 17 * s \in Int
    BY <2>2, <2>5, SameTimes
  <2>7. Same(b, 17 * a)
    BY <2>2, <2>5, <2>6, SameSym, SameTrans
  <2> QED
    BY <2>7 DEF StepAt, a, b
<1> QED
  BY <1>1, <1>2

\* the one from an odd exponent, from those of its half,
LEMMA OddStep ==
  ASSUME NEW n \in 0 .. 254, n % 2 = 1, StepAt(n \div 2)
  PROVE  StepAt(n)
<1> DEFINE k == n \div 2
           f == Powers[k]
           g == Powers[k + 1]
           s == f * f
           t == g * g
           a == Powers[n]
           b == Powers[n + 1]
<1>1. n \in 1 .. 255 /\ n + 1 \in 1 .. 255 /\ (n + 1) \div 2 = k + 1 /\ (n + 1) % 2 = 0
      /\ k \in 0 .. 255 /\ k + 1 \in 0 .. 255 /\ n \in Nat /\ n + 1 \in Nat
  OBVIOUS
<1>2. f \in Int /\ g \in Int /\ a \in Int /\ b \in Int /\ s \in Int /\ t \in Int
  <2>1. f \in Int /\ g \in Int /\ a \in Int /\ b \in Int
    <3> HIDE DEF k
    <3> QED
      BY <1>1, PowersType
  <2> HIDE DEF f, g
  <2> QED
    BY <2>1
<1>3. a = Doubled(f, n) /\ b = Doubled(g, n + 1) /\ Same(g, 17 * f)
  BY <1>1, PowersAre DEF StepAt
<1> HIDE DEF f, g, a, b, k
<1>4. Same(Doubled(f, n), (IF n % 2 = 0 THEN 1 ELSE 17) * s)
      /\ Same(Doubled(g, n + 1), (IF (n + 1) % 2 = 0 THEN 1 ELSE 17) * t)
  BY <1>1, <1>2, DoubledIs
<1>5. Same(t, (17 * f) * (17 * f)) /\ (17 * f) * (17 * f) = 17 * (17 * s)
  <2> DEFINE e == 17 * f
  <2>1. e \in Int /\ Same(g, e) /\ (17 * f) * (17 * f) = 17 * (17 * s)
    BY <1>2, <1>3
  <2> HIDE DEF e
  <2>2. Same(g * g, e * e)
    BY <1>2, <2>1, SameProduct
  <2> QED
    BY <2>1, <2>2 DEF e
<1> HIDE DEF s, t
<1>6. Same(a, 17 * s) /\ Same(b, t) /\ Same(t, 17 * (17 * s))
      /\ 17 * s \in Int /\ 17 * (17 * s) \in Int /\ 17 * a \in Int
  BY <1>1, <1>2, <1>3, <1>4, <1>5
<1> DEFINE u == 17 * s
           w == 17 * u
           c == 17 * a
<1>7. Same(c, w) /\ Same(b, w)
  <2>1. Same(a, u) /\ Same(b, t) /\ Same(t, w) /\ u \in Int /\ w \in Int
    BY <1>6
  <2> HIDE DEF u
  <2>2. Same(17 * a, 17 * u)
    BY <1>2, <2>1, SameTimes
  <2> HIDE DEF w
  <2>3. Same(b, w)
    BY <1>2, <2>1, SameTrans
  <2> QED
    BY <2>2, <2>3 DEF w
<1>8. c \in Int /\ w \in Int
  BY <1>6
<1> HIDE DEF c, w
<1>9. Same(b, c)
  BY <1>2, <1>7, <1>8, SameSym, SameTrans
<1> QED
  BY <1>9 DEF StepAt, a, b, c

\* and so every step multiplies by 17.
LEMMA Steps == \A n \in 0 .. 254 : StepAt(n)
<1> DEFINE X == {m \in Nat : \A n \in 0 .. 254 : n < m => StepAt(n)}
<1>1. X \in SUBSET Nat /\ 0 \in X
  OBVIOUS
<1>2. ASSUME NEW m \in X PROVE m + 1 \in X
  <2> SUFFICES ASSUME NEW n \in 0 .. 254, n < m + 1 PROVE StepAt(n)
    OBVIOUS
  <2>1. CASE n % 2 = 0
    BY <2>1, EvenStep
  <2>2. CASE n % 2 = 1
    <3>1. n \div 2 \in 0 .. 254 /\ n \div 2 < m
      BY <2>2
    <3>2. StepAt(n \div 2)
      BY <3>1
    <3> QED
      BY <2>2, <3>2, OddStep
  <2> QED
    BY <2>1, <2>2
<1>3. \A m \in Nat : m \in X
  <2> HIDE DEF X
  <2> QED
    BY <1>1, <1>2, Induction
<1>4. 255 \in X
  BY <1>3
<1> QED
  BY <1>4


\* The power e of 17, a 256th root of unity.
Root(e) == Powers[e % 256]

\* The powers are integers.
LEMMA RootType == \A e \in Nat : Root(e) \in Int
BY PowersType DEF Root

\* The powers that close the circle: 17^128 is -1.
LEMMA SmallPowers ==
  /\ Powers[0] = 1 /\ Powers[128] = 3328 /\ Powers[255] = 1175
<1> DEFINE P == Powers
<1>0. P[0] = 1 /\ \A n \in 1 .. 255 : P[n] = (P[n \div 2] * P[n \div 2] * (IF n % 2 = 0 THEN 1 ELSE 17)) % 3329
  BY PowersAre DEF Doubled, KYBER_Q
<1> HIDE DEF P
<1>1. P[1] = 17
  BY <1>0
<1>2. P[2] = 289
  BY <1>0, <1>1
<1>3. P[4] = 296
  BY <1>0, <1>2
<1>4. P[8] = 1062
  BY <1>0, <1>3
<1>5. P[16] = 2642
  BY <1>0, <1>4
<1>6. P[32] = 2580
  BY <1>0, <1>5
<1>7. P[64] = 1729
  BY <1>0, <1>6
<1>8. P[128] = 3328
  BY <1>0, <1>7
<1>9. P[3] = 1584
  BY <1>0, <1>1
<1>10. P[7] = 2804
  BY <1>0, <1>9
<1>11. P[15] = 1722
  BY <1>0, <1>10
<1>12. P[31] = 2110
  BY <1>0, <1>11
<1>13. P[63] = 885
  BY <1>0, <1>12
<1>14. P[127] = 2154
  BY <1>0, <1>13
<1>15. P[255] = 1175
  BY <1>0, <1>14
<1> QED
  BY <1>0, <1>8, <1>15 DEF P

\* From one power to the next, around the circle too.
LEMMA RootStep ==
  ASSUME NEW e \in Nat
  PROVE  Same(Root(e + 1), 17 * Root(e))
<1>1. CASE e % 256 = 255
  <2>1. (e + 1) % 256 = 0
    BY <1>1
  <2>2. Root(e + 1) = 1 /\ Root(e) = 1175
    BY <1>1, <2>1, SmallPowers DEF Root
  <2> QED
    BY <2>2 DEF Same, KYBER_Q
<1>2. CASE e % 256 # 255
  <2>1. (e + 1) % 256 = (e % 256) + 1 /\ e % 256 \in 0 .. 254
    BY <1>2
  <2> QED
    BY <2>1, Steps DEF Root, StepAt
<1> QED
  BY <1>1, <1>2

\* The power of a sum is the product of the powers.
LEMMA RootAdd ==
  ASSUME NEW a \in Nat, NEW b \in Nat
  PROVE  Same(Root(a + b), Root(a) * Root(b))
<1> DEFINE X == {n \in Nat : Same(Root(a + n), Root(a) * Root(n))}
<1>1. X \in SUBSET Nat
  OBVIOUS
<1>2. 0 \in X
  <2>1. Root(0) = 1 /\ a + 0 = a /\ Root(a) \in Int
    BY SmallPowers, RootType DEF Root
  <2>2. Root(a) * 1 = Root(a)
    BY <2>1
  <2> QED
    BY <2>1, <2>2, SameRefl
<1>3. ASSUME NEW n \in X PROVE n + 1 \in X
  <2> DEFINE p == Root(a)
             u == Root(n)
             u1 == Root(n + 1)
             v == Root(a + n)
             v1 == Root(a + (n + 1))
             pu == p * u
             pu1 == p * u1
             w == 17 * u
             pw == p * w
             x == 17 * v
             y == 17 * pu
  <2>1. n \in Nat /\ n + 1 \in Nat /\ a + n \in Nat /\ (a + n) + 1 = a + (n + 1) /\ a + (n + 1) \in Nat
    OBVIOUS
  <2>2. p \in Int /\ u \in Int /\ u1 \in Int /\ v \in Int /\ v1 \in Int
    BY <2>1, RootType
  <2>3. Same(v, pu) /\ Same(u1, w)
    BY <2>1, RootStep
  <2>4. Same(v1, x)
    <3>1. Same(Root((a + n) + 1), 17 * Root(a + n))
      BY <2>1, RootStep
    <3> QED
      BY <2>1, <3>1
  <2> HIDE DEF p, u, u1, v, v1
  <2>5. pu \in Int /\ pu1 \in Int /\ w \in Int /\ pw \in Int /\ x \in Int /\ y \in Int /\ pw = y
    BY <2>2
  <2>6. Same(pu1, pw)
    <3> HIDE DEF w
    <3> QED
      BY <2>2, <2>3, <2>5, SameTimes
  <2>7. Same(x, y)
    <3> HIDE DEF pu
    <3> QED
      BY <2>2, <2>3, <2>5, SameTimes
  <2> HIDE DEF pu, pu1, w, pw, x, y
  <2>8. Same(v1, y) /\ Same(y, pu1)
    BY <2>2, <2>4, <2>5, <2>6, <2>7, SameTrans, SameSym
  <2>9. Same(v1, pu1)
    BY <2>2, <2>5, <2>8, SameTrans
  <2> QED
    BY <2>1, <2>9 DEF v1, pu1, p, u1
<1>4. \A n \in Nat : n \in X
  <2> HIDE DEF X
  <2> QED
    BY <1>1, <1>2, <1>3, Induction
<1> QED
  BY <1>4

\* Half of the circle is the factor -1.
LEMMA RootHalf ==
  ASSUME NEW e \in Nat
  PROVE  Same(Root(e + 128), 0 - Root(e))
<1> DEFINE u == Root(e)
           v == Root(e + 128)
           z == Root(128)
           p == u * z
           k == u
<1>1. u \in Int /\ v \in Int /\ z = 3328 /\ Same(v, p)
  <2>1. 128 % 256 = 128 /\ e + 128 \in Nat
    OBVIOUS
  <2>2. z = 3328
    BY <2>1, SmallPowers DEF Root
  <2>3. u \in Int /\ v \in Int
    BY <2>1, RootType
  <2>4. Same(v, p)
    BY RootAdd
  <2> QED
    BY <2>2, <2>3, <2>4
<1> HIDE DEF u, v, z
<1>2. p \in Int /\ 0 - u \in Int /\ p = 3328 * u
  BY <1>1
<1>3. Apart(p, 0 - u, u)
  BY <1>1, <1>2 DEF Apart
<1> HIDE DEF p
<1>4. Same(p, 0 - u)
  BY <1>2, <1>3, SameIs
<1>5. Same(v, 0 - u)
  BY <1>1, <1>2, <1>4, SameTrans
<1> QED
  BY <1>5 DEF u, v


\* The table holds the powers in bit-reversed order, times 2^16.
LEMMA ZetaStep ==
  ASSUME NEW e \in 1 .. 126
  PROVE  Same(Zeta(BitReverse(e + 1)), 17 * Zeta(BitReverse(e)))
BY SMTT(60) DEF Same, KYBER_Q, Zeta, zetas, BitReverse

\* BitReverse stays in the table and is its own inverse.
LEMMA Reversed ==
  ASSUME NEW k \in 0 .. 127
  PROVE  /\ BitReverse(k) \in 0 .. 127 /\ BitReverse(BitReverse(k)) = k
         /\ k # 0 => BitReverse(k) # 0
BY SMTT(60) DEF BitReverse

\* Entry k is 2^16 times the power that BitReverse(k) names.
LEMMA ZetaIs ==
  ASSUME NEW k \in 1 .. 127
  PROVE  Same(Zeta(k), 65536 * Root(BitReverse(k)))
<1> DEFINE Z(e) == Zeta(BitReverse(e))
           X == {m \in Nat : m + 1 <= 127 => Same(Z(m + 1), 65536 * Root(m + 1))}
<1>1. X \in SUBSET Nat
  OBVIOUS
<1>2. \A e \in 1 .. 127 : Z(e) \in Int
  <2> SUFFICES ASSUME NEW e \in 1 .. 127 PROVE Z(e) \in Int
    OBVIOUS
  <2>1. BitReverse(e) \in Int /\ 0 <= BitReverse(e) /\ BitReverse(e) <= 127
    <3>1. e \in 0 .. 127
      OBVIOUS
    <3>2. BitReverse(e) \in 0 .. 127
      BY <3>1, Reversed
    <3> QED
      BY <3>2
  <2> QED
    BY <2>1, ZetaBound DEF Coefficient
<1>3. 0 \in X
  <2>1. Z(1) = -1103
    <3>1. BitReverse(1) = 64
      BY DEF BitReverse
    <3> QED
      BY <3>1 DEF Zeta, zetas
  <2>2. Root(1) = 17
    <3>1. 1 % 256 = 1 /\ 1 \div 2 = 0 /\ 1 % 2 = 1
      OBVIOUS
    <3> QED
      BY <3>1, PowersAre DEF Root, Doubled, KYBER_Q
  <2> QED
    BY <2>1, <2>2 DEF Same, KYBER_Q
<1>4. ASSUME NEW m \in X PROVE m + 1 \in X
  <2> SUFFICES ASSUME (m + 1) + 1 <= 127
               PROVE  Same(Z((m + 1) + 1), 65536 * Root((m + 1) + 1))
    OBVIOUS
  <2> DEFINE e == m + 1
             z == Z(e)
             z1 == Z(e + 1)
             p == Root(e)
             p1 == Root(e + 1)
             a == 65536 * p
             b == 17 * a
             c == 17 * p
             d == 65536 * p1
  <2>1. e \in 1 .. 126 /\ e \in Nat /\ e + 1 \in Nat /\ e \in 1 .. 127 /\ e + 1 \in 1 .. 127
    OBVIOUS
  <2>2. Same(z, a)
    BY <2>1
  <2>3. Same(z1, 17 * z)
    <3> HIDE DEF e
    <3> QED
      BY <2>1, ZetaStep
  <2>4. Same(p1, c) /\ p \in Int /\ p1 \in Int
    <3> HIDE DEF e
    <3> QED
      BY <2>1, RootStep, RootType
  <2>5. z \in Int /\ z1 \in Int
    <3> HIDE DEF e, Z
    <3> QED
      BY <1>2, <2>1
  <2> HIDE DEF z, z1, p, p1, e
  <2>6. a \in Int /\ b \in Int /\ c \in Int /\ d \in Int /\ 17 * z \in Int /\ 65536 * c = b
    BY <2>4, <2>5
  <2>7. Same(17 * z, b)
    <3> HIDE DEF a
    <3> QED
      BY <2>2, <2>5, <2>6, SameTimes
  <2>8. Same(d, b)
    <3>1. Same(65536 * p1, 65536 * c)
      <4> HIDE DEF c
      <4> QED
        BY <2>4, <2>6, SameTimes
    <3> QED
      BY <2>6, <3>1
  <2> HIDE DEF b, d
  <2>9. Same(z1, b) /\ Same(b, d)
    <3> DEFINE s == 17 * z
    <3>1. s \in Int /\ Same(z1, s) /\ Same(s, b)
      BY <2>3, <2>6, <2>7
    <3> HIDE DEF s
    <3> QED
      BY <2>5, <2>6, <2>8, <3>1, SameTrans, SameSym
  <2>10. Same(z1, d)
    BY <2>5, <2>6, <2>9, SameTrans
  <2> QED
    BY <2>10 DEF z1, d, p1, e
<1>5. \A m \in Nat : m \in X
  <2> HIDE DEF X
  <2> QED
    BY <1>1, <1>3, <1>4, Induction
<1>6. ASSUME NEW e \in 1 .. 127 PROVE Same(Z(e), 65536 * Root(e))
  <2>1. e - 1 \in Nat /\ (e - 1) + 1 = e /\ e <= 127
    OBVIOUS
  <2>2. e - 1 \in X
    BY <1>5, <2>1
  <2> QED
    BY <2>1, <2>2
<1>7. k \in 0 .. 127 /\ k # 0
  OBVIOUS
<1>8. BitReverse(k) \in 1 .. 127 /\ BitReverse(BitReverse(k)) = k
  <2>1. BitReverse(k) \in 0 .. 127 /\ BitReverse(BitReverse(k)) = k /\ BitReverse(k) # 0
    BY <1>7, Reversed
  <2> QED
    BY <2>1
<1> HIDE DEF X
<1> QED
  BY <1>6, <1>8


----------------------------------------------------------------------------
(* What a layer computes.                                                   *)

\* The exponent of block b before it is cut into blocks of n: the block holds the
\* remainder modulo X^n - Root(Exponent(n, b)).
Exponent(n, b) == (n \div 2) * (2 * BitReverse(b * (n \div 2)) + 1)

\* From a block to its halves, the zeta between them, and the zeta of invntt.
LEMMA Exponents ==
  ASSUME NEW n \in Lens, NEW b \in Nat, b < 128 \div n
  PROVE  /\ Exponent(n, 2 * b) \in Nat /\ Exponent(2 * n, b) \in Nat
         /\ Exponent(2 * n, b) = 2 * Exponent(n, 2 * b)
         /\ Exponent(n, 2 * b + 1) = Exponent(n, 2 * b) + 128
         /\ (128 \div n) + b \in 1 .. 127
         /\ BitReverse((128 \div n) + b) = Exponent(n, 2 * b)
         /\ (128 \div n) - 1 - b \in Nat /\ (128 \div n) - 1 - b < 128 \div n
         /\ Exponent(n, 2 * b) + Exponent(n, 2 * ((128 \div n) - 1 - b)) = 128
<1>1. CASE n = 128
  BY <1>1, SMTT(60) DEF Exponent, BitReverse
<1>2. CASE n = 64
  BY <1>2, SMTT(60) DEF Exponent, BitReverse
<1>3. CASE n = 32
  BY <1>3, SMTT(60) DEF Exponent, BitReverse
<1>4. CASE n = 16
  BY <1>4, SMTT(60) DEF Exponent, BitReverse
<1>5. CASE n = 8
  BY <1>5, SMTT(60) DEF Exponent, BitReverse
<1>6. CASE n = 4
  BY <1>6, SMTT(60) DEF Exponent, BitReverse
<1>7. CASE n = 2
  BY <1>7, SMTT(60) DEF Exponent, BitReverse
<1> QED
  BY <1>1, <1>2, <1>3, <1>4, <1>5, <1>6, <1>7 DEF Lens


\* The places c, c + n, c + 2 n .. of g, times powers of Root(w).
Term(g, n, w, c) == [t \in Nat |-> IF c + n * t < 256 THEN g[c + n * t] * Root(w * t) ELSE 0]

\* Their sum, coefficient c of the remainder modulo X^n - Root(w).
Stage(g, n, w, c) == Total(Term(g, n, w, c))[256 \div n]

\* The summands of a remainder are integers,
LEMMA TermType ==
  ASSUME NEW g \in [Index -> Int], NEW n \in Nat, NEW w \in Nat, NEW c \in Nat
  PROVE  Term(g, n, w, c) \in [Nat -> Int]
<1>1. ASSUME NEW t \in Nat, c + n * t < 256 PROVE g[c + n * t] * Root(w * t) \in Int
  <2> DEFINE x == g[c + n * t]
             y == Root(w * t)
  <2>1. c + n * t \in Index /\ w * t \in Nat
    BY <1>1 DEF Index
  <2>2. x \in Int
    BY <2>1
  <2>3. y \in Int
    BY <2>1, RootType
  <2> HIDE DEF x, y
  <2>4. x * y \in Int
    BY <2>2, <2>3
  <2> QED
    BY <2>4 DEF x, y
<1> DEFINE V(t) == IF c + n * t < 256 THEN g[c + n * t] * Root(w * t) ELSE 0
<1>2. \A t \in Nat : V(t) \in Int
  BY <1>1
<1>3. Term(g, n, w, c) = [t \in Nat |-> V(t)]
  BY DEF Term
<1> HIDE DEF V
<1> QED
  BY <1>2, <1>3

\* and so is the remainder.
LEMMA StageType ==
  ASSUME NEW g \in [Index -> Int], NEW n \in Lens \cup {256}, NEW w \in Nat, NEW c \in Nat
  PROVE  Stage(g, n, w, c) \in Int
<1>1. n \in Nat /\ 256 \div n \in Nat
  BY SMT DEF Lens
<1>2. Term(g, n, w, c) \in [Nat -> Int]
  BY <1>1, TermType
<1> QED
  BY <1>1, <1>2, TotalIs DEF Stage

\* 256 does not change an exponent.
LEMMA StagePeriod ==
  ASSUME NEW g, NEW n, NEW w \in Nat, NEW c
  PROVE  Stage(g, n, w + 256, c) = Stage(g, n, w, c)
<1>1. ASSUME NEW t \in Nat PROVE Root((w + 256) * t) = Root(w * t)
  <2> DEFINE x == w * t
  <2>1. x \in Nat /\ (w + 256) * t = x + 256 * t
    OBVIOUS
  <2> HIDE DEF x
  <2>2. (x + 256 * t) % 256 = x % 256
    BY <2>1
  <2> QED
    BY <2>1, <2>2 DEF Root, x
<1>2. Term(g, n, w + 256, c) = Term(g, n, w, c)
  BY <1>1 DEF Term
<1> QED
  BY <1>2 DEF Stage

\* Even and odd multiples of n.
LEMMA StageHalves ==
  ASSUME NEW g \in [Index -> Int], NEW n \in Lens, NEW w \in Nat, NEW c \in Nat
  PROVE  Same(Stage(g, n, w, c),
              Stage(g, 2 * n, 2 * w, c) + Root(w) * Stage(g, 2 * n, 2 * w, c + n))
<1> DEFINE f == Term(g, n, w, c)
           e == Term(g, 2 * n, 2 * w, c)
           u == Term(g, 2 * n, 2 * w, c + n)
           o == [s \in Nat |-> f[2 * s + 1]]
           z == Root(w)
           p == [s \in Nat |-> z * u[s]]
           N == 256 \div (2 * n)
<1>1. n \in Nat /\ 2 * n \in Nat /\ 2 * w \in Nat /\ c + n \in Nat /\ N \in Nat /\ 256 \div n = 2 * N
  BY SMT DEF Lens
<1>2. f \in [Nat -> Int] /\ e \in [Nat -> Int] /\ u \in [Nat -> Int] /\ z \in Int
  <2> HIDE DEF N
  <2> QED
    BY <1>1, TermType, RootType
<1>3. o \in [Nat -> Int] /\ p \in [Nat -> Int]
  <2>1. \A s \in Nat : 2 * s + 1 \in Nat
    OBVIOUS
  <2>2. o \in [Nat -> Int]
    <3> HIDE DEF f
    <3> QED
      BY <1>2, <2>1
  <2>3. p \in [Nat -> Int]
    <3> HIDE DEF u, z
    <3> QED
      BY <1>2
  <2> QED
    BY <2>2, <2>3
<1>4. ASSUME NEW s \in Nat
      PROVE  f[2 * s] = e[s] /\ f[2 * s + 1] = o[s] /\ Same(o[s], p[s])
  <2> DEFINE t == 2 * n * s
             v == 2 * w * s
  <2>1. /\ t \in Nat /\ v \in Nat /\ 2 * s \in Nat /\ 2 * s + 1 \in Nat
        /\ n * (2 * s) = t /\ w * (2 * s) = v
        /\ n * (2 * s + 1) = t + n /\ w * (2 * s + 1) = w + v
    BY <1>1
  <2>2. f[2 * s] = e[s]
    BY <2>1 DEF Term
  <2>3. f[2 * s + 1] = o[s]
    OBVIOUS
  <2>4. o[s] = IF c + (t + n) < 256 THEN g[c + (t + n)] * Root(w + v) ELSE 0
    BY <2>1 DEF Term
  <2>5. u[s] = IF c + n + t < 256 THEN g[c + n + t] * Root(v) ELSE 0
    BY <2>1 DEF Term
  <2>6. p[s] = z * u[s]
    OBVIOUS
  <2> HIDE DEF t, v, o, u, p
  <2>7. c + n + t = c + (t + n) /\ c + n + t \in Nat
    BY <1>1, <2>1
  <2>8. CASE c + n + t < 256
    <3> DEFINE x == g[c + n + t]
               y == Root(v)
               y1 == Root(w + v)
               zy == z * y
               xy == x * y
               a == x * y1
               b == x * zy
    <3>1. x \in Int
      BY <2>7, <2>8 DEF Index
    <3>2. y \in Int /\ y1 \in Int /\ Same(y1, zy)
      <4>1. w + v \in Nat
        BY <2>1
      <4>2. y \in Int /\ y1 \in Int
        BY <2>1, <4>1, RootType
      <4>3. Same(y1, zy)
        BY <2>1, RootAdd
      <4> QED
        BY <4>2, <4>3
    <3>3. o[s] = a /\ p[s] = z * xy
      BY <2>4, <2>5, <2>6, <2>7, <2>8
    <3> HIDE DEF x, y, y1, z
    <3>4. zy \in Int /\ xy \in Int /\ z * xy = b
      BY <1>2, <3>1, <3>2
    <3>5. Same(a, b)
      <4> HIDE DEF zy
      <4> QED
        BY <3>1, <3>2, <3>4, SameTimes
    <3> QED
      BY <2>2, <2>3, <3>3, <3>4, <3>5
  <2>9. CASE ~(c + n + t < 256)
    <3>1. o[s] = 0 /\ p[s] = z * 0
      BY <2>4, <2>5, <2>6, <2>7, <2>9
    <3> HIDE DEF z
    <3>2. p[s] = 0
      BY <1>2, <3>1
    <3> QED
      BY <2>2, <2>3, <3>1, <3>2, SameRefl
  <2> QED
    BY <2>8, <2>9
<1>5. \A s \in Nat : p[s] = z * u[s]
  OBVIOUS
<1>6. Splits(f, e, o, N) /\ Alike(o, p, N) /\ Scales(p, z, u, N)
  <2> HIDE DEF f, e, o, p, u, z
  <2> QED
    BY <1>4, <1>5 DEF Splits, Alike, Scales
<1> DEFINE a == Total(f)[2 * N]
           b == Total(e)[N]
           d == Total(o)[N]
           h == Total(p)[N]
           k == Total(u)[N]
<1>7. Stage(g, n, w, c) = a /\ Stage(g, 2 * n, 2 * w, c) = b /\ Stage(g, 2 * n, 2 * w, c + n) = k
  BY <1>1 DEF Stage
<1> HIDE DEF f, e, o, p, u, z
<1>8. a = b + d /\ Same(d, h) /\ h = z * k
  <2>1. a = b + d
    BY <1>1, <1>2, <1>3, <1>6, TotalSplits
  <2>2. Same(d, h)
    BY <1>1, <1>2, <1>3, <1>6, TotalSame
  <2>3. h = z * k
    BY <1>1, <1>2, <1>3, <1>6, TotalScales
  <2> QED
    BY <2>1, <2>2, <2>3
<1>9. a \in Int /\ b \in Int /\ d \in Int /\ h \in Int
  BY <1>1, <1>2, <1>3, TotalIs
<1> HIDE DEF a, b, d, h, k
<1>10. Same(b + d, b + h)
  BY <1>8, <1>9, SameRefl, SameSum
<1> QED
  BY <1>7, <1>8, <1>10 DEF z


\* The two halves of block b of 2 n.
LEMMA Halves ==
  ASSUME NEW g \in [Index -> Int], NEW n \in Lens, NEW b \in Nat, b < 128 \div n, NEW c \in Nat,
         NEW w, w = Exponent(n, 2 * b),
         NEW x, x = Stage(g, 2 * n, Exponent(2 * n, b), c),
         NEW y, y = Stage(g, 2 * n, Exponent(2 * n, b), c + n)
  PROVE  /\ w \in Nat /\ x \in Int /\ y \in Int
         /\ Stage(g, n, Exponent(n, 2 * b), c) \in Int
         /\ Same(Stage(g, n, Exponent(n, 2 * b), c), x + Root(w) * y)
         /\ Stage(g, n, Exponent(n, 2 * b + 1), c) \in Int
         /\ Same(Stage(g, n, Exponent(n, 2 * b + 1), c), x - Root(w) * y)
<1>1. /\ w \in Nat /\ Exponent(2 * n, b) = 2 * w /\ Exponent(n, 2 * b + 1) = w + 128
      /\ 2 * w \in Nat /\ w + 128 \in Nat /\ 2 * (w + 128) = 2 * w + 256
  <2>1. /\ w \in Nat /\ Exponent(2 * n, b) = 2 * w /\ Exponent(n, 2 * b + 1) = w + 128
    BY Exponents
  <2> QED
    BY <2>1
<1>2. n \in Lens \cup {256} /\ 2 * n \in Lens \cup {256} /\ c + n \in Nat
  BY SMT DEF Lens
<1>3. x = Stage(g, 2 * n, 2 * w, c) /\ y = Stage(g, 2 * n, 2 * w, c + n)
  BY <1>1
<1>4. x \in Int /\ y \in Int
  BY <1>1, <1>2, <1>3, StageType
<1> DEFINE s == Stage(g, n, w, c)
           s1 == Stage(g, n, w + 128, c)
           z == Root(w)
           z1 == Root(w + 128)
           p == z * y
           p1 == z1 * y
           m == 0 - z
<1>5. s \in Int /\ s1 \in Int /\ z \in Int /\ z1 \in Int
  BY <1>1, <1>2, StageType, RootType
<1>6. Same(s, x + p)
  BY <1>1, <1>3, StageHalves
<1>7. Same(s1, x + p1)
  <2>1. /\ x = Stage(g, 2 * n, 2 * (w + 128), c)
        /\ y = Stage(g, 2 * n, 2 * (w + 128), c + n)
    BY <1>1, <1>3, StagePeriod
  <2> QED
    BY <1>1, <2>1, StageHalves
<1>8. Same(z1, m)
  BY <1>1, RootHalf
<1>9. Stage(g, n, Exponent(n, 2 * b), c) = s /\ Stage(g, n, Exponent(n, 2 * b + 1), c) = s1
  BY <1>1
<1> HIDE DEF s, s1, z, z1
<1>10. /\ p \in Int /\ p1 \in Int /\ m \in Int /\ m * y \in Int /\ x + m * y = x - p
       /\ x + p1 \in Int /\ x - p \in Int
  BY <1>4, <1>5
<1>11. Same(p1, m * y)
  <2> HIDE DEF m
  <2> QED
    BY <1>4, <1>5, <1>8, <1>10, SameRefl, SameProduct
<1>12. Same(x + p1, x - p)
  <2> DEFINE q == m * y
  <2>1. q \in Int /\ Same(p1, q) /\ x + q = x - p
    BY <1>10, <1>11
  <2> HIDE DEF q, p1, p
  <2>2. Same(x + p1, x + q)
    BY <1>4, <1>10, <2>1, SameRefl, SameSum
  <2> QED
    BY <2>1, <2>2
<1>13. Same(s1, x - p)
  <2> DEFINE a == x + p1
             d == x - p
  <2>1. a \in Int /\ d \in Int /\ Same(s1, a) /\ Same(a, d)
    BY <1>7, <1>10, <1>12
  <2> HIDE DEF a, d
  <2>2. Same(s1, d)
    BY <1>5, <2>1, SameTrans
  <2> QED
    BY <2>2 DEF d
<1> QED
  BY <1>1, <1>4, <1>5, <1>6, <1>9, <1>13 DEF z

\* The places of a butterfly.
LEMMA Places ==
  ASSUME NEW n \in Lens, NEW j \in Index
  PROVE  /\ Block(j, n) \in Nat /\ Block(j, n) < 128 \div n /\ j % n \in Nat /\ n \in Nat
         /\ j \div (2 * n) = Block(j, n)
         /\ Lower(j, n) => /\ j \div n = 2 * Block(j, n) /\ j % (2 * n) = j % n
                           /\ (j + n) \div (2 * n) = Block(j, n)
                           /\ (j + n) % (2 * n) = (j % n) + n
                           /\ j + n \in Index /\ (j + n) \div n = 2 * Block(j, n) + 1
                           /\ (j + n) % n = j % n
         /\ ~Lower(j, n) => /\ j \div n = 2 * Block(j, n) + 1 /\ j % (2 * n) = (j % n) + n
                            /\ (j - n) \div (2 * n) = Block(j, n)
                            /\ (j - n) % (2 * n) = j % n
                            /\ j - n \in Index /\ (j - n) \div n = 2 * Block(j, n)
                            /\ (j - n) % n = j % n
<1>1. CASE n = 128
  BY <1>1, SMT DEF Index, Lower, Block
<1>2. CASE n = 64
  BY <1>2, SMT DEF Index, Lower, Block
<1>3. CASE n = 32
  BY <1>3, SMT DEF Index, Lower, Block
<1>4. CASE n = 16
  BY <1>4, SMT DEF Index, Lower, Block
<1>5. CASE n = 8
  BY <1>5, SMT DEF Index, Lower, Block
<1>6. CASE n = 4
  BY <1>6, SMT DEF Index, Lower, Block
<1>7. CASE n = 2
  BY <1>7, SMT DEF Index, Lower, Block
<1> QED
  BY <1>1, <1>2, <1>3, <1>4, <1>5, <1>6, <1>7 DEF Lens


\* The remainders of g modulo the X^n - w of all blocks.
Remainders(a, g, n) == \A j \in Index : Same(a[j], Stage(g, n, Exponent(n, j \div n), j % n))

\* A store that fits.
LEMMA ButterflyIs ==
  ASSUME NEW n \in Lens, NEW a, Within(a, 23296), NEW j \in Index
  PROVE  /\ NttZeta(j, n) \in Coefficient
         /\ Lower(j, n) => /\ a[j + n] \in Int16
                           /\ Butterfly(a, j, n) = a[j] + fqmul(NttZeta(j, n), a[j + n])
         /\ ~Lower(j, n) => /\ a[j] \in Int16
                            /\ Butterfly(a, j, n) = a[j - n] - fqmul(NttZeta(j, n), a[j])
<1> DEFINE z == NttZeta(j, n)
<1>1. z \in Coefficient
  BY Inside, ZetaBound DEF NttZeta
<1> HIDE DEF z
<1>2. CASE Lower(j, n)
  <2> DEFINE t == fqmul(z, a[j + n])
  <2>1. /\ a[j] \in Int /\ 0 - 23296 <= a[j] /\ a[j] <= 23296
        /\ a[j + n] \in Int /\ 0 - 23296 <= a[j + n] /\ a[j + n] <= 23296
    BY <1>2, Inside DEF Within
  <2>2. a[j + n] \in Int16
    BY <2>1, SMT DEF Int16
  <2>3. t \in Coefficient
    BY <1>1, <2>2, FqmulBound
  <2>4. Butterfly(a, j, n) = I16(a[j] + t)
    BY <1>2 DEF Butterfly, z
  <2> HIDE DEF t
  <2>5. I16(a[j] + t) = a[j] + t
    BY <2>1, <2>3, Small16 DEF Coefficient
  <2> QED
    BY <1>1, <1>2, <2>2, <2>4, <2>5 DEF z, t
<1>3. CASE ~Lower(j, n)
  <2> DEFINE t == fqmul(z, a[j])
  <2>1. /\ a[j] \in Int /\ 0 - 23296 <= a[j] /\ a[j] <= 23296
        /\ a[j - n] \in Int /\ 0 - 23296 <= a[j - n] /\ a[j - n] <= 23296
    BY <1>3, Inside DEF Within
  <2>2. a[j] \in Int16
    BY <2>1, SMT DEF Int16
  <2>3. t \in Coefficient
    BY <1>1, <2>2, FqmulBound
  <2>4. Butterfly(a, j, n) = I16(a[j - n] - t)
    BY <1>3 DEF Butterfly, z
  <2> HIDE DEF t
  <2>5. I16(a[j - n] - t) = a[j - n] - t
    BY <2>1, <2>3, Small16 DEF Coefficient
  <2> QED
    BY <1>1, <1>3, <2>2, <2>4, <2>5 DEF z, t
<1> QED
  BY <1>2, <1>3

\* The sum and the difference that a butterfly computes.
LEMMA ButterflySame ==
  ASSUME NEW z \in Coefficient, NEW p \in Int, Same(z, 65536 * p), NEW u \in Int, NEW v \in Int16,
         NEW x \in Int, NEW y \in Int, Same(u, x), Same(v, y)
  PROVE  /\ u + fqmul(z, v) \in Int /\ Same(u + fqmul(z, v), x + p * y)
         /\ u - fqmul(z, v) \in Int /\ Same(u - fqmul(z, v), x - p * y)
<1> DEFINE f == fqmul(z, v)
           a == p * v
           b == p * y
<1>1. f \in Int /\ Same(f, a)
  BY FqmulPower
<1>2. v \in Int
  BY DEF Int16
<1>3. a \in Int /\ b \in Int
  BY <1>2
<1>4. Same(a, b)
  BY <1>2, SameTimes
<1> HIDE DEF f, a, b
<1>5. Same(f, b)
  BY <1>1, <1>3, <1>4, SameTrans
<1>6. Same(u + f, x + b) /\ Same(u - f, x - b)
  BY <1>1, <1>3, <1>5, SameSum
<1> QED
  BY <1>1, <1>6 DEF f, b

\* A layer of ntt takes the remainders modulo the two factors of X^2n - w^2.
LEMMA LayerEvaluates ==
  ASSUME NEW n \in Lens, NEW g \in [Index -> Int], NEW a, Within(a, 23296),
         Remainders(a, g, 2 * n)
  PROVE  Remainders(NttLayer(a, n), g, n)
<1> SUFFICES ASSUME NEW j \in Index
             PROVE  Same(Butterfly(a, j, n), Stage(g, n, Exponent(n, j \div n), j % n))
  BY ComputedIs DEF Remainders, NttLayer
<1> DEFINE b == Block(j, n)
           c == j % n
           w == Exponent(n, 2 * b)
           p == Root(w)
           x == Stage(g, 2 * n, Exponent(2 * n, b), c)
           y == Stage(g, 2 * n, Exponent(2 * n, b), c + n)
           z == NttZeta(j, n)
           s == Stage(g, n, Exponent(n, 2 * b), c)
           t == Stage(g, n, Exponent(n, 2 * b + 1), c)
<1>1. b \in Nat /\ b < 128 \div n /\ c \in Nat
  BY Places
<1>2. /\ x \in Int /\ y \in Int /\ w \in Nat /\ s \in Int /\ t \in Int
      /\ Same(s, x + p * y) /\ Same(t, x - p * y)
  <2> HIDE DEF b, c
  <2> QED
    BY <1>1, Halves
<1>3. p \in Int /\ z \in Coefficient /\ Same(z, 65536 * p)
  <2>1. p \in Int /\ z \in Coefficient
    BY <1>2, RootType, ButterflyIs
  <2>2. (128 \div n) + b \in 1 .. 127 /\ BitReverse((128 \div n) + b) = w
    BY <1>1, Exponents
  <2>3. z = Zeta((128 \div n) + b)
    BY DEF NttZeta
  <2> QED
    BY <2>1, <2>2, <2>3, ZetaIs
<1>4. p * y \in Int /\ x + p * y \in Int /\ x - p * y \in Int
  <2> HIDE DEF p, x, y
  <2> QED
    BY <1>2, <1>3
<1>5. CASE Lower(j, n)
  <2> DEFINE u == a[j]
             v == a[j + n]
  <2>1. /\ j \div n = 2 * b /\ j \div (2 * n) = b /\ j % (2 * n) = c
        /\ (j + n) \div (2 * n) = b /\ (j + n) % (2 * n) = c + n /\ j + n \in Index
    BY <1>5, Places
  <2>2. Same(u, x) /\ Same(v, y)
    <3> HIDE DEF b, c
    <3> QED
      BY <2>1 DEF Remainders
  <2>3. v \in Int16 /\ Butterfly(a, j, n) = u + fqmul(z, v)
    BY <1>5, ButterflyIs
  <2>4. u \in Int
    BY DEF Within
  <2>5. Stage(g, n, Exponent(n, j \div n), j % n) = s
    BY <2>1
  <2> HIDE DEF u, v, x, y, z, p, s
  <2>6. u + fqmul(z, v) \in Int /\ Same(u + fqmul(z, v), x + p * y)
    BY <1>2, <1>3, <2>2, <2>3, <2>4, ButterflySame
  <2> DEFINE d == u + fqmul(z, v)
             e == x + p * y
  <2>7. d \in Int /\ e \in Int /\ Same(d, e) /\ Same(s, e)
    BY <1>2, <1>4, <2>6
  <2> HIDE DEF d, e
  <2>8. Same(d, s)
    BY <1>2, <2>7, SameSym, SameTrans
  <2> QED
    BY <2>3, <2>5, <2>8 DEF d
<1>6. CASE ~Lower(j, n)
  <2> DEFINE u == a[j - n]
             v == a[j]
  <2>1. /\ j \div n = 2 * b + 1 /\ j \div (2 * n) = b /\ j % (2 * n) = c + n
        /\ (j - n) \div (2 * n) = b /\ (j - n) % (2 * n) = c /\ j - n \in Index
    BY <1>6, Places
  <2>2. Same(u, x) /\ Same(v, y)
    <3> HIDE DEF b, c
    <3> QED
      BY <2>1 DEF Remainders
  <2>3. v \in Int16 /\ Butterfly(a, j, n) = u - fqmul(z, v)
    BY <1>6, ButterflyIs
  <2>4. u \in Int
    BY <2>1 DEF Within
  <2>5. Stage(g, n, Exponent(n, j \div n), j % n) = t
    BY <2>1
  <2> HIDE DEF u, v, x, y, z, p, t
  <2>6. u - fqmul(z, v) \in Int /\ Same(u - fqmul(z, v), x - p * y)
    BY <1>2, <1>3, <2>2, <2>3, <2>4, ButterflySame
  <2> DEFINE d == u - fqmul(z, v)
             e == x - p * y
  <2>7. d \in Int /\ e \in Int /\ Same(d, e) /\ Same(t, e)
    BY <1>2, <1>4, <2>6
  <2> HIDE DEF d, e
  <2>8. Same(d, t)
    BY <1>2, <2>7, SameSym, SameTrans
  <2> QED
    BY <2>3, <2>5, <2>8 DEF d
<1> QED
  BY <1>5, <1>6


\* Before the first layer there is one block, the polynomial itself.
LEMMA StageWhole ==
  ASSUME NEW g \in [Index -> Int], NEW w \in Nat, NEW j \in Index
  PROVE  Stage(g, 256, w, j) = g[j]
<1> DEFINE f == Term(g, 256, w, j)
<1>1. f \in [Nat -> Int] /\ g[j] \in Int /\ 256 \div 256 = 1
  <2>1. 256 \in Nat /\ j \in Nat
    BY DEF Index
  <2>2. f \in [Nat -> Int]
    BY <2>1, TermType
  <2> QED
    BY <2>2
<1>2. Root(w * 0) = 1
  BY SmallPowers DEF Root
<1>3. f[0] = g[j]
  <2>1. j + 256 * 0 = j /\ j < 256
    BY DEF Index
  <2>2. f[0] = g[j] * Root(w * 0)
    BY <2>1 DEF Term
  <2> QED
    BY <1>1, <1>2, <2>2
<1>4. Stage(g, 256, w, j) = Total(f)[1]
  BY <1>1 DEF Stage
<1> HIDE DEF f
<1>5. Total(f)[0 + 1] = Total(f)[0] + f[0] /\ Total(f)[0] = 0
  BY <1>1, TotalIs
<1> QED
  BY <1>1, <1>3, <1>4, <1>5

\* The remainders before the first layer are the coefficients.
LEMMA RemaindersStart ==
  ASSUME NEW g \in [Index -> Int]
  PROVE  Remainders(g, g, 256)
<1> SUFFICES ASSUME NEW j \in Index
             PROVE  Same(g[j], Stage(g, 256, Exponent(256, j \div 256), j % 256))
  BY DEF Remainders
<1>1. j \div 256 = 0 /\ j % 256 = j
  BY DEF Index
<1>2. Exponent(256, 0) \in Nat
  BY DEF Exponent, BitReverse
<1> QED
  BY <1>1, <1>2, StageWhole, SameRefl

\* poly_reduce does not change a coefficient modulo q.
LEMMA ReducedSame ==
  ASSUME NEW a, \A j \in Index : a[j] \in Int16
  PROVE  \A j \in Index : poly_reduce(a)[j] \in Int /\ Same(poly_reduce(a)[j], a[j])
<1> SUFFICES ASSUME NEW j \in Index
             PROVE  barrett_reduce(a[j]) \in Int /\ Same(barrett_reduce(a[j]), a[j])
  BY DEF poly_reduce
<1> QED
  BY BarrettSame

\* An array congruent to another one has the same remainders.
LEMMA RemaindersSame ==
  ASSUME NEW g \in [Index -> Int], NEW n \in Lens, NEW a, NEW e,
         \A j \in Index : a[j] \in Int /\ e[j] \in Int /\ Same(e[j], a[j]), Remainders(a, g, n)
  PROVE  Remainders(e, g, n)
<1> SUFFICES ASSUME NEW j \in Index
             PROVE  Same(e[j], Stage(g, n, Exponent(n, j \div n), j % n))
  BY DEF Remainders
<1> DEFINE s == Stage(g, n, Exponent(n, j \div n), j % n)
<1>1. Same(a[j], s) /\ a[j] \in Int /\ e[j] \in Int /\ Same(e[j], a[j])
  BY DEF Remainders
<1>2. s \in Int
  <2>1. n \in Lens \cup {256} /\ j % n \in Nat
    BY Places
  <2>2. Exponent(n, j \div n) \in Nat
    <3> DEFINE b == Block(j, n)
    <3>1. b \in Nat /\ b < 128 \div n /\ (j \div n = 2 * b \/ j \div n = 2 * b + 1)
      BY Places
    <3> HIDE DEF b
    <3>2. Exponent(n, 2 * b) \in Nat /\ Exponent(n, 2 * b + 1) = Exponent(n, 2 * b) + 128
      BY <3>1, Exponents
    <3> QED
      BY <3>1, <3>2
  <2> QED
    BY <2>1, <2>2, StageType
<1> HIDE DEF s
<1>3. Same(e[j], s)
  BY <1>1, <1>2, SameTrans
<1> QED
  BY <1>3 DEF s

\* The two places of a pair.
LEMMA PairPlaces ==
  ASSUME NEW t \in 0 .. 127, NEW b \in 0 .. 1
  PROVE  /\ b + 2 * t = 2 * t + b /\ b + 2 * t < 256 /\ 2 * t + b \in Index
         /\ (2 * t + b) \div 2 = t /\ (2 * t + b) % 2 = b
BY SMT DEF Index

\* What NttEvaluates adds up.
Values(g, w, b) == [j \in 0 .. 127 |-> (g[2 * j + b] * Powers[(w * j) % 256]) % KYBER_Q]

\* The remainder modulo X^2 - w is the sum that the property names.
LEMMA StageSum ==
  ASSUME NEW g \in [Index -> Int], NEW i \in 0 .. 127, NEW b \in 0 .. 1,
         NEW w, w = 2 * BitReverse(i) + 1
  PROVE  /\ Exponent(2, i) = w /\ w \in Nat
         /\ SumOf(Values(g, w, b), 7) \in Int
         /\ Same(Stage(g, 2, w, b), SumOf(Values(g, w, b), 7))
<1> DEFINE f == Values(g, w, b)
<1>0. f = [j \in 0 .. 127 |-> (g[2 * j + b] * Powers[(w * j) % 256]) % KYBER_Q]
  BY DEF Values
<1> HIDE DEF f
<1>1. Exponent(2, i) = w /\ w \in Nat
  <2>1. BitReverse(i) \in 0 .. 127
    BY Reversed
  <2>2. 2 \div 2 = 1 /\ i * 1 = i
    OBVIOUS
  <2> QED
    BY <2>1, <2>2 DEF Exponent
<1> DEFINE u == Term(g, 2, w, b)
           p == Padded(f)
<1>2. u \in [Nat -> Int]
  <2>1. 2 \in Nat /\ b \in Nat
    OBVIOUS
  <2> QED
    BY <1>1, <2>1, TermType
<1>3. ASSUME NEW t \in Nat, t < 128
      PROVE  p[t] \in Int /\ u[t] \in Int /\ Same(p[t], u[t])
  <2>1. t \in 0 .. 127 /\ b + 2 * t = 2 * t + b /\ b + 2 * t < 256 /\ 2 * t + b \in Index
    <3>1. t \in 0 .. 127
      BY <1>3
    <3> QED
      BY <3>1, PairPlaces
  <2> DEFINE x == g[2 * t + b] * Root(w * t)
             k == 0 - (x \div 3329)
             m == x % 3329
  <2>2. u[t] = x
    BY <2>1 DEF Term
  <2>3. x \in Int
    BY <1>2, <2>2
  <2>4. p[t] = m
    <3>1. t \in DOMAIN f /\ f[t] = x % 3329
      BY <1>0, <2>1 DEF Root, KYBER_Q
    <3> QED
      BY <3>1 DEF Padded
  <2> HIDE DEF x, u, p
  <2>5. m \in Int /\ Apart(m, x, k)
    BY <2>3 DEF Apart
  <2> HIDE DEF k, m
  <2>6. Same(m, x)
    BY <2>3, <2>5, SameIs
  <2> QED
    BY <2>2, <2>3, <2>4, <2>5, <2>6
<1>4. p \in [Nat -> Int]
  <2>1. ASSUME NEW t \in Nat PROVE (IF t \in DOMAIN f THEN f[t] ELSE 0) \in Int
    <3>1. CASE t < 128
      <4>1. p[t] \in Int
        BY <1>3, <3>1
      <4> QED
        BY <4>1 DEF Padded
    <3>2. CASE ~(t < 128)
      <4>1. DOMAIN f = 0 .. 127
        BY <1>0, Zenon
      <4>2. t \notin DOMAIN f
        BY <3>2, <4>1
      <4> QED
        BY <4>2
    <3> QED
      BY <3>1, <3>2
  <2> QED
    BY <2>1 DEF Padded
<1>5. SumOf(f, 7) = Total(p)[128]
  BY <1>4, SumOfIs
<1>6. Stage(g, 2, w, b) = Total(u)[128]
  BY DEF Stage
<1> HIDE DEF u, p
<1>7. Alike(u, p, 128)
  BY <1>3, SameSym DEF Alike
<1>8. Same(Total(u)[128], Total(p)[128])
  BY <1>2, <1>4, <1>7, TotalSame
<1>9. Total(p)[128] \in Int
  BY <1>4, TotalIs
<1> QED
  BY <1>1, <1>5, <1>6, <1>8, <1>9 DEF f


\* ntt: while its rounds go on r holds the remainders modulo the X^2len - w of
\* the blocks, and then those modulo the X^2 - w.
ForwardInv ==
  /\ given \in [Index -> Coefficient]
  /\ pc = "ntt" => Remainders(r, given, 2 * len)
  /\ pc \in {"reduce", "middle"} => Remainders(r, given, 2)

\* The polynomial given is its own remainder,
LEMMA ForwardStart == Init => ForwardInv
<1> SUFFICES ASSUME Init PROVE ForwardInv
  OBVIOUS
<1>1. given \in [Index -> Coefficient] /\ r = given /\ pc = "ntt" /\ 2 * len = 256
  BY TransformAssumption DEF Init, TransformAssumption
<1>2. given \in [Index -> Int]
  BY <1>1 DEF Coefficient
<1> QED
  BY <1>1, <1>2, RemaindersStart DEF ForwardInv

\* and each round of ntt, and its reduction, keeps the invariant.
LEMMA ForwardStep == TransformInv /\ ForwardInv /\ [Next]_vars => ForwardInv'
<1> SUFFICES ASSUME TransformInv, ForwardInv, [Next]_vars PROVE ForwardInv'
  OBVIOUS
<1>0. given \in [Index -> Coefficient] /\ given' = given /\ given \in [Index -> Int]
  BY DEF ForwardInv, Next, Forward, Reduce, Keep, Multiply, ReduceSum, Backward, Scale, vars,
         Coefficient
<1>1. CASE Forward
  <2>1. len \in Lens /\ pc = "ntt" /\ Within(r, Limit) /\ Remainders(r, given, 2 * len)
    BY <1>1 DEF TransformInv, ForwardInv, Forward
  <2>2. Within(r, 23296)
    <3>1. Limit \in Int /\ Limit <= 23296
      BY <2>1, SMT DEF Lens, Limit
    <3> QED
      BY <2>1, <3>1 DEF Within
  <2>3. Remainders(r', given, len)
    BY <1>0, <1>1, <2>1, <2>2, LayerEvaluates DEF Forward
  <2>4. (pc' = "reduce" /\ len = 2) \/ (pc' = "ntt" /\ 2 * len' = len)
    BY <1>1, <2>1 DEF Forward, Lens
  <2> QED
    BY <1>0, <2>3, <2>4 DEF ForwardInv
<1>2. CASE Reduce
  <2>1. pc = "reduce" /\ Within(r, 26624) /\ Remainders(r, given, 2) /\ r' = poly_reduce(r)
    BY <1>2 DEF TransformInv, ForwardInv, Reduce, Limit
  <2>2. \A j \in Index : r[j] \in Int16 /\ r[j] \in Int
    BY <2>1 DEF Within, Int16
  <2>3. \A j \in Index : r'[j] \in Int /\ Same(r'[j], r[j])
    BY <2>1, <2>2, ReducedSame
  <2>4. 2 \in Lens
    BY DEF Lens
  <2>5. Remainders(r', given, 2)
    <3> DEFINE e == r'
    <3>1. \A j \in Index : r[j] \in Int /\ e[j] \in Int /\ Same(e[j], r[j])
      BY <2>2, <2>3
    <3> HIDE DEF e
    <3>2. Remainders(e, given, 2)
      BY <1>0, <2>1, <2>4, <3>1, RemaindersSame
    <3> QED
      BY <3>2 DEF e
  <2>6. pc' = "middle"
    BY <1>2 DEF Reduce
  <2> QED
    BY <1>0, <2>5, <2>6 DEF ForwardInv
<1>3. CASE Keep \/ Multiply \/ ReduceSum \/ Backward \/ Scale
  BY <1>0, <1>3 DEF Keep, Multiply, ReduceSum, Backward, Scale, ForwardInv
<1>4. CASE UNCHANGED vars
  BY <1>4 DEF vars, ForwardInv
<1> QED
  BY <1>1, <1>2, <1>3, <1>4 DEF Next

\* ntt takes the remainders of every polynomial modulo the 128 polynomials X^2 - w.
THEOREM NttTakesRemainders == Spec => []NttEvaluates
<1>1. TransformInv /\ ForwardInv => NttEvaluates
  <2> SUFFICES ASSUME TransformInv, ForwardInv, pc = "middle", NEW i \in 0 .. 127, NEW b \in 0 .. 1
               PROVE  LET w == 2 * BitReverse(i) + 1
                          value == SumOf([j \in 0 .. 127 |->
                                            (given[2 * j + b] * Powers[(w * j) % 256]) % KYBER_Q], 7)
                      IN  Same(r[2 * i + b], value)
    BY DEF NttEvaluates, Same
  <2> DEFINE w == 2 * BitReverse(i) + 1
             f == [j \in 0 .. 127 |-> (given[2 * j + b] * Powers[(w * j) % 256]) % KYBER_Q]
             v == SumOf(f, 7)
             x == r[2 * i + b]
             s == Stage(given, 2, w, b)
  <2>1. given \in [Index -> Int] /\ Remainders(r, given, 2) /\ Within(r, Limit)
    BY DEF TransformInv, ForwardInv, Coefficient
  <2>2. Exponent(2, i) = w /\ w \in Nat /\ v \in Int /\ Same(s, v)
    <3>1. w = 2 * BitReverse(i) + 1
      OBVIOUS
    <3>2. f = Values(given, w, b)
      BY DEF Values
    <3> HIDE DEF w, f
    <3> QED
      BY <2>1, <3>1, <3>2, StageSum
  <2>3. 2 * i + b \in Index /\ (2 * i + b) \div 2 = i /\ (2 * i + b) % 2 = b
    BY PairPlaces
  <2> HIDE DEF w, v
  <2>4. x \in Int
    BY <2>1, <2>3 DEF Within
  <2>5. Same(x, s)
    BY <2>1, <2>2, <2>3 DEF Remainders
  <2>6. s \in Int
    <3>1. 2 \in Lens \cup {256} /\ b \in Nat
      BY DEF Lens
    <3> QED
      BY <2>1, <2>2, <3>1, StageType
  <2> HIDE DEF x, s
  <2>7. Same(x, v)
    BY <2>2, <2>4, <2>5, <2>6, SameTrans
  <2> QED
    BY <2>7 DEF x, v, w
<1> QED
  BY <1>1, TransformStart, TransformStep, ForwardStart, ForwardStep, PTL DEF Spec


\* A layer of ntt keeps its limit and takes remainders.
LEMMA Layer ==
  ASSUME NEW n \in Lens, NEW g \in [Index -> Int], NEW a, NEW m \in Int, 0 <= m, m <= 23296,
         Within(a, m), Remainders(a, g, 2 * n)
  PROVE  Within(NttLayer(a, n), m + 3328) /\ Remainders(NttLayer(a, n), g, n)
<1>1. Within(NttLayer(a, n), m + 3328)
  BY NttLayerBound
<1>2. Within(a, 23296)
  BY DEF Within
<1>3. Remainders(NttLayer(a, n), g, n)
  BY <1>2, LayerEvaluates
<1> QED
  BY <1>1, <1>3

\* poly_ntt takes the remainders of a polynomial, reduced.
LEMMA PolyNttSame ==
  ASSUME NEW f \in [Index -> Coefficient]
  PROVE  /\ Within(poly_ntt(f), 3328)
         /\ Remainders(poly_ntt(f), f, 2)
<1> DEFINE f1 == NttLayer(f, 128)
           f2 == NttLayer(f1, 64)
           f3 == NttLayer(f2, 32)
           f4 == NttLayer(f3, 16)
           f5 == NttLayer(f4, 8)
           f6 == NttLayer(f5, 4)
           f7 == NttLayer(f6, 2)
<1>n. poly_ntt(f) = poly_reduce(f7)
  BY DEF poly_ntt, ntt
<1>i. f \in [Index -> Int]
  BY DEF Coefficient
<1>0. Within(f, 3328) /\ Remainders(f, f, 256)
  <2>1. \A j \in Index : f[j] \in Int /\ -3328 <= f[j] /\ f[j] <= 3328
    <3> SUFFICES ASSUME NEW j \in Index
                 PROVE  f[j] \in Int /\ -3328 <= f[j] /\ f[j] <= 3328
      OBVIOUS
    <3>1. f[j] \in Coefficient
      OBVIOUS
    <3> QED
      BY <3>1, SMT DEF Coefficient
  <2> QED
    BY <1>i, <2>1, RemaindersStart DEF Within
<1>1. Within(f1, 6656) /\ Remainders(f1, f, 128)
  <2>1. 128 \in Lens /\ 2 * 128 = 256 /\ 3328 + 3328 = 6656 /\ 3328 \in Int /\ 0 <= 3328 /\ 3328 <= 23296
    BY SMT DEF Lens
  <2> QED
    BY <1>i, <1>0, <2>1, Layer
<1> HIDE DEF f1
<1>2. Within(f2, 9984) /\ Remainders(f2, f, 64)
  <2>1. 64 \in Lens /\ 2 * 64 = 128 /\ 6656 + 3328 = 9984 /\ 6656 \in Int /\ 0 <= 6656 /\ 6656 <= 23296
    BY SMT DEF Lens
  <2> QED
    BY <1>i, <1>1, <2>1, Layer
<1> HIDE DEF f2
<1>3. Within(f3, 13312) /\ Remainders(f3, f, 32)
  <2>1. 32 \in Lens /\ 2 * 32 = 64 /\ 9984 + 3328 = 13312 /\ 9984 \in Int /\ 0 <= 9984 /\ 9984 <= 23296
    BY SMT DEF Lens
  <2> QED
    BY <1>i, <1>2, <2>1, Layer
<1> HIDE DEF f3
<1>4. Within(f4, 16640) /\ Remainders(f4, f, 16)
  <2>1. 16 \in Lens /\ 2 * 16 = 32 /\ 13312 + 3328 = 16640 /\ 13312 \in Int /\ 0 <= 13312 /\ 13312 <= 23296
    BY SMT DEF Lens
  <2> QED
    BY <1>i, <1>3, <2>1, Layer
<1> HIDE DEF f4
<1>5. Within(f5, 19968) /\ Remainders(f5, f, 8)
  <2>1. 8 \in Lens /\ 2 * 8 = 16 /\ 16640 + 3328 = 19968 /\ 16640 \in Int /\ 0 <= 16640 /\ 16640 <= 23296
    BY SMT DEF Lens
  <2> QED
    BY <1>i, <1>4, <2>1, Layer
<1> HIDE DEF f5
<1>6. Within(f6, 23296) /\ Remainders(f6, f, 4)
  <2>1. 4 \in Lens /\ 2 * 4 = 8 /\ 19968 + 3328 = 23296 /\ 19968 \in Int /\ 0 <= 19968 /\ 19968 <= 23296
    BY SMT DEF Lens
  <2> QED
    BY <1>i, <1>5, <2>1, Layer
<1> HIDE DEF f6
<1>7. Within(f7, 26624) /\ Remainders(f7, f, 2)
  <2>1. 2 \in Lens /\ 2 * 2 = 4 /\ 23296 + 3328 = 26624 /\ 23296 \in Int /\ 0 <= 23296 /\ 23296 <= 23296
    BY SMT DEF Lens
  <2> QED
    BY <1>i, <1>6, <2>1, Layer
<1> HIDE DEF f7
<1>8. \A j \in Index : f7[j] \in Int16 /\ f7[j] \in Int
  BY <1>7, SMT DEF Within, Int16
<1> DEFINE e == poly_reduce(f7)
<1>9. \A j \in Index : f7[j] \in Int /\ e[j] \in Int /\ Same(e[j], f7[j])
  BY <1>8, ReducedSame
<1>10. 2 \in Lens
  BY DEF Lens
<1> HIDE DEF e
<1>11. Remainders(e, f, 2)
  BY <1>i, <1>7, <1>9, <1>10, RemaindersSame
<1> QED
  BY <1>n, <1>11, PolyNttBound DEF e

----------------------------------------------------------------------------
(* invntt.                                                                  *)

\* Every coefficient is s times the remainder.
Multiples(a, s, g, n) == \A j \in Index : Same(a[j], s * Stage(g, n, Exponent(n, j \div n), j % n))

\* The factors of a layer and of its inverse are opposite powers of the root.
LEMMA InvZetaIs ==
  ASSUME NEW n \in Lens, NEW j \in Index, NEW w, w = Exponent(n, 2 * Block(j, n))
  PROVE  /\ w \in Nat /\ InvZeta(j, n) \in Coefficient
         /\ \E v \in Nat : v + w = 128 /\ Same(InvZeta(j, n), 65536 * Root(v))
<1> DEFINE b == Block(j, n)
           d == (128 \div n) - 1 - b
           v == Exponent(n, 2 * d)
           k == (128 \div n) + d
<1>1. b \in Nat /\ b < 128 \div n
  BY Places
<1>2. (256 \div n) - 1 - b = k
  <2>1. 256 \div n = 2 * (128 \div n) /\ 128 \div n \in Int
    BY SMT DEF Lens
  <2> HIDE DEF b
  <2> QED
    BY <1>1, <2>1
<1> HIDE DEF b
<1>3. d \in Nat /\ d < 128 \div n /\ Exponent(n, 2 * b) \in Nat /\ Exponent(n, 2 * b) + v = 128
  BY <1>1, Exponents
<1> HIDE DEF d
<1>4. v \in Nat /\ k \in 1 .. 127 /\ BitReverse(k) = v
  BY <1>3, Exponents
<1>5. InvZeta(j, n) = Zeta(k)
  BY <1>2 DEF InvZeta, b
<1>6. w = Exponent(n, 2 * b)
  BY DEF b
<1> HIDE DEF k, v
<1>7. Zeta(k) \in Coefficient /\ Same(Zeta(k), 65536 * Root(v))
  BY <1>4, ZetaBound, ZetaIs
<1>8. v + w = 128
  BY <1>3, <1>4, <1>6
<1> QED
  BY <1>3, <1>4, <1>5, <1>6, <1>7, <1>8


\* The sums and differences of a layer of invntt fit.
LEMMA InvButterflyIs ==
  ASSUME NEW n \in Lens, NEW a, Within(a, 3328), NEW j \in Index
  PROVE  /\ Lower(j, n) => /\ a[j] \in Int /\ a[j + n] \in Int /\ a[j] + a[j + n] \in Int16
                           /\ InvButterfly(a, j, n) = barrett_reduce(a[j] + a[j + n])
         /\ ~Lower(j, n) => /\ a[j] \in Int /\ a[j - n] \in Int /\ a[j] - a[j - n] \in Int16
                            /\ InvButterfly(a, j, n) = fqmul(InvZeta(j, n), a[j] - a[j - n])
<1>1. CASE Lower(j, n)
  <2> DEFINE s == a[j] + a[j + n]
  <2>1. /\ a[j] \in Int /\ -3328 <= a[j] /\ a[j] <= 3328
        /\ a[j + n] \in Int /\ -3328 <= a[j + n] /\ a[j + n] <= 3328
    BY <1>1, Inside DEF Within
  <2>2. s \in Int /\ -32768 <= s /\ s <= 32767
    BY <2>1
  <2>3. InvButterfly(a, j, n) = barrett_reduce(I16(s))
    BY <1>1 DEF InvButterfly
  <2> HIDE DEF s
  <2>4. I16(s) = s /\ s \in Int16
    BY <2>2, Small16 DEF Int16
  <2> QED
    BY <1>1, <2>1, <2>3, <2>4 DEF s
<1>2. CASE ~Lower(j, n)
  <2> DEFINE s == a[j] - a[j - n]
  <2>1. /\ a[j] \in Int /\ -3328 <= a[j] /\ a[j] <= 3328
        /\ a[j - n] \in Int /\ -3328 <= a[j - n] /\ a[j - n] <= 3328
    BY <1>2, Inside DEF Within
  <2>2. s \in Int /\ -32768 <= s /\ s <= 32767
    BY <2>1
  <2>3. InvButterfly(a, j, n) = fqmul(InvZeta(j, n), I16(s))
    BY <1>2 DEF InvButterfly
  <2> HIDE DEF s
  <2>4. I16(s) = s /\ s \in Int16
    BY <2>2, Small16 DEF Int16
  <2> QED
    BY <1>2, <2>1, <2>3, <2>4 DEF s
<1> QED
  BY <1>1, <1>2

\* A factor and its double.
Twice(f, s) == f \in Int /\ s \in Int /\ f = 2 * s

\* The remainders of x + z X^n where X^n is 1 and where it is -1.
Parts(lo, hi, x, z) ==
  /\ lo \in Int /\ hi \in Int /\ x \in Int /\ z \in Int
  /\ Same(lo, x + z) /\ Same(hi, x - z)

\* u and v are s times the remainders.
Copies(u, v, s, lo, hi) == u \in Int /\ v \in Int /\ Same(u, s * lo) /\ Same(v, s * hi)

\* Their sum and their difference.
Joined(u, v, f, x, z) == Same(u + v, f * x) /\ Same(v - u, 0 - f * z)

\* The two coefficients of an inverse butterfly are those of X^2n - w^2, doubled.
LEMMA InvSumSame ==
  ASSUME NEW u, NEW v, NEW s, NEW f, NEW lo, NEW hi, NEW x, NEW z,
         Twice(f, s), Parts(lo, hi, x, z), Copies(u, v, s, lo, hi)
  PROVE  Joined(u, v, f, x, z)
<1>0. /\ u \in Int /\ v \in Int /\ s \in Int /\ f \in Int /\ f = 2 * s
      /\ lo \in Int /\ hi \in Int /\ x \in Int /\ z \in Int
  BY DEF Twice, Parts, Copies
<1> DEFINE a == s * lo
           b == s * hi
           c == s * (x + z)
           d == s * (x - z)
           m == x + z
           k == x - z
           t == s * x
           o == s * z
<1>1. m \in Int /\ k \in Int
  BY <1>0
<1>2. Same(lo, m) /\ Same(hi, k)
  BY DEF Parts
<1>3. a \in Int /\ b \in Int /\ t \in Int
  BY <1>0
<1>4. o \in Int
  BY <1>0
<1>5. c = t + o /\ d = t - o /\ f * x = 2 * t /\ f * z = 2 * o
  BY <1>0, SMT
<1>6. Same(a, s * m) /\ Same(b, s * k)
  <2> HIDE DEF m, k
  <2> QED
    BY <1>0, <1>1, <1>2, SameTimes
<1>7. Same(a, c) /\ Same(b, d) /\ c \in Int /\ d \in Int
  BY <1>3, <1>4, <1>5, <1>6
<1> HIDE DEF a, b, c, d, t, o, m, k
<1>8. Same(u, c) /\ Same(v, d)
  BY <1>0, <1>3, <1>7, SameTrans DEF a, b, Copies
<1>9. Same(u + v, c + d) /\ Same(v - u, d - c)
  BY <1>0, <1>7, <1>8, SameSum
<1>10. c + d = 2 * t /\ d - c = 0 - 2 * o
  BY <1>3, <1>4, <1>5
<1> QED
  BY <1>5, <1>9, <1>10 DEF Joined

\* The factor of an inverse butterfly and that of the butterfly cancel.
LEMMA InvFactorSame ==
  ASSUME NEW z \in Coefficient, NEW v \in Nat, NEW w \in Nat, v + w = 128,
         Same(z, 65536 * Root(v)), NEW d \in Int16, NEW s \in Int, NEW y \in Int,
         Same(d, 0 - s * (Root(w) * y))
  PROVE  fqmul(z, d) \in Int /\ Same(fqmul(z, d), s * y)
<1> DEFINE p == Root(w)
           q == Root(v)
           f == fqmul(z, d)
           a == q * d
           e == 0 - s * (p * y)
           b == q * e
           c == p * q
           t == s * y
           o == c * (0 - t)
           m == 0 - 1
<1>1. p \in Int /\ q \in Int
  BY RootType
<1>2. f \in Int /\ Same(f, a)
  <2> HIDE DEF q
  <2> QED
    BY <1>1, FqmulPower DEF q
<1>3. Same(c, m)
  <2>1. Same(Root(w + v), p * q)
    BY RootAdd
  <2>2. Root(w + v) = 3328
    BY SmallPowers DEF Root
  <2>3. c \in Int /\ Same(3328, c) /\ m \in Int
    BY <1>1, <2>1, <2>2
  <2>4. Same(3328, m)
    BY DEF Same, KYBER_Q
  <2> HIDE DEF c, m
  <2>5. Same(c, 3328)
    BY <2>3, SameSym
  <2> QED
    BY <2>3, <2>4, <2>5, SameTrans
<1>4. d \in Int /\ t \in Int /\ Same(d, e)
  BY DEF Int16
<1> HIDE DEF p, q
<1>5. e \in Int /\ a \in Int /\ c \in Int
  BY <1>1, <1>4
<1>6. b = o
  BY <1>1, SMT
<1> HIDE DEF c, e, t
<1>7. b \in Int /\ o \in Int /\ m \in Int
  BY <1>1, <1>4, <1>5
<1>8. Same(a, b)
  BY <1>1, <1>4, <1>5, SameTimes
<1>9. Same(o, t)
  <2> DEFINE n == 0 - t
  <2>1. n \in Int /\ m * n = t /\ m \in Int /\ Same(n, n)
    <3>1. n \in Int /\ m * n = t /\ m \in Int
      BY <1>4
    <3> HIDE DEF n
    <3> QED
      BY <3>1, SameRefl
  <2> HIDE DEF n, m
  <2>2. Same(c * n, m * n)
    BY <1>3, <1>5, <2>1, SameProduct
  <2> QED
    BY <2>1, <2>2 DEF n
<1> HIDE DEF f, a, b, o, m
<1>10. Same(f, b)
  BY <1>2, <1>5, <1>7, <1>8, SameTrans
<1>11. Same(f, t)
  BY <1>2, <1>4, <1>6, <1>7, <1>9, <1>10, SameTrans
<1> QED
  BY <1>2, <1>11 DEF f, t


\* A layer of invntt puts the remainders modulo the factors of X^2n - w^2 together.
LEMMA InvLayerSame ==
  ASSUME NEW n \in Lens, NEW g \in [Index -> Int], NEW a, Within(a, 3328), NEW s \in Int,
         Multiples(a, s, g, n)
  PROVE  Multiples(InvLayer(a, n), 2 * s, g, 2 * n)
<1> SUFFICES ASSUME NEW j \in Index
             PROVE  Same(InvButterfly(a, j, n),
                         (2 * s) * Stage(g, 2 * n, Exponent(2 * n, j \div (2 * n)), j % (2 * n)))
  BY ComputedIs DEF Multiples, InvLayer
<1> DEFINE b == Block(j, n)
           c == j % n
           w == Exponent(n, 2 * b)
           p == Root(w)
           x == Stage(g, 2 * n, Exponent(2 * n, b), c)
           y == Stage(g, 2 * n, Exponent(2 * n, b), c + n)
           lo == Stage(g, n, Exponent(n, 2 * b), c)
           hi == Stage(g, n, Exponent(n, 2 * b + 1), c)
           z == InvZeta(j, n)
           m == 2 * s
<1>1. b \in Nat /\ b < 128 \div n /\ c \in Nat
  BY Places
<1>2. /\ x \in Int /\ y \in Int /\ w \in Nat /\ lo \in Int /\ hi \in Int
      /\ Same(lo, x + p * y) /\ Same(hi, x - p * y)
  <2> HIDE DEF b, c
  <2> QED
    BY <1>1, Halves
<1>3. p \in Int
  BY <1>2, RootType
<1>4. CASE Lower(j, n)
  <2> DEFINE u == a[j]
             v == a[j + n]
             q == u + v
             t == m * x
  <2>1. /\ j \div n = 2 * b /\ j \div (2 * n) = b /\ j % (2 * n) = c
        /\ (j + n) \div n = 2 * b + 1 /\ (j + n) % n = c /\ j + n \in Index
    BY <1>4, Places
  <2>2. Same(u, s * lo) /\ Same(v, s * hi)
    <3>1. Same(u, s * Stage(g, n, Exponent(n, j \div n), j % n))
      BY DEF Multiples
    <3>2. Same(v, s * Stage(g, n, Exponent(n, (j + n) \div n), (j + n) % n))
      BY <2>1 DEF Multiples
    <3>3. j % n = c
      OBVIOUS
    <3> HIDE DEF b, c
    <3> QED
      BY <2>1, <3>1, <3>2, <3>3
  <2>3. u \in Int /\ v \in Int /\ q \in Int16 /\ InvButterfly(a, j, n) = barrett_reduce(q)
    BY <1>4, InvButterflyIs
  <2>4. Stage(g, 2 * n, Exponent(2 * n, j \div (2 * n)), j % (2 * n)) = x
    BY <2>1
  <2> HIDE DEF x, y, lo, hi, p, u, v
  <2>5. Same(q, t) /\ t \in Int /\ q \in Int
    <3> DEFINE k == p * y
    <3>1. /\ k \in Int /\ Parts(lo, hi, x, k) /\ Twice(m, s) /\ m \in Int
          /\ Copies(u, v, s, lo, hi)
      BY <1>2, <1>3, <2>2, <2>3 DEF Parts, Twice, Copies
    <3> HIDE DEF k, m
    <3>2. Joined(u, v, m, x, k)
      BY <3>1, InvSumSame
    <3>3. m * x \in Int /\ q \in Int
      BY <1>2, <2>3, <3>1 DEF Int16
    <3> QED
      BY <3>2, <3>3 DEF Joined
  <2> HIDE DEF q, t
  <2>6. barrett_reduce(q) \in Int /\ Same(barrett_reduce(q), q)
    BY <2>3, BarrettSame
  <2>7. Same(barrett_reduce(q), t)
    BY <2>5, <2>6, SameTrans
  <2> QED
    BY <2>3, <2>4, <2>7 DEF t
<1>5. CASE ~Lower(j, n)
  <2> DEFINE u == a[j - n]
             v == a[j]
             q == v - u
  <2>1. /\ j \div n = 2 * b + 1 /\ j \div (2 * n) = b /\ j % (2 * n) = c + n
        /\ (j - n) \div n = 2 * b /\ (j - n) % n = c /\ j - n \in Index
    BY <1>5, Places
  <2>2. Same(u, s * lo) /\ Same(v, s * hi)
    <3>1. Same(u, s * Stage(g, n, Exponent(n, (j - n) \div n), (j - n) % n))
      BY <2>1 DEF Multiples
    <3>2. Same(v, s * Stage(g, n, Exponent(n, j \div n), j % n))
      BY DEF Multiples
    <3>3. j % n = c
      OBVIOUS
    <3> HIDE DEF b, c
    <3> QED
      BY <2>1, <3>1, <3>2, <3>3
  <2>3. u \in Int /\ v \in Int /\ q \in Int16 /\ InvButterfly(a, j, n) = fqmul(z, q)
    BY <1>5, InvButterflyIs
  <2>4. Stage(g, 2 * n, Exponent(2 * n, j \div (2 * n)), j % (2 * n)) = y
    BY <2>1
  <2>5. z \in Coefficient /\ \E d \in Nat : d + w = 128 /\ Same(z, 65536 * Root(d))
    BY InvZetaIs
  <2> HIDE DEF x, y, lo, hi, w, u, v, z
  <2>6. Same(q, 0 - m * (p * y)) /\ m \in Int
    <3> DEFINE k == p * y
    <3> HIDE DEF p
    <3>1. /\ k \in Int /\ Parts(lo, hi, x, k) /\ Twice(m, s) /\ m \in Int
          /\ Copies(u, v, s, lo, hi)
      BY <1>2, <1>3, <2>2, <2>3 DEF Parts, Twice, Copies
    <3> HIDE DEF k, m
    <3>2. Joined(u, v, m, x, k)
      BY <3>1, InvSumSame
    <3> QED
      BY <3>1, <3>2 DEF k, Joined
  <2> HIDE DEF q, m
  <2>7. PICK d \in Nat : d + w = 128 /\ Same(z, 65536 * Root(d))
    BY <2>5
  <2>8. Same(fqmul(z, q), m * y)
    BY <1>2, <2>3, <2>5, <2>6, <2>7, InvFactorSame
  <2> QED
    BY <2>3, <2>4, <2>8 DEF m
<1> QED
  BY <1>4, <1>5

\* mont^2 / 128 takes the factor 128 of the seven layers away.
LEMMA InvScaleSame ==
  ASSUME NEW a, Within(a, 3328), NEW g \in [Index -> Int], NEW s \in Int,
         Multiples(a, 128 * s, g, 256)
  PROVE  \A j \in Index : InvScale(a)[j] \in Int /\ Same(InvScale(a)[j], 65536 * (s * g[j]))
<1> SUFFICES ASSUME NEW j \in Index
             PROVE  fqmul(a[j], 1441) \in Int /\ Same(fqmul(a[j], 1441), 65536 * (s * g[j]))
  BY DEF InvScale
<1> DEFINE x == a[j]
           f == fqmul(x, 1441)
           p == s * g[j]
           y == 128 * p
           e == 1441 * x
           h == 1441 * y
           t == 65536 * f
           o == 65536 * (65536 * p)
           k == 0 - 1290112 * p
<1>1. x \in Coefficient /\ x \in Int /\ 1441 \in Int16
  BY SMT DEF Within, Coefficient, Int16
<1>2. f \in Int /\ Same(t, e)
  <2>1. f \in Int /\ Same(t, x * 1441)
    BY <1>1, FqmulSame
  <2>2. x * 1441 = e
    BY <1>1
  <2> QED
    BY <2>1, <2>2
<1>3. p \in Int /\ Same(x, y)
  <2>1. j \div 256 = 0 /\ j % 256 = j
    BY DEF Index
  <2>2. Exponent(256, 0) \in Nat
    BY DEF Exponent, BitReverse
  <2>3. Stage(g, 256, Exponent(256, 0), j) = g[j]
    BY <2>2, StageWhole
  <2>4. Same(x, (128 * s) * g[j])
    BY <2>1, <2>3 DEF Multiples
  <2>5. (128 * s) * g[j] = y /\ p \in Int
    OBVIOUS
  <2> QED
    BY <2>4, <2>5
<1> HIDE DEF x, f, p
<1>4. t \in Int /\ e \in Int /\ h \in Int /\ o \in Int /\ y \in Int
  BY <1>1, <1>2, <1>3
<1>5. Same(e, h)
  <2> HIDE DEF y
  <2> QED
    BY <1>1, <1>3, <1>4, SameTimes
<1>6. Same(h, o)
  <2>1. Apart(h, o, k)
    BY <1>3 DEF Apart
  <2> HIDE DEF h, o, k
  <2> QED
    BY <1>4, <2>1, SameIs
<1> HIDE DEF e, h
<1>7. Same(t, o)
  <2> HIDE DEF t, o
  <2> QED
    BY <1>2, <1>4, <1>5, <1>6, SameTrans
<1>8. 65536 * p \in Int
  BY <1>3
<1>9. Same(f, 65536 * p)
  BY <1>2, <1>7, <1>8, SameCancel
<1> QED
  BY <1>2, <1>9 DEF f, x, p


----------------------------------------------------------------------------
(* The ring modulo X^256 + 1.                                               *)

\* X f.
Shift(f) == [j \in Index |-> IF j = 0 THEN 0 - f[255] ELSE f[j - 1]]

\* X^i f.
Rot(f, i) == [j \in Index |-> IF i <= j THEN f[j - i] ELSE 0 - f[256 + j - i]]

\* X f is a polynomial,
LEMMA ShiftType ==
  ASSUME NEW f \in [Index -> Int]
  PROVE  Shift(f) \in [Index -> Int]
<1> DEFINE V(j) == IF j = 0 THEN 0 - f[255] ELSE f[j - 1]
<1>1. ASSUME NEW j \in Index PROVE V(j) \in Int
  <2>1. 255 \in Index /\ (j # 0 => j - 1 \in Index)
    BY DEF Index
  <2> QED
    BY <2>1
<1> HIDE DEF V
<1>2. [j \in Index |-> V(j)] \in [Index -> Int]
  BY <1>1
<1> QED
  BY <1>2 DEF Shift, V

\* and so is X^i f.
LEMMA RotType ==
  ASSUME NEW f \in [Index -> Int], NEW i \in Index
  PROVE  Rot(f, i) \in [Index -> Int]
<1> DEFINE V(j) == IF i <= j THEN f[j - i] ELSE 0 - f[256 + j - i]
<1>1. ASSUME NEW j \in Index PROVE V(j) \in Int
  <2>1. (i <= j => j - i \in Index) /\ (~(i <= j) => 256 + j - i \in Index)
    BY DEF Index
  <2> QED
    BY <2>1
<1> HIDE DEF V
<1>2. [j \in Index |-> V(j)] \in [Index -> Int]
  BY <1>1
<1> QED
  BY <1>2 DEF Rot, V

\* X^0 f is f,
LEMMA RotZero ==
  ASSUME NEW f \in [Index -> Int]
  PROVE  Rot(f, 0) = f
<1>1. \A j \in Index : 0 <= j /\ j - 0 = j
  BY DEF Index
<1>2. Rot(f, 0) = [j \in Index |-> f[j]]
  BY <1>1 DEF Rot
<1> QED
  BY <1>2

\* and X^(i + 1) f is X times X^i f.
LEMMA RotNext ==
  ASSUME NEW f \in [Index -> Int], NEW i \in 0 .. 254
  PROVE  Rot(f, i + 1) = Shift(Rot(f, i))
<1> DEFINE g == Rot(f, i)
<1>1. ASSUME NEW j \in Index
      PROVE  (IF i + 1 <= j THEN f[j - (i + 1)] ELSE 0 - f[256 + j - (i + 1)])
             = (IF j = 0 THEN 0 - g[255] ELSE g[j - 1])
  <2>1. 255 \in Index /\ i \in Index /\ i <= 255
    BY DEF Index
  <2>2. CASE j = 0
    <3>1. g[255] = f[255 - i]
      BY <2>1 DEF Rot
    <3>2. ~(i + 1 <= 0) /\ 256 + 0 - (i + 1) = 255 - i
      OBVIOUS
    <3> QED
      BY <2>2, <3>1, <3>2
  <2>3. CASE j # 0
    <3> DEFINE k == j - 1
    <3>1. k \in Index /\ j = k + 1 /\ k \in Int
      BY <2>3 DEF Index
    <3>2. g[k] = IF i <= k THEN f[k - i] ELSE 0 - f[256 + k - i]
      BY <3>1 DEF Rot
    <3>3. (i + 1 <= j) <=> (i <= k)
      BY <3>1
    <3>4. j - (i + 1) = k - i /\ 256 + j - (i + 1) = 256 + k - i
      BY <3>1
    <3> QED
      BY <2>3, <3>2, <3>3, <3>4
  <2> QED
    BY <2>2, <2>3
<1>2. Rot(f, i + 1) = [j \in Index |-> IF j = 0 THEN 0 - g[255] ELSE g[j - 1]]
  BY <1>1 DEF Rot
<1> QED
  BY <1>2 DEF Shift

\* f is h without its first.
Follows(f, h, n) == \A i \in Nat : i < n => f[i] = h[i + 1]

\* The first summand and the sum of the others.
LEMMA TotalFollows ==
  ASSUME NEW h \in [Nat -> Int], NEW f \in [Nat -> Int], NEW n \in Nat, Follows(f, h, n)
  PROVE  Total(h)[n + 1] = h[0] + Total(f)[n]
<1> DEFINE X == {m \in Nat : m <= n => Total(h)[m + 1] = h[0] + Total(f)[m]}
<1>1. X \in SUBSET Nat
  OBVIOUS
<1>2. 0 \in X
  <2>1. 0 \in Nat /\ Total(h)[0] = 0 /\ Total(f)[0] = 0 /\ h[0] \in Int
    BY TotalIs
  <2>2. Total(h)[0 + 1] = Total(h)[0] + h[0]
    BY <2>1, TotalIs
  <2> QED
    BY <2>1, <2>2
<1>3. ASSUME NEW m \in X PROVE m + 1 \in X
  <2> SUFFICES ASSUME m + 1 <= n PROVE Total(h)[(m + 1) + 1] = h[0] + Total(f)[m + 1]
    OBVIOUS
  <2>1. Total(h)[m + 1] = h[0] + Total(f)[m] /\ m \in Nat /\ m + 1 \in Nat
    OBVIOUS
  <2>2. f[m] = h[m + 1]
    BY <2>1 DEF Follows
  <2>3. Total(h)[(m + 1) + 1] = Total(h)[m + 1] + h[m + 1]
    BY <2>1, TotalIs
  <2>4. Total(f)[m + 1] = Total(f)[m] + f[m]
    BY <2>1, TotalIs
  <2>5. Total(f)[m] \in Int /\ f[m] \in Int /\ h[0] \in Int
    BY <2>1, TotalIs
  <2> QED
    BY <2>1, <2>2, <2>3, <2>4, <2>5
<1>4. \A m \in Nat : m \in X
  <2> HIDE DEF X
  <2> QED
    BY <1>1, <1>2, <1>3, Induction
<1> QED
  BY <1>4

\* The places of the pairs one further.
LEMMA NextPairs ==
  ASSUME NEW t \in Nat
  PROVE  /\ 1 + 2 * t < 256 <=> t < 128
         /\ 0 + 2 * t < 256 <=> t < 128
         /\ t < 128 => /\ 1 + 2 * t \in Index /\ 0 + 2 * t \in Index /\ 1 + 2 * t # 0
                       /\ (1 + 2 * t) - 1 = 0 + 2 * t
         /\ t < 127 => /\ 0 + 2 * (t + 1) \in Index /\ 0 + 2 * (t + 1) # 0
                       /\ 0 + 2 * (t + 1) < 256
                       /\ (0 + 2 * (t + 1)) - 1 = 1 + 2 * t
BY SMT DEF Index

\* -1 is the power 128 w of the root.
Opposite(w) == w \in Nat /\ Root(128 * w) = 3328

\* The odd coefficients of X f are the even ones of f.
LEMMA ShiftOdd ==
  ASSUME NEW f \in [Index -> Int], NEW w
  PROVE  Stage(Shift(f), 2, w, 1) = Stage(f, 2, w, 0)
<1>1. ASSUME NEW t \in Nat
      PROVE  (IF 1 + 2 * t < 256 THEN Shift(f)[1 + 2 * t] * Root(w * t) ELSE 0)
             = (IF 0 + 2 * t < 256 THEN f[0 + 2 * t] * Root(w * t) ELSE 0)
  <2>1. CASE t < 128
    <3>1. Shift(f)[1 + 2 * t] = f[0 + 2 * t]
      BY <2>1, NextPairs DEF Shift
    <3> QED
      BY <2>1, <3>1, NextPairs
  <2>2. CASE ~(t < 128)
    BY <2>2, NextPairs
  <2> QED
    BY <2>1, <2>2
<1>2. Term(Shift(f), 2, w, 1) = Term(f, 2, w, 0)
  BY <1>1 DEF Term
<1> QED
  BY <1>2 DEF Stage


\* The even coefficients of X f are the odd ones of f, times X^2.
LEMMA ShiftEven ==
  ASSUME NEW f \in [Index -> Int], NEW w, Opposite(w)
  PROVE  Same(Stage(Shift(f), 2, w, 0), Root(w) * Stage(f, 2, w, 1))
<1> DEFINE g == Shift(f)
           u == Term(g, 2, w, 0)
           v == Term(f, 2, w, 1)
           z == Root(w)
           h == [i \in Nat |-> u[i + 1]]
           k == [i \in Nat |-> z * v[i]]
<1>0. w \in Nat /\ Root(128 * w) = 3328 /\ z \in Int /\ g \in [Index -> Int]
  BY RootType, ShiftType DEF Opposite
<1>1. u \in [Nat -> Int] /\ v \in [Nat -> Int]
  <2>1. w \in Nat /\ g \in [Index -> Int]
    BY <1>0
  <2> HIDE DEF g
  <2>2. u \in [Nat -> Int]
    <3>1. 2 \in Nat /\ 0 \in Nat
      OBVIOUS
    <3> QED
      BY <2>1, <3>1, TermType
  <2>3. v \in [Nat -> Int]
    <3>1. 2 \in Nat /\ 1 \in Nat
      OBVIOUS
    <3> QED
      BY <2>1, <3>1, TermType
  <2> QED
    BY <2>2, <2>3
<1>2. ASSUME NEW t \in Nat, t < 127 PROVE Same(u[t + 1], z * v[t])
  <2> DEFINE x == f[1 + 2 * t]
             a == Root(w * t)
             b == Root(w * (t + 1))
             p == a * z
  <2>1. u[t + 1] = x * b
    <3>1. g[0 + 2 * (t + 1)] = x
      BY <1>2, NextPairs DEF Shift
    <3>2. t + 1 \in Nat /\ 0 + 2 * (t + 1) < 256
      BY <1>2, NextPairs
    <3> HIDE DEF g
    <3>3. u[t + 1] = g[0 + 2 * (t + 1)] * Root(w * (t + 1))
      BY <3>2 DEF Term
    <3> QED
      BY <3>1, <3>3
  <2>2. v[t] = x * a /\ x \in Int
    <3>1. 1 + 2 * t < 256 /\ 1 + 2 * t \in Index
      BY <1>2, NextPairs
    <3> QED
      BY <3>1 DEF Term
  <2>3. w * t \in Nat /\ w * (t + 1) = w * t + w /\ w * (t + 1) \in Nat
    BY <1>0
  <2>4. a \in Int /\ b \in Int
    BY <2>3, RootType
  <2>5. Same(b, p)
    BY <1>0, <2>3, RootAdd
  <2> HIDE DEF a, b, x, z
  <2>6. p \in Int
    BY <1>0, <2>4
  <2>7. Same(x * b, x * p)
    <3> HIDE DEF p
    <3> QED
      BY <2>2, <2>4, <2>5, <2>6, SameTimes
  <2>8. z * v[t] = x * p
    <3>1. z * (x * a) = x * (a * z)
      BY <1>0, <2>2, <2>4
    <3> QED
      BY <2>2, <3>1
  <2> QED
    BY <2>1, <2>7, <2>8
<1>3. Same(u[0], z * v[127])
  <2> DEFINE x == f[255]
             a == Root(w * 127)
             p == a * z
             m == 0 - x
             y == 3328 * x
             o == x * p
  <2>1. u[0] = m
    <3>1. g[0 + 2 * 0] = m /\ 0 + 2 * 0 < 256
      BY DEF Shift, Index
    <3>2. Root(w * 0) = 1
      BY <1>0, SmallPowers DEF Root
    <3> HIDE DEF g
    <3>3. u[0] = g[0 + 2 * 0] * Root(w * 0)
      BY <3>1 DEF Term
    <3>4. m \in Int
      BY DEF Index
    <3> QED
      BY <3>1, <3>2, <3>3, <3>4
  <2>2. v[127] = x * a /\ x \in Int
    <3>1. 1 + 2 * 127 < 256 /\ 1 + 2 * 127 = 255 /\ 255 \in Index
      BY DEF Index
    <3> QED
      BY <3>1 DEF Term
  <2>3. w * 127 \in Nat /\ w * 127 + w = 128 * w
    BY <1>0
  <2>4. a \in Int
    BY <2>3, RootType
  <2>5. Same(3328, p)
    <3>1. Same(Root(w * 127 + w), a * z)
      BY <1>0, <2>3, RootAdd
    <3> QED
      BY <1>0, <2>3, <3>1
  <2> HIDE DEF a, x, z
  <2>6. p \in Int /\ y \in Int /\ o \in Int /\ m \in Int /\ x * 3328 = y
    BY <1>0, <2>2, <2>4
  <2>7. Same(y, o)
    <3> DEFINE c == 3328
    <3>1. x * c = y
      BY <2>2
    <3>2. c \in Int /\ p \in Int /\ x \in Int /\ Same(c, p)
      BY <2>2, <2>5, <2>6
    <3> HIDE DEF p, y, c
    <3>3. Same(x * c, x * p)
      BY <3>2, SameTimes
    <3> QED
      BY <3>1, <3>3
  <2>8. Same(m, y)
    <3> DEFINE n == 0 - x
    <3>1. Apart(m, y, n)
      BY <2>2, <2>6 DEF Apart
    <3> HIDE DEF m, y, n
    <3> QED
      BY <2>6, <3>1, SameIs
  <2>9. z * v[127] = o
    <3>1. z * (x * a) = x * (a * z)
      BY <1>0, <2>2, <2>4
    <3> QED
      BY <2>2, <3>1
  <2> HIDE DEF m, y, o
  <2>10. Same(m, o)
    BY <2>6, <2>7, <2>8, SameTrans
  <2> QED
    BY <2>1, <2>9, <2>10
<1> HIDE DEF u, v, z
<1>4. h \in [Nat -> Int] /\ k \in [Nat -> Int]
  <2>1. \A i \in Nat : u[i + 1] \in Int /\ z * v[i] \in Int
    BY <1>0, <1>1
  <2> QED
    BY <2>1
<1>5. Follows(h, u, 127) /\ Alike(h, k, 127) /\ Scales(k, z, v, 127)
  BY <1>2 DEF Follows, Alike, Scales
<1> HIDE DEF h, k
<1> DEFINE th == Total(h)[127]
           tk == Total(k)[127]
           tv == Total(v)[127]
           tw == Total(v)[128]
           tu == Total(u)[128]
           u0 == u[0]
           v1 == v[127]
           q == z * v1
<1>6. tu = u0 + th /\ Same(th, tk) /\ tk = z * tv
  <2>1. 127 \in Nat /\ 127 + 1 = 128
    OBVIOUS
  <2>2. Total(u)[127 + 1] = u[0] + Total(h)[127]
    BY <1>1, <1>4, <1>5, <2>1, TotalFollows
  <2>3. Same(Total(h)[127], Total(k)[127])
    BY <1>4, <1>5, <2>1, TotalSame
  <2>4. Total(k)[127] = z * Total(v)[127]
    BY <1>0, <1>1, <1>4, <1>5, <2>1, TotalScales
  <2> QED
    BY <2>1, <2>2, <2>3, <2>4
<1>7. tw = tv + v1
  <2>1. 127 \in Nat /\ 127 + 1 = 128
    OBVIOUS
  <2> QED
    BY <1>1, <2>1, TotalIs
<1>8. th \in Int /\ tk \in Int /\ tv \in Int /\ u0 \in Int /\ v1 \in Int /\ tu \in Int
  BY <1>1, <1>4, TotalIs
<1>9. Stage(Shift(f), 2, w, 0) = tu /\ Stage(f, 2, w, 1) = tw
  BY DEF Stage, u, v
<1> HIDE DEF th, tk, tv, tw, tu, u0, v1, g
<1>10. q \in Int /\ z * tw = q + tk
  BY <1>0, <1>6, <1>7, <1>8
<1>11. Same(u0, q)
  BY <1>3 DEF u0, v1
<1> HIDE DEF q
<1>12. Same(u0 + th, q + tk)
  BY <1>6, <1>8, <1>10, <1>11, SameSum
<1> QED
  BY <1>6, <1>9, <1>10, <1>12 DEF z


\* X^2 is the factor w.
LEMMA TwoShifts ==
  ASSUME NEW f \in [Index -> Int], NEW w, Opposite(w), NEW c \in 0 .. 1
  PROVE  Same(Stage(Shift(Shift(f)), 2, w, c), Root(w) * Stage(f, 2, w, c))
<1> DEFINE g == Shift(f)
<1>1. g \in [Index -> Int]
  BY ShiftType
<1>2. /\ Stage(Shift(g), 2, w, 1) = Stage(g, 2, w, 0)
      /\ Same(Stage(g, 2, w, 0), Root(w) * Stage(f, 2, w, 1))
      /\ Stage(g, 2, w, 1) = Stage(f, 2, w, 0)
  BY <1>1, ShiftOdd, ShiftEven
<1>3. Same(Stage(Shift(g), 2, w, 0), Root(w) * Stage(g, 2, w, 1))
  <2> HIDE DEF g
  <2> QED
    BY <1>1, ShiftEven
<1> QED
  BY <1>2, <1>3

\* X^2m is the factor w^m.
LEMMA RotStage ==
  ASSUME NEW f \in [Index -> Int], NEW w, Opposite(w), NEW c \in 0 .. 1, NEW d \in 0 .. 1,
         NEW k \in 0 .. 127
  PROVE  Same(Stage(Rot(f, 2 * k + d), 2, w, c), Root(w * k) * Stage(Rot(f, d), 2, w, c))
<1> DEFINE S(m) == Stage(Rot(f, 2 * m + d), 2, w, c)
           s == Stage(Rot(f, d), 2, w, c)
           X == {m \in Nat : m <= 127 => Same(S(m), Root(w * m) * s)}
<1>0. w \in Nat
  BY DEF Opposite
<1>1. ASSUME NEW m \in Nat, m <= 127 PROVE S(m) \in Int
  <2> DEFINE g == Rot(f, 2 * m + d)
  <2>1. 2 * m + d \in Index
    BY <1>1 DEF Index
  <2>2. g \in [Index -> Int]
    BY <2>1, RotType
  <2>3. 2 \in Lens \cup {256} /\ c \in Nat
    BY DEF Lens
  <2> HIDE DEF g
  <2>4. Stage(g, 2, w, c) \in Int
    BY <1>0, <2>2, <2>3, StageType
  <2> QED
    BY <2>4 DEF g
<1>2. 2 * 0 + d = d /\ 0 \in Nat /\ 0 <= 127
  OBVIOUS
<1>3. S(0) = s /\ s \in Int
  BY <1>1, <1>2
<1>4. X \in SUBSET Nat
  OBVIOUS
<1>5. 0 \in X
  <2>1. Root(w * 0) = 1
    BY <1>0, SmallPowers DEF Root
  <2> HIDE DEF s, S
  <2>2. Same(S(0), Root(w * 0) * s)
    BY <1>3, <2>1, SameRefl
  <2> QED
    BY <2>2
<1>6. ASSUME NEW m \in X PROVE m + 1 \in X
  <2> SUFFICES ASSUME m + 1 <= 127 PROVE Same(S(m + 1), Root(w * (m + 1)) * s)
    OBVIOUS
  <2> DEFINE z == Root(w)
             a == Root(w * m)
             b == Root(w * (m + 1))
             x == S(m)
             y == S(m + 1)
             p == a * z
             as == a * s
             ps == p * s
             bs == b * s
             zx == z * x
  <2>1. m \in Nat /\ m <= 127 /\ m + 1 \in Nat /\ Same(x, as)
    OBVIOUS
  <2>2. /\ w * m \in Nat /\ w * (m + 1) = w * m + w /\ w * (m + 1) \in Nat
    BY <1>0, <2>1
  <2>3. z \in Int /\ a \in Int /\ b \in Int /\ x \in Int /\ y \in Int
    BY <1>0, <1>1, <2>1, <2>2, RootType
  <2>4. Same(b, p)
    BY <1>0, <2>2, RootAdd
  <2>5. Same(y, zx)
    <3> DEFINE i == 2 * m + d
               g == Rot(f, i)
    <3>1. i \in 0 .. 254 /\ i + 1 \in 0 .. 254 /\ i \in Index /\ 2 * (m + 1) + d = (i + 1) + 1
      BY <2>1 DEF Index
    <3> HIDE DEF i
    <3>2. Rot(f, (i + 1) + 1) = Shift(Shift(g))
      BY <3>1, RotNext
    <3>3. g \in [Index -> Int]
      BY <3>1, RotType
    <3> HIDE DEF g
    <3>4. Same(Stage(Shift(Shift(g)), 2, w, c), Root(w) * Stage(g, 2, w, c))
      BY <3>3, TwoShifts
    <3> QED
      BY <3>1, <3>2, <3>4 DEF g, i
  <2> HIDE DEF S, s, X, z, a, b, x, y
  <2>6. /\ as \in Int /\ p \in Int /\ ps \in Int /\ bs \in Int /\ zx \in Int /\ z * as = ps
    BY <1>3, <2>3
  <2>7. Same(zx, ps)
    <3> HIDE DEF as
    <3>1. Same(z * x, z * as)
      BY <2>1, <2>3, <2>6, SameTimes
    <3> QED
      BY <2>6, <3>1
  <2>8. Same(bs, ps)
    <3>1. Same(s, s)
      BY <1>3, SameRefl
    <3> HIDE DEF p
    <3> QED
      BY <1>3, <2>3, <2>4, <2>6, <3>1, SameProduct
  <2> HIDE DEF bs, ps, zx
  <2>9. Same(y, ps) /\ Same(ps, bs)
    BY <2>3, <2>5, <2>6, <2>7, <2>8, SameTrans, SameSym
  <2>10. Same(y, bs)
    BY <2>3, <2>6, <2>9, SameTrans
  <2> QED
    BY <2>10 DEF y, bs, b
<1>7. \A m \in Nat : m \in X
  <2> HIDE DEF X
  <2> QED
    BY <1>4, <1>5, <1>6, Induction
<1>8. k \in Nat /\ k <= 127 /\ k \in X
  BY <1>7
<1> QED
  BY <1>8


\* The product of two polynomials is the sum of the a[k] X^k b.
Row(a, b, j) == [k \in Nat |-> IF k < 256 THEN a[k] * Rot(b, k)[j] ELSE 0]
Prod(a, b) == [j \in Index |-> Total(Row(a, b, j))[256]]

\* The summands of a coefficient of the product are integers,
LEMMA RowType ==
  ASSUME NEW a \in [Index -> Int], NEW b \in [Index -> Int], NEW j \in Index
  PROVE  Row(a, b, j) \in [Nat -> Int]
<1> DEFINE V(k) == IF k < 256 THEN a[k] * Rot(b, k)[j] ELSE 0
<1>1. ASSUME NEW k \in Nat PROVE V(k) \in Int
  <2>1. CASE k < 256
    <3> DEFINE x == a[k]
               y == Rot(b, k)[j]
    <3>1. k \in Index
      BY <2>1 DEF Index
    <3>2. x \in Int
      BY <3>1
    <3>3. y \in Int
      BY <3>1, RotType
    <3> HIDE DEF x, y
    <3>4. x * y \in Int
      BY <3>2, <3>3
    <3> QED
      BY <2>1, <3>4 DEF x, y
  <2>2. CASE ~(k < 256)
    BY <2>2
  <2> QED
    BY <2>1, <2>2
<1> HIDE DEF V
<1>2. [k \in Nat |-> V(k)] \in [Nat -> Int]
  BY <1>1
<1> QED
  BY <1>2 DEF Row, V

\* and so are its coefficients.
LEMMA ProdType ==
  ASSUME NEW a \in [Index -> Int], NEW b \in [Index -> Int]
  PROVE  Prod(a, b) \in [Index -> Int]
<1>1. ASSUME NEW j \in Index PROVE Total(Row(a, b, j))[256] \in Int
  <2> DEFINE f == Row(a, b, j)
  <2>1. f \in [Nat -> Int]
    BY RowType
  <2> HIDE DEF f
  <2>2. Total(f)[256] \in Int
    BY <2>1, TotalIs
  <2> QED
    BY <2>2 DEF f
<1> QED
  BY <1>1 DEF Prod

\* The summands of a remainder of the product.
Cell(a, b, w, c, t, k) == a[k] * (Rot(b, k)[c + 2 * t] * Root(w * t))
Grid(a, b, w, c) ==
  [t \in Nat |-> [k \in Nat |-> IF t < 128 /\ k < 256 THEN Cell(a, b, w, c, t, k) ELSE 0]]

\* The odd and the even places.
LEMMA GridPlace ==
  ASSUME NEW t \in Nat, NEW c \in 0 .. 1
  PROVE  /\ c + 2 * t < 256 <=> t < 128
         /\ t < 128 => c + 2 * t \in Index
BY SMT DEF Index

\* They are integers.
LEMMA GridType ==
  ASSUME NEW a \in [Index -> Int], NEW b \in [Index -> Int], NEW w \in Nat, NEW c \in 0 .. 1
  PROVE  Grid(a, b, w, c) \in [Nat -> [Nat -> Int]]
<1> DEFINE V(t, k) == IF t < 128 /\ k < 256 THEN Cell(a, b, w, c, t, k) ELSE 0
<1>1. ASSUME NEW t \in Nat, NEW k \in Nat PROVE V(t, k) \in Int
  <2>1. CASE t < 128 /\ k < 256
    <3> DEFINE x == a[k]
               i == c + 2 * t
               y == Rot(b, k)[i]
               z == Root(w * t)
    <3>1. k \in Index
      BY <2>1 DEF Index
    <3>i. i \in Index
      BY <2>1, GridPlace
    <3>t. w * t \in Nat
      OBVIOUS
    <3>2. x \in Int
      BY <3>1
    <3> HIDE DEF i
    <3>3. y \in Int
      <4>1. Rot(b, k) \in [Index -> Int]
        BY <3>1, RotType
      <4> QED
        BY <3>i, <4>1
    <3>4. z \in Int
      BY <3>t, RootType
    <3> HIDE DEF x, y, z
    <3>5. x * (y * z) \in Int
      BY <3>2, <3>3, <3>4
    <3> QED
      BY <2>1, <3>5 DEF x, y, z, i, Cell
  <2>2. CASE ~(t < 128 /\ k < 256)
    BY <2>2
  <2> QED
    BY <2>1, <2>2
<1> HIDE DEF V
<1>2. [t \in Nat |-> [k \in Nat |-> V(t, k)]] \in [Nat -> [Nat -> Int]]
  BY <1>1
<1> QED
  BY <1>2 DEF Grid, V

\* A row of summands is a coefficient of the product.
LEMMA GridRow ==
  ASSUME NEW a \in [Index -> Int], NEW b \in [Index -> Int], NEW w \in Nat, NEW c \in 0 .. 1,
         NEW t \in Nat, t < 128
  PROVE  Total(Grid(a, b, w, c)[t])[256] = Term(Prod(a, b), 2, w, c)[t]
<1> DEFINE g == Grid(a, b, w, c)[t]
           i == c + 2 * t
           f == Row(a, b, i)
           z == Root(w * t)
           p == Prod(a, b)
<1>1. i \in Index /\ i < 256 /\ w * t \in Nat
  <2>1. w * t \in Nat
    OBVIOUS
  <2> QED
    BY <2>1, GridPlace
<1>2. g \in [Nat -> Int]
  BY GridType
<1>3. f \in [Nat -> Int] /\ z \in Int
  <2> HIDE DEF i
  <2> QED
    BY <1>1, RowType, RootType
<1>4. ASSUME NEW k \in Nat, k < 256 PROVE g[k] = z * f[k]
  <2> DEFINE x == a[k]
             y == Rot(b, k)[i]
  <2>1. g[k] = x * (y * z)
    BY <1>4 DEF Grid, Cell
  <2>2. f[k] = x * y
    BY <1>4 DEF Row
  <2>3. x \in Int /\ y \in Int
    <3>1. k \in Index
      BY <1>4 DEF Index
    <3>2. Rot(b, k) \in [Index -> Int]
      BY <3>1, RotType
    <3> HIDE DEF i
    <3> QED
      BY <1>1, <3>1, <3>2
  <2> HIDE DEF x, y, z, g, f
  <2>4. x * (y * z) = z * (x * y)
    BY <1>3, <2>3
  <2> QED
    BY <2>1, <2>2, <2>4
<1>5. Term(p, 2, w, c)[t] = p[i] * z
  <2> HIDE DEF p
  <2> QED
    BY <1>1 DEF Term
<1>6. p[i] = Total(f)[256]
  <2> HIDE DEF i
  <2> QED
    BY <1>1 DEF Prod, f
<1> HIDE DEF g, f, z, p
<1>7. Scales(g, z, f, 256)
  BY <1>4 DEF Scales
<1>8. 256 \in Nat
  OBVIOUS
<1>9. Total(g)[256] = z * Total(f)[256]
  BY <1>2, <1>3, <1>7, <1>8, TotalScales
<1>10. Total(f)[256] \in Int
  BY <1>3, <1>8, TotalIs
<1>11. Total(g)[256] = Term(p, 2, w, c)[t]
  BY <1>3, <1>5, <1>6, <1>9, <1>10
<1> QED
  BY <1>11 DEF g, p

\* A column of summands is a coefficient of a times a remainder of X^k b.
LEMMA GridColumn ==
  ASSUME NEW a \in [Index -> Int], NEW b \in [Index -> Int], NEW w \in Nat, NEW c \in 0 .. 1,
         NEW k \in Index
  PROVE  Total(Column(Grid(a, b, w, c), k))[128] = a[k] * Stage(Rot(b, k), 2, w, c)
<1> DEFINE F == Grid(a, b, w, c)
           g == Column(F, k)
           e == Rot(b, k)
           f == Term(e, 2, w, c)
           x == a[k]
<1>1. k \in Nat /\ k < 256 /\ x \in Int
  BY DEF Index
<1>2. g \in [Nat -> Int]
  <2>1. F \in [Nat -> [Nat -> Int]]
    BY GridType
  <2> HIDE DEF F
  <2> QED
    BY <1>1, <2>1 DEF Column
<1>3. f \in [Nat -> Int]
  <2>1. 2 \in Nat /\ c \in Nat /\ e \in [Index -> Int]
    BY RotType
  <2> HIDE DEF e
  <2> QED
    BY <2>1, TermType
<1>4. ASSUME NEW t \in Nat, t < 128 PROVE g[t] = x * f[t]
  <2>1. g[t] = F[t][k]
    BY DEF Column
  <2>2. F[t][k] = x * (e[c + 2 * t] * Root(w * t))
    BY <1>1, <1>4 DEF Grid, Cell
  <2>3. f[t] = e[c + 2 * t] * Root(w * t)
    <3>1. c + 2 * t < 256
      BY <1>4, GridPlace
    <3> HIDE DEF e
    <3> QED
      BY <3>1 DEF Term
  <2> HIDE DEF g, f, F, e, x
  <2> QED
    BY <2>1, <2>2, <2>3
<1>5. Stage(e, 2, w, c) = Total(f)[128]
  BY DEF Stage
<1> HIDE DEF g, f, x
<1>6. Scales(g, x, f, 128)
  BY <1>4 DEF Scales
<1>7. 128 \in Nat
  OBVIOUS
<1>8. Total(g)[128] = x * Total(f)[128]
  BY <1>1, <1>2, <1>3, <1>6, <1>7, TotalScales
<1> QED
  BY <1>5, <1>8 DEF g, x


\* What every second place of a adds to a remainder of the product.
Share(e, a, b, w, c, d) ==
  \A m \in Nat : m < 128 => e[m] = a[2 * m + d] * Stage(Rot(b, 2 * m + d), 2, w, c)

\* It is a remainder of a times one of b.
LEMMA HalfSum ==
  ASSUME NEW a \in [Index -> Int], NEW b \in [Index -> Int], NEW w, Opposite(w),
         NEW c \in 0 .. 1, NEW d \in 0 .. 1, NEW e \in [Nat -> Int], Share(e, a, b, w, c, d)
  PROVE  Same(Total(e)[128], Stage(Rot(b, d), 2, w, c) * Stage(a, 2, w, d))
<1> DEFINE v == Term(a, 2, w, d)
           s == Stage(Rot(b, d), 2, w, c)
           k == [m \in Nat |-> s * v[m]]
<1>0. w \in Nat
  BY DEF Opposite
<1>1. v \in [Nat -> Int]
  <2>1. 2 \in Nat /\ d \in Nat
    OBVIOUS
  <2> QED
    BY <1>0, <2>1, TermType
<1>2. s \in Int
  <2> DEFINE g == Rot(b, d)
  <2>1. d \in Index
    BY DEF Index
  <2>2. g \in [Index -> Int]
    BY <2>1, RotType
  <2>3. 2 \in Lens \cup {256} /\ c \in Nat
    BY DEF Lens
  <2> HIDE DEF g
  <2>4. Stage(g, 2, w, c) \in Int
    BY <1>0, <2>2, <2>3, StageType
  <2> QED
    BY <2>4 DEF g
<1>3. ASSUME NEW m \in Nat, m < 128 PROVE Same(e[m], s * v[m])
  <2> DEFINE x == a[2 * m + d]
             y == Stage(Rot(b, 2 * m + d), 2, w, c)
             z == Root(w * m)
             p == z * s
  <2>1. m \in 0 .. 127 /\ 2 * m + d \in Index /\ d + 2 * m = 2 * m + d /\ d + 2 * m < 256
    <3>1. m \in 0 .. 127
      BY <1>3
    <3> QED
      BY <3>1, PairPlaces
  <2>2. e[m] = x * y
    BY <1>3 DEF Share
  <2>3. v[m] = x * z
    BY <2>1 DEF Term
  <2>4. x \in Int
    BY <2>1
  <2>5. w * m \in Nat
    BY <1>0
  <2>6. z \in Int
    BY <2>5, RootType
  <2>7. Same(y, p)
    BY <2>1, RotStage
  <2>8. y \in Int
    <3> DEFINE i == 2 * m + d
               g == Rot(b, i)
    <3>1. i \in Index
      BY <2>1
    <3> HIDE DEF i
    <3>2. g \in [Index -> Int]
      BY <3>1, RotType
    <3>3. 2 \in Lens \cup {256} /\ c \in Nat
      BY DEF Lens
    <3> HIDE DEF g
    <3>4. Stage(g, 2, w, c) \in Int
      BY <1>0, <3>2, <3>3, StageType
    <3> QED
      BY <3>4 DEF g, i
  <2> HIDE DEF x, y, z, s, v
  <2>9. p \in Int
    BY <1>2, <2>6
  <2>10. Same(x * y, x * p)
    <3> HIDE DEF p
    <3> QED
      BY <2>4, <2>7, <2>8, <2>9, SameTimes
  <2>11. x * p = s * (x * z)
    BY <1>2, <2>4, <2>6
  <2> QED
    BY <2>2, <2>3, <2>10, <2>11
<1>4. Stage(a, 2, w, d) = Total(v)[128]
  BY DEF Stage
<1> HIDE DEF v, s
<1>5. k \in [Nat -> Int]
  <2>1. \A m \in Nat : s * v[m] \in Int
    BY <1>1, <1>2
  <2> QED
    BY <2>1
<1>6. Alike(e, k, 128) /\ Scales(k, s, v, 128)
  BY <1>3 DEF Alike, Scales
<1> HIDE DEF k
<1>7. 128 \in Nat
  OBVIOUS
<1>8. Same(Total(e)[128], Total(k)[128])
  BY <1>5, <1>6, <1>7, TotalSame
<1>9. Total(k)[128] = s * Total(v)[128]
  BY <1>1, <1>2, <1>5, <1>6, <1>7, TotalScales
<1> QED
  BY <1>4, <1>8, <1>9 DEF s

\* A remainder of the product, from those of the even and of the odd places of a.
LEMMA Convolution ==
  ASSUME NEW a \in [Index -> Int], NEW b \in [Index -> Int], NEW w, Opposite(w), NEW c \in 0 .. 1
  PROVE  Same(Stage(Prod(a, b), 2, w, c),
              Stage(Rot(b, 0), 2, w, c) * Stage(a, 2, w, 0)
              + Stage(Rot(b, 1), 2, w, c) * Stage(a, 2, w, 1))
<1> DEFINE F == Grid(a, b, w, c)
           p == Prod(a, b)
           f == Term(p, 2, w, c)
           R == Rows(F, 256)
           C == Columns(F, 128)
           e == [m \in Nat |-> C[2 * m]]
           o == [m \in Nat |-> C[2 * m + 1]]
<1>0. w \in Nat
  BY DEF Opposite
<1>1. F \in [Nat -> [Nat -> Int]]
  BY <1>0, GridType
<1>2. f \in [Nat -> Int]
  <2>1. 2 \in Nat /\ c \in Nat /\ p \in [Index -> Int]
    BY ProdType
  <2> HIDE DEF p
  <2> QED
    BY <1>0, <2>1, TermType
<1>3. ASSUME NEW t \in Nat, t < 128 PROVE R[t] = f[t]
  <2>1. Total(F[t])[256] = f[t]
    BY <1>0, <1>3, GridRow
  <2> HIDE DEF F, f
  <2> QED
    BY <2>1 DEF Rows
<1>4. ASSUME NEW k \in Index PROVE C[k] = a[k] * Stage(Rot(b, k), 2, w, c)
  <2>1. Total(Column(F, k))[128] = a[k] * Stage(Rot(b, k), 2, w, c)
    BY <1>0, GridColumn
  <2>2. k \in Nat
    BY DEF Index
  <2> HIDE DEF F
  <2> QED
    BY <2>1, <2>2 DEF Columns
<1>5. Stage(p, 2, w, c) = Total(f)[128]
  BY DEF Stage
<1> HIDE DEF F, f
<1>6. R \in [Nat -> Int] /\ C \in [Nat -> Int] /\ Total(R)[128] = Total(C)[256]
  <2>1. 256 \in Nat /\ 128 \in Nat
    OBVIOUS
  <2> QED
    BY <1>1, <2>1, TotalSwap
<1> HIDE DEF R, C
<1>7. Same(Total(f)[128], Total(R)[128])
  <2>1. ASSUME NEW t \in Nat, t < 128 PROVE Same(f[t], R[t])
    <3>1. f[t] \in Int /\ R[t] = f[t]
      BY <1>2, <1>3, <2>1
    <3> QED
      BY <3>1, SameRefl
  <2>2. Alike(f, R, 128) /\ 128 \in Nat
    BY <2>1 DEF Alike
  <2> QED
    BY <1>2, <1>6, <2>2, TotalSame
<1>8. e \in [Nat -> Int] /\ o \in [Nat -> Int]
  BY <1>6
<1>9. Splits(C, e, o, 128)
  BY DEF Splits
<1>10. Share(e, a, b, w, c, 0) /\ Share(o, a, b, w, c, 1)
  <2>1. ASSUME NEW m \in Nat, m < 128
        PROVE  /\ e[m] = a[2 * m + 0] * Stage(Rot(b, 2 * m + 0), 2, w, c)
               /\ o[m] = a[2 * m + 1] * Stage(Rot(b, 2 * m + 1), 2, w, c)
    <3>1. 2 * m + 0 \in Index /\ 2 * m + 1 \in Index /\ 2 * m = 2 * m + 0
      BY <2>1 DEF Index
    <3>2. e[m] = C[2 * m + 0] /\ o[m] = C[2 * m + 1]
      BY <3>1
    <3> HIDE DEF e, o
    <3> QED
      BY <1>4, <3>1, <3>2
  <2> HIDE DEF e, o
  <2> QED
    BY <2>1 DEF Share
<1> HIDE DEF e, o
<1>11. Total(C)[256] = Total(e)[128] + Total(o)[128]
  <2>1. 128 \in Nat /\ 2 * 128 = 256
    OBVIOUS
  <2> QED
    BY <1>6, <1>8, <1>9, <2>1, TotalSplits
<1> DEFINE x == Stage(Rot(b, 0), 2, w, c) * Stage(a, 2, w, 0)
           y == Stage(Rot(b, 1), 2, w, c) * Stage(a, 2, w, 1)
           te == Total(e)[128]
           to == Total(o)[128]
           tf == Total(f)[128]
<1>12. Same(te, x) /\ Same(to, y)
  BY <1>8, <1>10, HalfSum
<1>13. te \in Int /\ to \in Int /\ tf \in Int
  BY <1>2, <1>8, TotalIs
<1>14. x \in Int /\ y \in Int
  <2>1. \A i \in 0 .. 1 : Stage(Rot(b, i), 2, w, c) \in Int /\ Stage(a, 2, w, i) \in Int
    <3> SUFFICES ASSUME NEW i \in 0 .. 1
                 PROVE  Stage(Rot(b, i), 2, w, c) \in Int /\ Stage(a, 2, w, i) \in Int
      OBVIOUS
    <3> DEFINE g == Rot(b, i)
    <3>1. i \in Index /\ i \in Nat /\ c \in Nat /\ 2 \in Lens \cup {256}
      BY DEF Index, Lens
    <3>2. g \in [Index -> Int]
      BY <3>1, RotType
    <3> HIDE DEF g
    <3>3. Stage(g, 2, w, c) \in Int /\ Stage(a, 2, w, i) \in Int
      BY <1>0, <3>1, <3>2, StageType
    <3> QED
      BY <3>3 DEF g
  <2>2. 0 \in 0 .. 1 /\ 1 \in 0 .. 1
    OBVIOUS
  <2> QED
    BY <2>1, <2>2
<1>15. Same(tf, te + to)
  BY <1>6, <1>7, <1>11
<1> HIDE DEF te, to, tf, x, y
<1>16. Same(te + to, x + y)
  BY <1>12, <1>13, <1>14, SameSum
<1>17. Same(tf, x + y)
  <2> DEFINE i == te + to
             j == x + y
  <2>1. i \in Int /\ j \in Int /\ Same(tf, i) /\ Same(i, j)
    BY <1>13, <1>14, <1>15, <1>16
  <2> HIDE DEF i, j
  <2>2. Same(tf, j)
    BY <1>13, <2>1, SameTrans
  <2> QED
    BY <2>2 DEF j
<1> QED
  BY <1>5, <1>17 DEF tf, x, y, p


\* The remainders modulo X^2 - w of a product are the products of the remainders.
LEMMA ProductRemainder ==
  ASSUME NEW a \in [Index -> Int], NEW b \in [Index -> Int], NEW w, Opposite(w)
  PROVE  /\ Same(Stage(Prod(a, b), 2, w, 0),
                 Stage(a, 2, w, 0) * Stage(b, 2, w, 0)
                 + Root(w) * (Stage(a, 2, w, 1) * Stage(b, 2, w, 1)))
         /\ Same(Stage(Prod(a, b), 2, w, 1),
                 Stage(a, 2, w, 0) * Stage(b, 2, w, 1) + Stage(a, 2, w, 1) * Stage(b, 2, w, 0))
<1> DEFINE g == Rot(b, 1)
           p == Prod(a, b)
           z == Root(w)
           a0 == Stage(a, 2, w, 0)
           a1 == Stage(a, 2, w, 1)
           b0 == Stage(b, 2, w, 0)
           b1 == Stage(b, 2, w, 1)
           r0 == Stage(g, 2, w, 0)
           r1 == Stage(g, 2, w, 1)
           p0 == Stage(p, 2, w, 0)
           p1 == Stage(p, 2, w, 1)
           zb == z * b1
           x == b0 * a0 + r0 * a1
           y == b0 * a0 + zb * a1
<1>0. w \in Nat
  BY DEF Opposite
<1>1. Rot(b, 0) = b /\ g = Shift(b) /\ g \in [Index -> Int]
  <2>1. 0 \in 0 .. 254 /\ 1 \in Index /\ 0 + 1 = 1
    BY DEF Index
  <2>2. Rot(b, 0 + 1) = Shift(Rot(b, 0))
    BY <2>1, RotNext
  <2>3. g \in [Index -> Int]
    BY <2>1, RotType
  <2> QED
    BY <2>1, <2>2, <2>3, RotZero
<1>2. p \in [Index -> Int]
  BY ProdType
<1>3. r1 = b0 /\ Same(r0, zb)
  BY <1>1, ShiftOdd, ShiftEven
<1>4. Same(p0, x) /\ Same(p1, b1 * a0 + r1 * a1)
  <2>1. 0 \in 0 .. 1 /\ 1 \in 0 .. 1
    OBVIOUS
  <2>2. Same(p0, Stage(Rot(b, 0), 2, w, 0) * a0 + r0 * a1)
    BY <2>1, Convolution
  <2>3. Same(p1, Stage(Rot(b, 0), 2, w, 1) * a0 + r1 * a1)
    BY <2>1, Convolution
  <2> HIDE DEF g, p, a0, a1, r0, r1
  <2> QED
    BY <1>1, <2>2, <2>3
<1> HIDE DEF g, p
<1>5. /\ a0 \in Int /\ a1 \in Int /\ b0 \in Int /\ b1 \in Int /\ r0 \in Int /\ p0 \in Int
  <2>1. 2 \in Lens \cup {256} /\ 0 \in Nat /\ 1 \in Nat
    BY DEF Lens
  <2>2. a0 \in Int /\ a1 \in Int
    BY <1>0, <2>1, StageType
  <2>3. b0 \in Int /\ b1 \in Int
    BY <1>0, <2>1, StageType
  <2>4. r0 \in Int
    BY <1>0, <1>1, <2>1, StageType
  <2>5. p0 \in Int
    BY <1>0, <1>2, <2>1, StageType
  <2> QED
    BY <2>2, <2>3, <2>4, <2>5
<1>6. z \in Int
  BY <1>0, RootType
<1> HIDE DEF z, a0, a1, b0, b1, r0, r1, p0, p1
<1>7. zb \in Int
  BY <1>5, <1>6
<1>8. Same(x, y)
  <2> DEFINE c == b0 * a0
             d == r0 * a1
             e == zb * a1
  <2>1. Same(a1, a1)
    BY <1>5, SameRefl
  <2>2. Same(d, e)
    <3> HIDE DEF zb
    <3> QED
      BY <1>3, <1>5, <1>7, <2>1, SameProduct
  <2> HIDE DEF zb
  <2>3. c \in Int /\ d \in Int /\ e \in Int
    BY <1>5, <1>7
  <2> HIDE DEF c, d, e
  <2>4. Same(c, c)
    BY <2>3, SameRefl
  <2>5. Same(c + d, c + e)
    BY <2>2, <2>3, <2>4, SameSum
  <2> QED
    BY <2>5 DEF c, d, e
<1>9. y = a0 * b0 + z * (a1 * b1) /\ b1 * a0 + r1 * a1 = a0 * b1 + a1 * b0
  BY <1>3, <1>5, <1>6
<1>10. Same(p0, y)
  <2>1. x \in Int /\ y \in Int
    <3> HIDE DEF zb
    <3> QED
      BY <1>5, <1>7
  <2> HIDE DEF x, y
  <2> QED
    BY <1>4, <1>5, <1>8, <2>1, SameTrans
<1> HIDE DEF y
<1>11. Same(p0, a0 * b0 + z * (a1 * b1)) /\ Same(p1, a0 * b1 + a1 * b0)
  BY <1>4, <1>9, <1>10
<1> QED
  BY <1>11 DEF p0, p1, a0, a1, b0, b1, z, p

\* The places of the table that poly_basemul_montgomery reads.
LEMMA BasePlaces ==
  ASSUME NEW i \in 0 .. 127
  PROVE  /\ 64 + (i \div 2) \in 1 .. 127
         /\ i % 2 = 0 => 2 * BitReverse(i) + 1 = BitReverse(64 + (i \div 2))
         /\ i % 2 # 0 => 2 * BitReverse(i) + 1 = BitReverse(64 + (i \div 2)) + 128
BY SMTT(60) DEF BitReverse

\* The factors of the products are the powers of the blocks.
LEMMA BaseZetaIs ==
  ASSUME NEW i \in 0 .. 127
  PROVE  /\ BaseZeta(i) \in Coefficient /\ Opposite(Exponent(2, i))
         /\ Same(BaseZeta(i), 65536 * Root(Exponent(2, i)))
<1> DEFINE k == 64 + (i \div 2)
           v == BitReverse(k)
           w == Exponent(2, i)
           z == Zeta(k)
           p == Root(v)
<1>1. k \in 1 .. 127
  BY BasePlaces
<1>2. v \in 0 .. 127 /\ BitReverse(i) \in 0 .. 127
  <2> HIDE DEF k
  <2>1. k \in 0 .. 127
    BY <1>1
  <2>2. BitReverse(k) \in 0 .. 127
    BY <2>1, Reversed
  <2>3. BitReverse(i) \in 0 .. 127
    BY Reversed
  <2> QED
    BY <2>2, <2>3
<1>3. w = 2 * BitReverse(i) + 1
  <2>1. 2 \div 2 = 1 /\ i * 1 = i
    OBVIOUS
  <2> QED
    BY <1>2, <2>1 DEF Exponent
<1>4. (i % 2 = 0 => w = v) /\ (i % 2 # 0 => w = v + 128)
  BY <1>3, BasePlaces
<1>5. BaseZeta(i) = (IF i % 2 = 0 THEN z ELSE 0 - z)
  BY DEF BaseZeta
<1> HIDE DEF k
<1>6. z \in Coefficient /\ Same(z, 65536 * p)
  BY <1>1, ZetaBound, ZetaIs
<1>7. Opposite(w)
  <2> DEFINE e == BitReverse(i)
  <2>1. e \in Nat /\ w = 2 * e + 1
    BY <1>2, <1>3
  <2> HIDE DEF e, w
  <2>2. w \in Nat /\ (128 * w) % 256 = 128
    BY <2>1
  <2> QED
    BY <2>2, SmallPowers DEF Opposite, Root
<1>8. z \in Int /\ 0 - z \in Coefficient
  BY <1>6, SMT DEF Coefficient
<1>9. p \in Int
  BY <1>2, RootType
<1> HIDE DEF z
<1>10. CASE i % 2 = 0
  BY <1>4, <1>5, <1>6, <1>7, <1>10
<1>11. CASE i % 2 # 0
  <2> DEFINE q == Root(w)
             m == 0 - p
             x == 65536 * p
             y == 65536 * q
             n == 65536 * m
             o == 0 - z
             t == 0 - x
  <2>1. Same(q, m) /\ q \in Int
    <3>1. v \in Nat /\ w = v + 128 /\ v + 128 \in Nat
      BY <1>2, <1>4, <1>11
    <3>2. Same(Root(v + 128), 0 - Root(v)) /\ Root(v + 128) \in Int
      BY <3>1, RootHalf, RootType
    <3> QED
      BY <3>1, <3>2
  <2> HIDE DEF q, p
  <2>2. m \in Int /\ x \in Int /\ y \in Int /\ n \in Int /\ o \in Int /\ t \in Int /\ t = n
    BY <1>8, <1>9, <2>1
  <2>3. Same(n, y)
    <3> HIDE DEF m
    <3>1. Same(m, q) /\ 65536 \in Int
      BY <2>1, <2>2, SameSym
    <3> DEFINE c == 65536
    <3>2. c \in Int
      OBVIOUS
    <3> HIDE DEF c
    <3>3. Same(c * m, c * q)
      BY <2>1, <2>2, <3>1, <3>2, SameTimes
    <3> QED
      BY <3>3 DEF c
  <2>4. Same(o, t)
    <3> DEFINE c == 0
    <3>1. c \in Int /\ Same(c, c) /\ Same(z, x)
      BY <1>6, SameRefl DEF p
    <3> HIDE DEF c, x
    <3>2. Same(c - z, c - x)
      BY <1>8, <2>2, <3>1, SameSum
    <3> QED
      BY <3>2 DEF c
  <2> HIDE DEF o, t, n, y
  <2>5. Same(o, y)
    BY <2>2, <2>3, <2>4, SameTrans
  <2> QED
    BY <1>5, <1>7, <1>8, <1>11, <2>5 DEF o, y, q
<1> QED
  BY <1>10, <1>11


\* fqmul multiplies and divides by 2^16.
LEMMA FqmulPair ==
  ASSUME NEW x \in Coefficient, NEW y \in Coefficient, NEW X \in Int, NEW Y \in Int,
         Same(x, X), Same(y, Y)
  PROVE  fqmul(x, y) \in Coefficient /\ Same(fqmul(x, y), 169 * (X * Y))
<1> DEFINE f == fqmul(x, y)
           m == X * Y
           p == x * y
           t == 65536 * f
           e == 169 * m
           o == 65536 * e
<1>1. f \in Coefficient /\ f \in Int /\ Same(t, p) /\ x \in Int /\ y \in Int
  <2>1. y \in Int16
    BY CoefficientType
  <2>2. f \in Coefficient /\ Same(65536 * fqmul(x, y), x * y)
    BY <2>1, FqmulBound, FqmulSame
  <2> QED
    BY <2>2 DEF Coefficient
<1>2. Same(p, m)
  BY <1>1, SameProduct
<1> HIDE DEF f
<1>3. m \in Int /\ p \in Int /\ t \in Int /\ e \in Int /\ o \in Int
  BY <1>1
<1> HIDE DEF m, p
<1>4. Same(o, m)
  BY <1>3, SameMont
<1> HIDE DEF t, o
<1>5. Same(m, o)
  BY <1>3, <1>4, SameSym
<1>6. Same(t, m)
  BY <1>1, <1>2, <1>3, SameTrans
<1>7. Same(t, o)
  BY <1>3, <1>5, <1>6, SameTrans
<1>8. Same(65536 * f, 65536 * e)
  BY <1>7 DEF t, o
<1> HIDE DEF e
<1>9. Same(f, e)
  BY <1>1, <1>3, <1>8, SameCancel
<1> QED
  BY <1>1, <1>9 DEF f, e, m

\* A pair of a product, from the pairs of the factors.
Pair(x, y, X, Y) == x \in Coefficient /\ y \in Coefficient /\ X \in Int /\ Y \in Int /\ Same(x, X) /\ Same(y, Y)

\* The lower one.
LEMMA LowerSame ==
  ASSUME NEW x0, NEW y0, NEW X0, NEW Y0, Pair(x0, y0, X0, Y0),
         NEW x1, NEW y1, NEW X1, NEW Y1, Pair(x1, y1, X1, Y1),
         NEW z \in Coefficient, NEW p \in Int, Same(z, 65536 * p)
  PROVE  /\ fqmul(fqmul(x1, y1), z) \in Coefficient /\ fqmul(x0, y0) \in Coefficient
         /\ Same(fqmul(fqmul(x1, y1), z) + fqmul(x0, y0), 169 * (X0 * Y0 + p * (X1 * Y1)))
<1> DEFINE s == fqmul(x1, y1)
           u == fqmul(x0, y0)
           f == fqmul(s, z)
           m1 == X1 * Y1
           m0 == X0 * Y0
           e1 == 169 * m1
           e0 == 169 * m0
           a == p * s
           b == p * e1
<1>1. X0 \in Int /\ Y0 \in Int /\ X1 \in Int /\ Y1 \in Int
  BY DEF Pair
<1>2. s \in Coefficient /\ Same(s, e1)
  BY FqmulPair DEF Pair
<1>3. u \in Coefficient /\ Same(u, e0)
  BY FqmulPair DEF Pair
<1> HIDE DEF s, u
<1>4. s \in Int16 /\ s \in Int /\ u \in Int /\ z \in Int16 /\ z \in Int
  BY <1>2, <1>3, CoefficientType DEF Coefficient
<1>5. f \in Coefficient
  BY <1>2, <1>4, FqmulBound
<1>6. f = fqmul(z, s)
  <2>1. s * z = z * s
    BY <1>4
  <2> QED
    BY <2>1 DEF fqmul
<1>7. f \in Int /\ Same(f, a)
  BY <1>4, <1>6, FqmulPower
<1>8. m1 \in Int /\ m0 \in Int
  BY <1>1
<1> HIDE DEF m1, m0, f
<1>9. e1 \in Int /\ e0 \in Int /\ a \in Int /\ b \in Int
  BY <1>4, <1>8
<1>10. Same(a, b)
  <2> HIDE DEF e1
  <2> QED
    BY <1>2, <1>4, <1>9, SameTimes
<1> HIDE DEF a, b, e0
<1>11. Same(f, b)
  BY <1>7, <1>9, <1>10, SameTrans
<1>12. Same(f + u, b + e0)
  BY <1>3, <1>4, <1>7, <1>9, <1>11, SameSum
<1>13. b + e0 = 169 * (m0 + p * m1)
  BY <1>8, SMT DEF b, e0
<1> QED
  BY <1>3, <1>5, <1>12, <1>13 DEF f, s, u, m0, m1

\* The upper one.
LEMMA UpperSame ==
  ASSUME NEW x0, NEW y1, NEW X0, NEW Y1, Pair(x0, y1, X0, Y1),
         NEW x1, NEW y0, NEW X1, NEW Y0, Pair(x1, y0, X1, Y0)
  PROVE  /\ fqmul(x0, y1) \in Coefficient /\ fqmul(x1, y0) \in Coefficient
         /\ Same(fqmul(x0, y1) + fqmul(x1, y0), 169 * (X0 * Y1 + X1 * Y0))
<1> DEFINE s == fqmul(x0, y1)
           u == fqmul(x1, y0)
           m1 == X0 * Y1
           m0 == X1 * Y0
           e1 == 169 * m1
           e0 == 169 * m0
<1>1. X0 \in Int /\ Y0 \in Int /\ X1 \in Int /\ Y1 \in Int
  BY DEF Pair
<1>2. s \in Coefficient /\ Same(s, e1)
  BY FqmulPair DEF Pair
<1>3. u \in Coefficient /\ Same(u, e0)
  BY FqmulPair DEF Pair
<1> HIDE DEF s, u
<1>4. s \in Int /\ u \in Int
  BY <1>2, <1>3 DEF Coefficient
<1>5. m1 \in Int /\ m0 \in Int
  BY <1>1
<1> HIDE DEF m1, m0
<1>6. e1 \in Int /\ e0 \in Int /\ e1 + e0 = 169 * (m1 + m0)
  BY <1>5
<1> HIDE DEF e1, e0
<1>7. Same(s + u, e1 + e0)
  BY <1>2, <1>3, <1>4, <1>6, SameSum
<1> QED
  BY <1>2, <1>3, <1>6, <1>7 DEF s, u, m0, m1


\* A congruence divided by 2^16.
LEMMA SameMontOf ==
  ASSUME NEW x \in Int, NEW y \in Int, Same(x, y)
  PROVE  Same(169 * x, 169 * y)
<1> DEFINE c == 169
<1>1. c \in Int
  OBVIOUS
<1> HIDE DEF c
<1>2. Same(c * x, c * y)
  BY <1>1, SameTimes
<1> QED
  BY <1>2 DEF c

\* The pair of a coefficient, and its place there.
LEMMA PairIndex ==
  ASSUME NEW j \in Index
  PROVE  j \div 2 \in 0 .. 127 /\ j % 2 \in 0 .. 1 /\ j % 2 \in Nat
BY SMT DEF Index

\* The places of a pair, from either.
LEMMA PairMates ==
  ASSUME NEW j \in Index
  PROVE  /\ j \div 2 \in 0 .. 127
         /\ j % 2 = 0 => j + 1 \in Index /\ (j + 1) \div 2 = j \div 2 /\ (j + 1) % 2 = 1
         /\ j % 2 # 0 => /\ j % 2 = 1 /\ j - 1 \in Index
                         /\ (j - 1) \div 2 = j \div 2 /\ (j - 1) % 2 = 0
BY SMT DEF Index

\* poly_basemul_montgomery multiplies the remainders, and divides by 2^16.
LEMMA BasemulSame ==
  ASSUME NEW a, NEW b, Within(a, 3328), Within(b, 3328),
         NEW A \in [Index -> Int], NEW B \in [Index -> Int],
         Remainders(a, A, 2), Remainders(b, B, 2), NEW j \in Index
  PROVE  Same(poly_basemul_montgomery(a, b)[j],
              169 * Stage(Prod(A, B), 2, Exponent(2, j \div 2), j % 2))
<1> DEFINE i == j \div 2
           w == Exponent(2, i)
           p == Root(w)
           A0 == Stage(A, 2, w, 0)
           A1 == Stage(A, 2, w, 1)
           B0 == Stage(B, 2, w, 0)
           B1 == Stage(B, 2, w, 1)
           P0 == Stage(Prod(A, B), 2, w, 0)
           P1 == Stage(Prod(A, B), 2, w, 1)
           z == BaseZeta(i)
           m == A0 * B0 + p * (A1 * B1)
           n == A0 * B1 + A1 * B0
<1>1. /\ i \in 0 .. 127 /\ z \in Coefficient /\ Opposite(w) /\ w \in Nat /\ p \in Int
      /\ Same(z, 65536 * p)
  <2>1. i \in 0 .. 127
    BY PairMates
  <2>2. z \in Coefficient /\ Opposite(w) /\ Same(z, 65536 * p)
    <3> HIDE DEF i
    <3> QED
      BY <2>1, BaseZetaIs
  <2>3. w \in Nat
    BY <2>2 DEF Opposite
  <2>4. p \in Int
    BY <2>3, RootType
  <2> QED
    BY <2>1, <2>2, <2>3, <2>4
<1>2. A0 \in Int /\ A1 \in Int /\ B0 \in Int /\ B1 \in Int /\ P0 \in Int /\ P1 \in Int
  <2> DEFINE C == Prod(A, B)
  <2>1. 2 \in Lens \cup {256} /\ 0 \in Nat /\ 1 \in Nat /\ C \in [Index -> Int]
    BY ProdType DEF Lens
  <2> HIDE DEF C, w
  <2>2. A0 \in Int /\ A1 \in Int
    BY <1>1, <2>1, StageType
  <2>3. B0 \in Int /\ B1 \in Int
    BY <1>1, <2>1, StageType
  <2>4. Stage(C, 2, w, 0) \in Int /\ Stage(C, 2, w, 1) \in Int
    BY <1>1, <2>1, StageType
  <2> QED
    BY <2>2, <2>3, <2>4 DEF C
<1>3. Same(P0, m) /\ Same(P1, n)
  <2> HIDE DEF w
  <2> QED
    BY <1>1, ProductRemainder
<1>4. \A k \in Index : k \div 2 = i =>
        /\ a[k] \in Coefficient /\ Same(a[k], Stage(A, 2, w, k % 2))
        /\ b[k] \in Coefficient /\ Same(b[k], Stage(B, 2, w, k % 2))
  <2> SUFFICES ASSUME NEW k \in Index, k \div 2 = i
               PROVE  /\ a[k] \in Coefficient /\ Same(a[k], Stage(A, 2, w, k % 2))
                      /\ b[k] \in Coefficient /\ Same(b[k], Stage(B, 2, w, k % 2))
    OBVIOUS
  <2>1. a[k] \in Coefficient /\ b[k] \in Coefficient
    BY SMT DEF Within, Coefficient
  <2>2. /\ Same(a[k], Stage(A, 2, Exponent(2, k \div 2), k % 2))
        /\ Same(b[k], Stage(B, 2, Exponent(2, k \div 2), k % 2))
    BY DEF Remainders
  <2> HIDE DEF i
  <2> QED
    BY <2>1, <2>2
<1> HIDE DEF i, w, p, A0, A1, B0, B1, P0, P1, z
<1>5. m \in Int /\ n \in Int
  BY <1>1, <1>2
<1>6. \A x, y \in Coefficient : x + y \in Int /\ I16(x + y) = x + y
  <2> SUFFICES ASSUME NEW x \in Coefficient, NEW y \in Coefficient
               PROVE  x + y \in Int /\ I16(x + y) = x + y
    OBVIOUS
  <2> DEFINE s == x + y
  <2>1. s \in Int /\ -32768 <= s /\ s <= 32767
    BY DEF Coefficient
  <2> HIDE DEF s
  <2>2. I16(s) = s
    BY <2>1, Small16
  <2> QED
    BY <2>1, <2>2 DEF s
<1>7. CASE j % 2 = 0
  <2> DEFINE x0 == a[j]
             x1 == a[j + 1]
             y0 == b[j]
             y1 == b[j + 1]
             s == fqmul(fqmul(x1, y1), z)
             u == fqmul(x0, y0)
  <2>1. j + 1 \in Index /\ (j + 1) \div 2 = i /\ (j + 1) % 2 = 1 /\ j \div 2 = i
    BY <1>7, PairMates DEF i
  <2>2. Pair(x0, y0, A0, B0) /\ Pair(x1, y1, A1, B1)
    <3>1. /\ x0 \in Coefficient /\ Same(x0, Stage(A, 2, w, 0))
          /\ y0 \in Coefficient /\ Same(y0, Stage(B, 2, w, 0))
      BY <1>4, <1>7, <2>1
    <3>2. /\ x1 \in Coefficient /\ Same(x1, Stage(A, 2, w, 1))
          /\ y1 \in Coefficient /\ Same(y1, Stage(B, 2, w, 1))
      BY <1>4, <2>1
    <3> HIDE DEF x0, x1, y0, y1
    <3> QED
      BY <1>2, <3>1, <3>2 DEF Pair, A0, A1, B0, B1
  <2>3. poly_basemul_montgomery(a, b)[j] = I16(s + u)
    BY <1>7, <2>1 DEF poly_basemul_montgomery, z
  <2> HIDE DEF x0, x1, y0, y1
  <2>4. s \in Coefficient /\ u \in Coefficient /\ Same(s + u, 169 * m)
    BY <1>1, <2>2, LowerSame
  <2> HIDE DEF s, u, m
  <2>5. I16(s + u) = s + u /\ s + u \in Int
    BY <1>6, <2>4
  <2> DEFINE t == s + u
             e == 169 * m
             o == 169 * P0
  <2>6. t \in Int /\ e \in Int /\ o \in Int /\ Same(t, e)
    BY <1>2, <1>5, <2>4, <2>5
  <2>7. Same(o, e)
    BY <1>2, <1>3, <1>5, SameMontOf
  <2> HIDE DEF t, e, o
  <2>8. Same(t, o)
    BY <2>6, <2>7, SameSym, SameTrans
  <2> QED
    BY <1>7, <2>1, <2>3, <2>5, <2>8 DEF t, o, P0, w
<1>8. CASE j % 2 # 0
  <2> DEFINE x0 == a[j - 1]
             x1 == a[j]
             y0 == b[j - 1]
             y1 == b[j]
             s == fqmul(x0, y1)
             u == fqmul(x1, y0)
  <2>1. j - 1 \in Index /\ (j - 1) \div 2 = i /\ (j - 1) % 2 = 0 /\ j \div 2 = i /\ j % 2 = 1
    BY <1>8, PairMates DEF i
  <2>2. Pair(x0, y1, A0, B1) /\ Pair(x1, y0, A1, B0)
    <3>1. /\ x0 \in Coefficient /\ Same(x0, Stage(A, 2, w, 0))
          /\ y0 \in Coefficient /\ Same(y0, Stage(B, 2, w, 0))
      BY <1>4, <2>1
    <3>2. /\ x1 \in Coefficient /\ Same(x1, Stage(A, 2, w, 1))
          /\ y1 \in Coefficient /\ Same(y1, Stage(B, 2, w, 1))
      BY <1>4, <2>1
    <3> HIDE DEF x0, x1, y0, y1
    <3> QED
      BY <1>2, <3>1, <3>2 DEF Pair, A0, A1, B0, B1
  <2>3. poly_basemul_montgomery(a, b)[j] = I16(s + u)
    BY <1>8 DEF poly_basemul_montgomery
  <2> HIDE DEF x0, x1, y0, y1
  <2>4. s \in Coefficient /\ u \in Coefficient /\ Same(s + u, 169 * n)
    BY <2>2, UpperSame
  <2> HIDE DEF s, u, n
  <2>5. I16(s + u) = s + u /\ s + u \in Int
    BY <1>6, <2>4
  <2> DEFINE t == s + u
             e == 169 * n
             o == 169 * P1
  <2>6. t \in Int /\ e \in Int /\ o \in Int /\ Same(t, e)
    BY <1>2, <1>5, <2>4, <2>5
  <2>7. Same(o, e)
    BY <1>2, <1>3, <1>5, SameMontOf
  <2> HIDE DEF t, e, o
  <2>8. Same(t, o)
    BY <2>6, <2>7, SameSym, SameTrans
  <2> QED
    BY <2>1, <2>3, <2>5, <2>8 DEF t, o, P1, w
<1> QED
  BY <1>7, <1>8


\* The sum of two polynomials.
Plus(f, g) == [j \in Index |-> f[j] + g[j]]

\* It is a polynomial.
LEMMA PlusType ==
  ASSUME NEW f \in [Index -> Int], NEW g \in [Index -> Int]
  PROVE  Plus(f, g) \in [Index -> Int]
BY DEF Plus

\* Its remainders are the sums of those of the two.
LEMMA StagePlus ==
  ASSUME NEW f \in [Index -> Int], NEW g \in [Index -> Int], NEW w \in Nat, NEW c \in 0 .. 1
  PROVE  Stage(Plus(f, g), 2, w, c) = Stage(f, 2, w, c) + Stage(g, 2, w, c)
<1> DEFINE h == Plus(f, g)
           u == Term(f, 2, w, c)
           v == Term(g, 2, w, c)
           t == Term(h, 2, w, c)
<1>1. h \in [Index -> Int]
  BY PlusType
<1>2. u \in [Nat -> Int] /\ v \in [Nat -> Int] /\ t \in [Nat -> Int]
  <2>1. 2 \in Nat /\ c \in Nat
    OBVIOUS
  <2> HIDE DEF h
  <2>2. u \in [Nat -> Int]
    BY <2>1, TermType
  <2>3. v \in [Nat -> Int]
    BY <2>1, TermType
  <2>4. t \in [Nat -> Int]
    BY <1>1, <2>1, TermType
  <2> QED
    BY <2>2, <2>3, <2>4
<1>3. ASSUME NEW k \in Nat, k < 128 PROVE t[k] = u[k] + v[k]
  <2> DEFINE i == c + 2 * k
             x == f[i]
             y == g[i]
             z == Root(w * k)
  <2>1. i < 256 /\ i \in Index
    BY <1>3, GridPlace
  <2>2. w * k \in Nat
    OBVIOUS
  <2>3. z \in Int
    BY <2>2, RootType
  <2>4. h[i] = x + y /\ x \in Int /\ y \in Int
    <3> HIDE DEF i
    <3> QED
      BY <2>1 DEF Plus
  <2>5. u[k] = x * z /\ v[k] = y * z
    BY <2>1 DEF Term
  <2>6. t[k] = h[i] * z
    <3> HIDE DEF h
    <3> QED
      BY <2>1 DEF Term
  <2> HIDE DEF x, y, z, i, h, u, v, t
  <2>7. (x + y) * z = x * z + y * z
    BY <2>3, <2>4
  <2> QED
    BY <2>4, <2>5, <2>6, <2>7
<1>4. /\ Stage(h, 2, w, c) = Total(t)[128] /\ Stage(f, 2, w, c) = Total(u)[128]
      /\ Stage(g, 2, w, c) = Total(v)[128]
  BY DEF Stage
<1> HIDE DEF t, u, v
<1>5. Adds(t, u, v, 128) /\ 128 \in Nat
  BY <1>3 DEF Adds
<1>6. Total(t)[128] = Total(u)[128] + Total(v)[128]
  BY <1>2, <1>5, TotalAdds
<1> QED
  BY <1>4, <1>6 DEF h

\* The sum of two products of vectors in the transform.
LEMMA AccumulateSame ==
  ASSUME NEW a, NEW b, Within(a[1], 3328), Within(b[1], 3328), Within(a[2], 3328), Within(b[2], 3328),
         NEW A \in [Index -> Int], NEW B \in [Index -> Int],
         NEW C \in [Index -> Int], NEW D \in [Index -> Int],
         Remainders(a[1], A, 2), Remainders(b[1], B, 2), Remainders(a[2], C, 2), Remainders(b[2], D, 2)
  PROVE  Multiples(Accumulate(a, b), 169, Plus(Prod(A, B), Prod(C, D)), 2)
<1> DEFINE x == poly_basemul_montgomery(a[1], b[1])
           y == poly_basemul_montgomery(a[2], b[2])
           P == Prod(A, B)
           Q == Prod(C, D)
<1>1. \A j \in Index : x[j] \in Int /\ -6656 <= x[j] /\ x[j] <= 6656
  BY BasemulBound
<1>2. \A j \in Index : y[j] \in Int /\ -6656 <= y[j] /\ y[j] <= 6656
  BY BasemulBound
<1>3. \A j \in Index : Same(x[j], 169 * Stage(P, 2, Exponent(2, j \div 2), j % 2))
  BY BasemulSame
<1>4. \A j \in Index : Same(y[j], 169 * Stage(Q, 2, Exponent(2, j \div 2), j % 2))
  BY BasemulSame
<1>5. Accumulate(a, b) = [j \in Index |-> I16(x[j] + y[j])]
  BY DEF Accumulate, poly_add
<1>6. P \in [Index -> Int] /\ Q \in [Index -> Int]
  BY ProdType
<1> HIDE DEF x, y, P, Q
<1>7. ASSUME NEW j \in Index
      PROVE  Same(I16(x[j] + y[j]), 169 * Stage(Plus(P, Q), 2, Exponent(2, j \div 2), j % 2))
  <2> DEFINE u == x[j]
             v == y[j]
             i == j \div 2
             w == Exponent(2, i)
             c == j % 2
             p == Stage(P, 2, w, c)
             q == Stage(Q, 2, w, c)
             s == u + v
             d == 169 * p
             e == 169 * q
  <2>1. u \in Int /\ v \in Int /\ s \in Int /\ -13312 <= s /\ s <= 13312 /\ Same(u, d) /\ Same(v, e)
    BY <1>1, <1>2, <1>3, <1>4
  <2>2. I16(s) = s
    <3> HIDE DEF s
    <3> QED
      BY <2>1, Small16
  <2>3. w \in Nat /\ c \in 0 .. 1 /\ c \in Nat /\ 2 \in Lens \cup {256}
    <3>1. i \in 0 .. 127
      BY PairIndex
    <3> HIDE DEF i
    <3>2. Opposite(w)
      BY <3>1, BaseZetaIs
    <3>3. c \in 0 .. 1
      BY DEF Index
    <3> QED
      BY <3>2, <3>3 DEF Opposite, Lens
  <2> HIDE DEF w, c, u, v
  <2>4. p \in Int /\ q \in Int
    <3>1. p \in Int
      BY <1>6, <2>3, StageType
    <3>2. q \in Int
      BY <1>6, <2>3, StageType
    <3> QED
      BY <3>1, <3>2
  <2>5. Stage(Plus(P, Q), 2, w, c) = p + q
    BY <1>6, <2>3, StagePlus
  <2> HIDE DEF p, q
  <2>6. d \in Int /\ e \in Int /\ d + e = 169 * (p + q)
    BY <2>4
  <2> HIDE DEF d, e
  <2>7. Same(u + v, d + e)
    BY <2>1, <2>6, SameSum
  <2> QED
    BY <2>2, <2>5, <2>6, <2>7 DEF u, v, w, c
<1> QED
  BY <1>5, <1>7 DEF Multiples, P, Q


\* A coefficient of the product is the sum that the property names.
LEMMA TimesSame ==
  ASSUME NEW a \in [Index -> Int], NEW b \in [Index -> Int], NEW j \in Index
  PROVE  Times(a, b, j) \in Int /\ Same(Prod(a, b)[j], Times(a, b, j))
<1> DEFINE V(i) == IF i <= j THEN (a[i] * b[j - i]) % KYBER_Q
                             ELSE (0 - a[i] * b[256 + j - i]) % KYBER_Q
           f == [i \in Index |-> V(i)]
           p == Padded(f)
           u == Row(a, b, j)
<1>1. u \in [Nat -> Int]
  BY RowType
<1>2. ASSUME NEW k \in Nat, k < 256
      PROVE  p[k] \in Int /\ Same(p[k], u[k])
  <2> DEFINE x == u[k]
             m == x % 3329
             d == 0 - (x \div 3329)
  <2>1. k \in Index
    BY <1>2 DEF Index
  <2>2. p[k] = V(k)
    BY <2>1 DEF Padded
  <2>3. x = a[k] * Rot(b, k)[j]
    BY <1>2 DEF Row
  <2>4. V(k) = m
    <3> DEFINE z == a[k]
    <3>0. z \in Int
      BY <2>1
    <3>1. CASE k <= j
      <4>1. Rot(b, k)[j] = b[j - k]
        BY <3>1 DEF Rot
      <4> QED
        BY <2>3, <3>1, <4>1 DEF KYBER_Q
    <3>2. CASE ~(k <= j)
      <4> DEFINE y == b[256 + j - k]
      <4>1. Rot(b, k)[j] = 0 - y
        BY <3>2 DEF Rot
      <4>2. y \in Int
        <5>1. 256 + j - k \in Index
          BY <2>1, <3>2 DEF Index
        <5> QED
          BY <5>1
      <4>3. V(k) = (0 - z * y) % 3329
        BY <3>2 DEF KYBER_Q
      <4> HIDE DEF y, z, V
      <4>4. z * (0 - y) = 0 - z * y
        BY <3>0, <4>2
      <4> QED
        BY <2>3, <4>1, <4>3, <4>4 DEF z
    <3> QED
      BY <3>1, <3>2
  <2>5. x \in Int
    BY <1>1
  <2> HIDE DEF x, u, p, V
  <2>6. m \in Int /\ Apart(m, x, d)
    BY <2>5 DEF Apart
  <2> HIDE DEF m, d
  <2>7. Same(m, x)
    BY <2>5, <2>6, SameIs
  <2> QED
    BY <2>2, <2>4, <2>6, <2>7 DEF x
<1>3. ASSUME NEW k \in Nat, ~(k < 256) PROVE p[k] = 0
  <2>1. ~(k \in Index)
    BY <1>3 DEF Index
  <2> HIDE DEF V
  <2> QED
    BY <2>1 DEF Padded
<1>4. p = [k \in Nat |-> p[k]]
  BY DEF Padded
<1>5. SumOf(f, 8) = Times(a, b, j)
  BY DEF Times
<1>6. Prod(a, b)[j] = Total(u)[256]
  BY DEF Prod
<1> HIDE DEF u, V
<1>7. p \in [Nat -> Int]
  <2> DEFINE W(k) == p[k]
  <2>1. \A k \in Nat : W(k) \in Int
    BY <1>2, <1>3
  <2>2. p = [k \in Nat |-> W(k)]
    BY <1>4
  <2> HIDE DEF W, p
  <2> QED
    BY <2>1, <2>2
<1>8. SumOf(f, 8) = Total(p)[256]
  <2> HIDE DEF f
  <2> QED
    BY <1>7, SumOfIs
<1> HIDE DEF p, f
<1>9. Alike(u, p, 256) /\ 256 \in Nat
  <2>1. ASSUME NEW k \in Nat, k < 256 PROVE Same(u[k], p[k])
    <3>1. u[k] \in Int /\ p[k] \in Int /\ Same(p[k], u[k])
      BY <1>1, <1>2, <2>1
    <3> QED
      BY <3>1, SameSym
  <2> QED
    BY <2>1 DEF Alike
<1>10. Same(Total(u)[256], Total(p)[256])
  BY <1>1, <1>7, <1>9, TotalSame
<1>11. Total(p)[256] \in Int
  BY <1>7, <1>9, TotalIs
<1> QED
  BY <1>5, <1>6, <1>8, <1>10, <1>11

\* An array congruent to another one holds the same multiples.
LEMMA MultiplesSame ==
  ASSUME NEW g \in [Index -> Int], NEW s \in Int, NEW a, NEW e,
         \A j \in Index : a[j] \in Int /\ e[j] \in Int /\ Same(e[j], a[j]), Multiples(a, s, g, 2)
  PROVE  Multiples(e, s, g, 2)
<1> SUFFICES ASSUME NEW j \in Index
             PROVE  Same(e[j], s * Stage(g, 2, Exponent(2, j \div 2), j % 2))
  BY DEF Multiples
<1> DEFINE i == j \div 2
           w == Exponent(2, i)
           c == j % 2
           t == Stage(g, 2, w, c)
           m == s * t
<1>1. Same(a[j], m) /\ a[j] \in Int /\ e[j] \in Int /\ Same(e[j], a[j])
  BY DEF Multiples
<1>2. w \in Nat /\ c \in Nat /\ 2 \in Lens \cup {256}
  <2>1. i \in 0 .. 127 /\ c \in Nat
    BY PairIndex
  <2> HIDE DEF i
  <2>2. Opposite(w)
    BY <2>1, BaseZetaIs
  <2> QED
    BY <2>1, <2>2 DEF Opposite, Lens
<1> HIDE DEF w, c
<1>3. t \in Int
  BY <1>2, StageType
<1> HIDE DEF t
<1>4. m \in Int
  BY <1>3
<1> HIDE DEF m
<1>5. Same(e[j], m)
  BY <1>1, <1>4, SameTrans
<1> QED
  BY <1>5 DEF m, t, w, c

\* The remainders of a polynomial are once themselves.
LEMMA MultiplesOne ==
  ASSUME NEW g \in [Index -> Int], NEW a, Remainders(a, g, 2)
  PROVE  Multiples(a, 1, g, 2)
<1> SUFFICES ASSUME NEW j \in Index
             PROVE  Same(a[j], 1 * Stage(g, 2, Exponent(2, j \div 2), j % 2))
  BY DEF Multiples
<1> DEFINE i == j \div 2
           w == Exponent(2, i)
           c == j % 2
           t == Stage(g, 2, w, c)
<1>1. Same(a[j], t)
  BY DEF Remainders
<1>2. w \in Nat /\ c \in Nat /\ 2 \in Lens \cup {256}
  <2>1. i \in 0 .. 127 /\ c \in Nat
    BY PairIndex
  <2> HIDE DEF i
  <2>2. Opposite(w)
    BY <2>1, BaseZetaIs
  <2> QED
    BY <2>1, <2>2 DEF Opposite, Lens
<1> HIDE DEF w, c
<1>3. t \in Int
  BY <1>2, StageType
<1> HIDE DEF t
<1>4. 1 * t = t
  BY <1>3
<1> QED
  BY <1>1, <1>4 DEF t, w, c


\* What invntt gives back: the polynomial given, or the product of the vectors.
Target == IF factor = <<>> THEN given
          ELSE Plus(Prod(given, factor[1]), Prod(factor[2], factor[3]))

\* The multiplication divides by 2^16.
Shrink == IF factor = <<>> THEN 1 ELSE 169

\* invntt: while its rounds go on r holds multiples of the remainders of the
\* result; every round doubles them.
BackwardInv ==
  /\ given \in [Index -> Coefficient]
  /\ factor = <<>> \/ factor \in [1 .. 3 -> [Index -> Coefficient]]
  /\ pc \in {"ntt", "reduce", "middle"} => factor = <<>>
  /\ pc = "sum" => Multiples(r, Shrink, Target, 2)
  /\ pc = "invntt" => Multiples(r, (len \div 2) * Shrink, Target, len)
  /\ pc = "scale" => Multiples(r, 128 * Shrink, Target, 256)
  /\ pc = "done" => \A j \in Index : r[j] \in Int /\ Same(r[j], 65536 * (Shrink * Target[j]))

\* Nothing is claimed of the array before the multiplication.
LEMMA BackwardStart == Init => BackwardInv
<1> SUFFICES ASSUME Init PROVE BackwardInv
  OBVIOUS
<1>1. given \in [Index -> Coefficient] /\ factor = <<>> /\ pc = "ntt"
  BY TransformAssumption DEF Init, TransformAssumption
<1> QED
  BY <1>1 DEF BackwardInv

\* The result is a polynomial, and what the multiplication leaves of it is a factor.
LEMMA TargetType ==
  ASSUME BackwardInv
  PROVE  Target \in [Index -> Int] /\ Shrink \in Int
<1>1. given \in [Index -> Int]
  BY DEF BackwardInv, Coefficient
<1>2. CASE factor = <<>>
  BY <1>1, <1>2 DEF Target, Shrink
<1>3. CASE factor # <<>>
  <2> DEFINE A == factor[1]
             B == factor[2]
             C == factor[3]
  <2>1. factor \in [1 .. 3 -> [Index -> Coefficient]]
    BY <1>3 DEF BackwardInv
  <2>2. A \in [Index -> Int] /\ B \in [Index -> Int] /\ C \in [Index -> Int]
    BY <2>1 DEF Coefficient
  <2>3. Target = Plus(Prod(given, A), Prod(B, C)) /\ Shrink = 169
    BY <1>3 DEF Target, Shrink
  <2> HIDE DEF A, B, C
  <2>4. Prod(given, A) \in [Index -> Int] /\ Prod(B, C) \in [Index -> Int]
    BY <1>1, <2>2, ProdType
  <2>5. Plus(Prod(given, A), Prod(B, C)) \in [Index -> Int]
    BY <2>4, PlusType
  <2> QED
    BY <2>3, <2>5
<1> QED
  BY <1>2, <1>3

\* A vector of three polynomials is not the empty sequence.
LEMMA FactorIs ==
  ASSUME NEW f \in [1 .. 3 -> [Index -> Coefficient]]
  PROVE  f # <<>>
<1>1. DOMAIN f = 1 .. 3
  OBVIOUS
<1>2. 1 \in 1 .. 3
  OBVIOUS
<1> SUFFICES ASSUME f = <<>> PROVE FALSE
  OBVIOUS
<1>3. DOMAIN f = 1 .. 0
  OBVIOUS
<1> QED
  BY <1>1, <1>2, <1>3

\* The multiplication gives the remainders of the product.
LEMMA MultiplySame == TransformInv /\ ForwardInv /\ BackwardInv /\ Multiply => BackwardInv'
<1> SUFFICES ASSUME TransformInv, ForwardInv, BackwardInv, Multiply PROVE BackwardInv'
  OBVIOUS
<1> DEFINE A == factor'[1]
           B == factor'[2]
           C == factor'[3]
           a == <<r, poly_ntt(B)>>
           b == <<poly_ntt(A), poly_ntt(C)>>
<1>1. /\ pc = "middle" /\ r' = Accumulate(a, b) /\ pc' = "sum" /\ given' = given
      /\ factor' \in [1 .. 3 -> [Index -> Coefficient]] /\ given \in [Index -> Coefficient]
  BY TransformAssumption DEF Multiply, TransformAssumption, BackwardInv
<1>2. A \in [Index -> Coefficient] /\ B \in [Index -> Coefficient] /\ C \in [Index -> Coefficient]
  BY <1>1
<1>3. factor' # <<>>
  BY <1>1, FactorIs
<1>4. /\ a[1] = r /\ a[2] = poly_ntt(B) /\ b[1] = poly_ntt(A) /\ b[2] = poly_ntt(C)
  OBVIOUS
<1>5. Target' = Plus(Prod(given, A), Prod(B, C)) /\ Shrink' = 169
  BY <1>1, <1>3 DEF Target, Shrink
<1> HIDE DEF A, B, C, a, b
<1>6. Within(r, 3328) /\ Remainders(r, given, 2)
  BY <1>1 DEF TransformInv, ForwardInv, Limit
<1>7. /\ Within(poly_ntt(A), 3328) /\ Remainders(poly_ntt(A), A, 2)
      /\ Within(poly_ntt(B), 3328) /\ Remainders(poly_ntt(B), B, 2)
      /\ Within(poly_ntt(C), 3328) /\ Remainders(poly_ntt(C), C, 2)
  BY <1>2, PolyNttSame
<1>8. /\ Within(a[1], 3328) /\ Within(b[1], 3328) /\ Within(a[2], 3328) /\ Within(b[2], 3328)
      /\ Remainders(a[1], given, 2) /\ Remainders(b[1], A, 2)
      /\ Remainders(a[2], B, 2) /\ Remainders(b[2], C, 2)
  BY <1>4, <1>6, <1>7
<1>9. given \in [Index -> Int] /\ A \in [Index -> Int] /\ B \in [Index -> Int] /\ C \in [Index -> Int]
  BY <1>1, <1>2 DEF Coefficient
<1>10. Multiples(Accumulate(a, b), 169, Plus(Prod(given, A), Prod(B, C)), 2)
  BY <1>8, <1>9, AccumulateSame
<1>11. Multiples(r', Shrink', Target', 2)
  BY <1>1, <1>5, <1>10
<1> QED
  BY <1>1, <1>11 DEF BackwardInv


\* Each step from the middle on keeps the invariant.
LEMMA BackwardStep == TransformInv /\ ForwardInv /\ BackwardInv /\ [Next]_vars => BackwardInv'
<1> SUFFICES ASSUME TransformInv, ForwardInv, BackwardInv, [Next]_vars PROVE BackwardInv'
  OBVIOUS
<1> DEFINE T == Target
           S == Shrink
<1>0. T \in [Index -> Int] /\ S \in Int
  BY TargetType
<1>f. (~Multiply) => given' = given /\ factor' = factor /\ Target' = T /\ Shrink' = S
  BY DEF Next, Forward, Reduce, Keep, ReduceSum, Backward, Scale, vars, Target, Shrink
<1>i. /\ given \in [Index -> Coefficient]
      /\ factor = <<>> \/ factor \in [1 .. 3 -> [Index -> Coefficient]]
  BY DEF BackwardInv
<1>m. CASE Multiply
  BY <1>m, MultiplySame
<1>1. CASE Forward \/ Reduce
  <2>1. factor' = factor /\ given' = given /\ pc' \in {"ntt", "reduce", "middle"} /\ factor = <<>>
    BY <1>1 DEF Forward, Reduce, BackwardInv
  <2> QED
    BY <1>i, <2>1 DEF BackwardInv
<1>2. CASE Keep
  <2>1. /\ pc = "middle" /\ pc' = "invntt" /\ len' = 2 /\ r' = r /\ factor = <<>>
        /\ factor' = factor /\ given' = given
    BY <1>2 DEF Keep, BackwardInv
  <2>2. Target' = given /\ Shrink' = 1 /\ (len' \div 2) * Shrink' = 1
    BY <2>1 DEF Target, Shrink
  <2>3. given \in [Index -> Int] /\ Remainders(r, given, 2)
    BY <1>i, <2>1 DEF ForwardInv, Coefficient
  <2>4. Multiples(r, 1, given, 2)
    BY <2>3, MultiplesOne
  <2>5. Multiples(r', (len' \div 2) * Shrink', Target', len')
    BY <2>1, <2>2, <2>4
  <2> QED
    BY <1>i, <2>1, <2>5 DEF BackwardInv
<1>3. CASE ReduceSum
  <2>1. /\ pc = "sum" /\ pc' = "invntt" /\ len' = 2 /\ r' = poly_reduce(r)
        /\ factor' = factor /\ given' = given /\ Within(r, 13312) /\ Multiples(r, S, T, 2)
    BY <1>3 DEF ReduceSum, TransformInv, BackwardInv, Limit
  <2>2. Target' = T /\ Shrink' = S /\ (len' \div 2) * Shrink' = S
    <3>1. Target' = T /\ Shrink' = S
      BY <2>1 DEF Target, Shrink
    <3> HIDE DEF S, T
    <3> QED
      BY <1>0, <2>1, <3>1
  <2>3. \A j \in Index : r[j] \in Int16 /\ r[j] \in Int
    BY <2>1 DEF Within, Int16
  <2> DEFINE e == r'
  <2>4. \A j \in Index : r[j] \in Int /\ e[j] \in Int /\ Same(e[j], r[j])
    BY <2>1, <2>3, ReducedSame
  <2> HIDE DEF e, S, T
  <2>5. Multiples(e, S, T, 2)
    BY <1>0, <2>1, <2>4, MultiplesSame
  <2>6. Multiples(r', (len' \div 2) * Shrink', Target', len')
    BY <2>1, <2>2, <2>5 DEF e
  <2> QED
    BY <1>i, <2>1, <2>6 DEF BackwardInv
<1>4. CASE Backward
  <2> DEFINE n == len
             s == (len \div 2) * S
             d == 2 * s
  <2>1. /\ pc = "invntt" /\ r' = InvLayer(r, n) /\ len' = 2 * n /\ n \in Lens
        /\ pc' = (IF n = 128 THEN "scale" ELSE "invntt")
        /\ factor' = factor /\ given' = given /\ Within(r, 3328) /\ Multiples(r, s, T, n)
    BY <1>4 DEF Backward, TransformInv, BackwardInv, Limit
  <2>2. Target' = T /\ Shrink' = S
    BY <2>1 DEF Target, Shrink
  <2>3. s \in Int /\ d = n * S /\ ((2 * n) \div 2) * S = d
    <3> DEFINE h == len \div 2
    <3>1. h \in Int /\ n = 2 * h /\ (2 * n) \div 2 = n /\ n \in Int
      BY <2>1 DEF Lens
    <3> HIDE DEF h, S
    <3>2. 2 * (h * S) = (2 * h) * S /\ h * S \in Int
      BY <1>0, <3>1
    <3> QED
      BY <3>1, <3>2 DEF h
  <2> HIDE DEF s, S, T
  <2>4. Multiples(InvLayer(r, n), 2 * s, T, 2 * n)
    BY <1>0, <2>1, <2>3, InvLayerSame
  <2>5. Multiples(r', d, T, 2 * n)
    BY <2>1, <2>4
  <2>6. CASE n = 128
    <3>1. d = 128 * S /\ 2 * n = 256 /\ pc' = "scale"
      BY <2>1, <2>3, <2>6
    <3> HIDE DEF d
    <3>2. Multiples(r', 128 * Shrink', Target', 256)
      BY <2>2, <2>5, <3>1
    <3> QED
      BY <1>i, <2>1, <3>1, <3>2 DEF BackwardInv
  <2>7. CASE n # 128
    <3>1. pc' = "invntt"
      BY <2>1, <2>7
    <3>2. Multiples(r', (len' \div 2) * Shrink', Target', len')
      BY <2>1, <2>2, <2>3, <2>5
    <3> QED
      BY <1>i, <2>1, <3>1, <3>2 DEF BackwardInv
  <2> QED
    BY <2>6, <2>7
<1>5. CASE Scale
  <2>1. /\ pc = "scale" /\ r' = InvScale(r) /\ pc' = "done"
        /\ factor' = factor /\ given' = given /\ Within(r, 3328) /\ Multiples(r, 128 * S, T, 256)
    BY <1>5 DEF Scale, TransformInv, BackwardInv, Limit
  <2>2. Target' = T /\ Shrink' = S
    BY <2>1 DEF Target, Shrink
  <2> HIDE DEF S, T
  <2>3. \A j \in Index : InvScale(r)[j] \in Int /\ Same(InvScale(r)[j], 65536 * (S * T[j]))
    BY <1>0, <2>1, InvScaleSame
  <2>4. \A j \in Index : r'[j] \in Int /\ Same(r'[j], 65536 * (Shrink' * Target'[j]))
    BY <2>1, <2>2, <2>3
  <2> QED
    BY <1>i, <2>1, <2>4 DEF BackwardInv
<1>6. CASE UNCHANGED vars
  BY <1>6 DEF vars, BackwardInv, Target, Shrink
<1> QED
  BY <1>m, <1>1, <1>2, <1>3, <1>4, <1>5, <1>6 DEF Next

\* invntt undoes ntt, and gives the product after a multiplication, for every polynomial.
THEOREM TransformMultiplies == Spec => []ProductInRing
<1>1. BackwardInv => ProductInRing
  <2> SUFFICES ASSUME BackwardInv, pc = "done", NEW j \in Index
               PROVE  LET exact == IF factor = <<>> THEN (65536 % KYBER_Q) * given[j]
                                   ELSE Times(given, factor[1], j) + Times(factor[2], factor[3], j)
                      IN  Same(r[j], exact)
    BY DEF ProductInRing, Same
  <2> DEFINE x == r[j]
             t == Target[j]
  <2>1. x \in Int /\ Same(x, 65536 * (Shrink * t))
    BY DEF BackwardInv
  <2>2. t \in Int
    BY TargetType
  <2>3. given \in [Index -> Int]
    BY DEF BackwardInv, Coefficient
  <2>4. CASE factor = <<>>
    <3> DEFINE y == 65536 * t
               e == (65536 % KYBER_Q) * t
               k == 19 * t
    <3>1. Shrink * t = t /\ t = given[j]
      BY <2>2, <2>4 DEF Shrink, Target
    <3>2. Same(x, y)
      BY <2>1, <3>1
    <3> HIDE DEF t, x
    <3>3. y \in Int /\ e \in Int /\ Apart(y, e, k)
      BY <2>2 DEF Apart, KYBER_Q
    <3> HIDE DEF y, e, k
    <3>4. Same(y, e)
      BY <3>3, SameIs
    <3>5. Same(x, e)
      BY <2>1, <3>2, <3>3, <3>4, SameTrans
    <3> QED
      BY <2>4, <3>1, <3>5 DEF e, x
  <2>5. CASE factor # <<>>
    <3> DEFINE A == factor[1]
               B == factor[2]
               C == factor[3]
               p == Prod(given, A)[j]
               q == Prod(B, C)[j]
               u == Times(given, A, j)
               v == Times(B, C, j)
               y == 65536 * (169 * t)
               e == u + v
    <3>1. factor \in [1 .. 3 -> [Index -> Coefficient]]
      BY <2>5 DEF BackwardInv
    <3>2. A \in [Index -> Int] /\ B \in [Index -> Int] /\ C \in [Index -> Int]
      BY <3>1 DEF Coefficient
    <3>3. t = p + q /\ Shrink = 169
      BY <2>5 DEF Target, Shrink, Plus
    <3>4. Same(x, y)
      BY <2>1, <3>3
    <3> HIDE DEF A, B, C, x, t
    <3>5. /\ u \in Int /\ Same(p, u) /\ p \in Int
      <4>1. Prod(given, A) \in [Index -> Int]
        BY <2>3, <3>2, ProdType
      <4> QED
        BY <2>3, <3>2, <4>1, TimesSame
    <3>6. /\ v \in Int /\ Same(q, v) /\ q \in Int
      <4>1. Prod(B, C) \in [Index -> Int]
        BY <3>2, ProdType
      <4> QED
        BY <3>2, <4>1, TimesSame
    <3> HIDE DEF p, q, u, v
    <3>7. Same(t, e) /\ e \in Int
      BY <3>3, <3>5, <3>6, SameSum
    <3>8. Same(y, t) /\ y \in Int
      BY <2>2, SameMont
    <3> HIDE DEF y, e
    <3>9. Same(x, t)
      BY <2>1, <2>2, <3>4, <3>8, SameTrans
    <3>10. Same(x, e)
      BY <2>1, <2>2, <3>7, <3>9, SameTrans
    <3> QED
      BY <2>5, <3>10 DEF e, u, v, A, B, C, x
  <2> QED
    BY <2>4, <2>5
<1> QED
  BY <1>1, TransformStart, TransformStep, ForwardStart, ForwardStep, BackwardStart, BackwardStep,
     PTL DEF Spec

=============================================================================
