------------------------------- MODULE Indcpa -------------------------------
(***************************************************************************)
(* indcpa.c: the public-key encryption under the challenges and the        *)
(* package codes, with the sampling of its matrix (rej_uniform) and of its *)
(* noise (cbd.c).  The polynomials have their 256 coefficients, keys,      *)
(* ciphertexts and what is sampled from are arrays of bytes from 0, seeds  *)
(* and coins are sequences.                                                *)
(***************************************************************************)
EXTENDS Ntt, Sequences, Keccak

----------------------------------------------------------------------------
(* How uniform bytes become coefficients.                                   *)

XOF_BLOCKBYTES == 168
GEN_MATRIX_NBLOCKS == 3

\* The 12-bit values of an array of n bytes, two in every three.
Values(buf, n) ==
  [k \in 1 .. 2 * (n \div 3) |->
     LET p == 3 * ((k - 1) \div 2)
     IN  Unpack12(<<buf[p], buf[p + 1], buf[p + 2]>>)[((k - 1) % 2) + 1]]

\* Those below q are taken, in order, until there are len.
rej_uniform(len, buf, n) ==
  LET taken == SelectSeq(Values(buf, n), LAMBDA v : v < KYBER_Q)
  IN  IF Len(taken) < len THEN taken ELSE SubSeq(taken, 1, len)

----------------------------------------------------------------------------
(* Sums of neighbouring bits, all fields of a word at once.                 *)

\* & 0x55: every second bit of a byte.  The word of cbd2 is taken by the byte: no
\* field of two bits crosses one.
EverySecond(b) ==
  LET Bit(p) == p * ((b \div p) % 2) IN Bit(1) + Bit(4) + Bit(16) + Bit(64)

Sums2(b) == EverySecond(b) + EverySecond(b \div 2)

load24_littleendian(buf, p) == buf[p] + 256 * buf[p + 1] + 65536 * buf[p + 2]

\* & 0x249249: every third bit of three bytes.
EveryThird(t) ==
  LET Bit(p) == p * ((t \div p) % 2)
  IN  Bit(1) + Bit(8) + Bit(64) + Bit(512) + Bit(4096) + Bit(32768) + Bit(262144) + Bit(2097152)

Sums3(t) == EveryThird(t) + EveryThird(t \div 2) + EveryThird(t \div 4)

cbd2(buf) ==
  [j \in Index |->
     LET d == Sums2(buf[j \div 2]) \div (16 ^ (j % 2))
     IN  (d % 4) - ((d \div 4) % 4)]

cbd3(buf) ==
  [j \in Index |->
     LET d == Sums3(load24_littleendian(buf, 3 * (j \div 4))) \div (64 ^ (j % 4))
     IN  (d % 8) - ((d \div 8) % 8)]

----------------------------------------------------------------------------
(* Arrays of bytes.                                                         *)

Array(s) == Computed([i \in 0 .. Len(s) - 1 |-> s[i + 1]])
Slice(b, from, n) == Computed([i \in 1 .. n |-> b[from + i - 1]])

----------------------------------------------------------------------------
(* Polynomials as arrays of bytes: groups of n coefficients in k bytes.     *)

Serialise(Op(_), Pack(_), n, k, a) ==
  LET group == Computed([g \in 0 .. (256 \div n) - 1 |->
                  Pack([l \in 1 .. n |-> Op(a[n * g + l - 1])])])
  IN  Computed([i \in 0 .. (256 \div n) * k - 1 |-> group[i \div k][(i % k) + 1]])

Deserialise(Op(_), Unpack(_), n, k, from, b) ==
  LET group == Computed([g \in 0 .. (256 \div n) - 1 |->
                  Unpack([l \in 1 .. k |-> b[from + k * g + l - 1]])])
  IN  Computed([j \in Index |-> Op(group[j \div n][(j % n) + 1])])

Same(x) == x

poly_tobytes(a) == Serialise(Positive, Pack12, 2, 3, a)
poly_frombytes(b, from) == Deserialise(Same, Unpack12, 2, 3, from, b)
poly_compress(a) == Serialise(Compress4, Pack4, 2, 1, a)
poly_decompress(b, from) == Deserialise(Decompress4, Unpack4, 2, 1, from, b)
compress10(a) == Serialise(Compress10, Pack10, 4, 5, a)
decompress10(b, from) == Deserialise(Decompress10, Unpack10, 4, 5, from, b)
poly_frommsg(m) == [j \in Index |-> FromBit(Bits(m[j \div 8])[(j % 8) + 1])]
poly_tomsg(a) == Serialise(ToBit, Pack1, 8, 1, a)

\* An array of n bytes after another.
Join(b, n, c) ==
  [i \in 0 .. 2 * n - 1 |-> IF i < n THEN b[i] ELSE c[i - n]]

polyvec_tobytes(v) == Join(poly_tobytes(v[1]), 384, poly_tobytes(v[2]))
polyvec_frombytes(b) == <<poly_frombytes(b, 0), poly_frombytes(b, 384)>>

polyvec_compress(v) ==
  LET first == compress10(v[1]) second == compress10(v[2])
  IN  Join(first, 320, second)
polyvec_decompress(b) == <<decompress10(b, 0), decompress10(b, 320)>>

pack_sk(v) == Computed(polyvec_tobytes(v))
unpack_sk(key) == polyvec_frombytes(key)

\* the polynomials, the public seed behind them
pack_pk(v, seed) ==
  LET b == polyvec_tobytes(v)
  IN  Computed([i \in 0 .. 799 |-> IF i < 768 THEN b[i] ELSE seed[i - 767]])

unpack_pk(key) == [pk |-> polyvec_frombytes(key), seed |-> Slice(key, 768, 32)]

\* b in 640 bytes, v in 128
pack_ciphertext(b, v) ==
  LET first == polyvec_compress(b) last == poly_compress(v)
  IN  [i \in 0 .. 767 |-> IF i < 640 THEN first[i] ELSE last[i - 640]]
unpack_ciphertext(c) == [b |-> polyvec_decompress(c), v |-> poly_decompress(c, 640)]

----------------------------------------------------------------------------

OnBoth(Op(_), v) == <<Computed(Op(v[1])), Computed(Op(v[2]))>>

polyvec_ntt(v) == OnBoth(poly_ntt, v)
polyvec_invntt_tomont(v) == OnBoth(invntt, v)
polyvec_reduce(v) == OnBoth(poly_reduce, v)
polyvec_add(v, w) == <<poly_add(v[1], w[1]), poly_add(v[2], w[2])>>

\* Mutant: every further block is asked for a whole polynomial.
WantedAll(r) == 256

Wanted(r) == 256 - Len(r)

\* The state of the stream and the coefficients taken from it.
Partial == [s : [0 .. 199 -> SUBSET (0 .. 7)], r : Seq(0 .. KYBER_Q - 1)]

\* while(ctr < KYBER_N): one block at a time while coefficients are wanted
Completed[u \in Partial] ==
  IF Len(u.r) < 256
  THEN Value({Completed[[s |-> b.s,
                         r |-> u.r \o rej_uniform(Wanted(u.r), Array(b.out), XOF_BLOCKBYTES)]] :
                b \in {shake128_squeezeblocks(1, u.s)}})
  ELSE u.r

\* Three blocks are squeezed at first.
Uniform(seed, x, y) ==
  Value({Completed[[s |-> b.s,
                    r |-> rej_uniform(256, Array(b.out), GEN_MATRIX_NBLOCKS * XOF_BLOCKBYTES)]] :
           b \in {shake128_squeezeblocks(GEN_MATRIX_NBLOCKS, kyber_shake128_absorb(seed, x, y))}})

Polynomial(s) == Computed([j \in Index |-> s[j + 1]])

\* Mutant: the flag is not looked at.
gen_matrixPlain(seed, transposed) ==
  [i \in 1 .. 2 |-> [j \in 1 .. 2 |-> Polynomial(Uniform(seed, j - 1, i - 1))]]

\* The matrix of a public seed, or its transpose.
gen_matrix(seed, transposed) ==
  Computed([i \in 1 .. 2 |-> Computed([j \in 1 .. 2 |->
     Polynomial(IF transposed THEN Uniform(seed, i - 1, j - 1)
                              ELSE Uniform(seed, j - 1, i - 1))])])

\* KYBER_ETA1 is 3 and KYBER_ETA2 is 2 where KYBER_K is 2.
poly_cbd_eta1(buf) == cbd3(buf)
poly_cbd_eta2(buf) == cbd2(buf)

poly_getnoise_eta1(seed, nonce) ==
  Computed(poly_cbd_eta1(Array(kyber_shake256_prf(192, seed, nonce))))
poly_getnoise_eta2(seed, nonce) ==
  Computed(poly_cbd_eta2(Array(kyber_shake256_prf(128, seed, nonce))))

MatrixTimes(a, v) ==
  OnBoth(LAMBDA row : polyvec_basemul_acc_montgomery(row, v), a)

\* Mutant: the coins are not copied into the buffer.
SeedsUnset(coins) == hash_g([i \in 1 .. 32 |-> 0] \o <<2>>)

\* hash_g of the coins and KYBER_K: the public seed, then the noise seed
Seeds(coins) == hash_g(SubSeq(coins, 1, 32) \o <<2>>)
publicseed(coins) == SubSeq(Seeds(coins), 1, 32)
noiseseed(coins) == SubSeq(Seeds(coins), 33, 64)

\* skpv and e
NoiseVector(seed, nonce) ==
  polyvec_ntt(<<poly_getnoise_eta1(seed, nonce), poly_getnoise_eta1(seed, nonce + 1)>>)

\* Public key and the part of the secret key that decrypts.
indcpa_keypair_derand(coins) ==
  LET Sum(a, s, e) == polyvec_add(OnBoth(poly_tomont, MatrixTimes(a, s)), e)
      Pair(a, s, e) == [pk |-> pack_pk(polyvec_reduce(Sum(a, s, e)), publicseed(coins)), sk |-> pack_sk(s)]
  IN  Value({Pair(a, s, e) : a \in {gen_matrix(publicseed(coins), FALSE)},
                             s \in {NoiseVector(noiseseed(coins), 0)},
                             e \in {NoiseVector(noiseseed(coins), 2)}})

indcpa_enc(m, key, coins) ==
  LET ep == <<poly_getnoise_eta2(coins, 2), poly_getnoise_eta2(coins, 3)>>
      b(at, sp) == polyvec_add(polyvec_invntt_tomont(MatrixTimes(at, sp)), ep)
      v(u, sp) == poly_add(poly_add(invntt(Computed(polyvec_basemul_acc_montgomery(u.pk, sp))),
                                    poly_getnoise_eta2(coins, 4)), poly_frommsg(m))
  IN  Value({Computed(pack_ciphertext(polyvec_reduce(b(at, sp)), Computed(poly_reduce(v(u, sp))))) :
               u \in {unpack_pk(key)}, at \in {gen_matrix(unpack_pk(key).seed, TRUE)},
               sp \in {NoiseVector(coins, 0)}})

indcpa_dec(c, key) ==
  LET mp(u) == invntt(Computed(polyvec_basemul_acc_montgomery(unpack_sk(key), polyvec_ntt(u.b))))
  IN  Value({poly_tomsg(Computed(poly_reduce(poly_sub(u.v, Computed(mp(u)))))) :
               u \in {unpack_ciphertext(c)}})
=============================================================================
