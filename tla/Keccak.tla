------------------------------- MODULE Keccak -------------------------------
(***************************************************************************)
(* KeccakF1600_StatePermute of fips202.c, and Kyber's calls of the hash    *)
(* functions that are built on it.  A lane of 64 bits is the set of        *)
(* its bits that are one.  The code unrolls two rounds, one from the lanes *)
(* A to the lanes E and one back; the lane named Ayx (y of b g k m s, x of *)
(* a e i o u) is number 5 y + x of the state.                              *)
(***************************************************************************)
EXTENDS Integers, Sequences, FiniteSets, Strict

NROUNDS == 24

Xor64(a, b) == (a \ b) \cup (b \ a)
ROL(a, offset) == {(i + offset) % 64 : i \in a}

KeccakF_RoundConstants == <<
  {0}, {1, 7, 15}, {1, 3, 7, 15, 63}, {15, 31, 63}, {0, 1, 3, 7, 15}, {0, 31},
  {0, 7, 15, 31, 63}, {0, 3, 15, 63}, {1, 3, 7}, {3, 7}, {0, 3, 15, 31}, {1, 3, 31},
  {0, 1, 3, 7, 15, 31}, {0, 1, 3, 7, 63}, {0, 3, 7, 15, 63}, {0, 1, 15, 63},
  {1, 15, 63}, {7, 63}, {1, 3, 15}, {1, 3, 31, 63}, {0, 7, 15, 31, 63}, {7, 15, 63},
  {0, 31}, {3, 15, 31, 63} >>

\* BCa .. BCu of each row of E: which lane of A, and by how much it is rotated
RowsAE == <<
  <<<< 0,  0>>, << 6, 44>>, <<12, 43>>, <<18, 21>>, <<24, 14>>>>,
  <<<< 3, 28>>, << 9, 20>>, <<10,  3>>, <<16, 45>>, <<22, 61>>>>,
  <<<< 1,  1>>, << 7,  6>>, <<13, 25>>, <<19,  8>>, <<20, 18>>>>,
  <<<< 4, 27>>, << 5, 36>>, <<11, 10>>, <<17, 15>>, <<23, 56>>>>,
  <<<< 2, 62>>, << 8, 55>>, <<14, 39>>, <<15, 41>>, <<21,  2>>>> >>

\* Mutant: an offset of the second round mistyped.
RowsEATyped == [RowsAE EXCEPT ![4][3] = <<11, 15>>]

\* The same for the rows of A, from the lanes of E.
RowsEA == <<
  <<<< 0,  0>>, << 6, 44>>, <<12, 43>>, <<18, 21>>, <<24, 14>>>>,
  <<<< 3, 28>>, << 9, 20>>, <<10,  3>>, <<16, 45>>, <<22, 61>>>>,
  <<<< 1,  1>>, << 7,  6>>, <<13, 25>>, <<19,  8>>, <<20, 18>>>>,
  <<<< 4, 27>>, << 5, 36>>, <<11, 10>>, <<17, 15>>, <<23, 56>>>>,
  <<<< 2, 62>>, << 8, 55>>, <<14, 39>>, <<15, 41>>, <<21,  2>>>> >>

\* BCa .. BCu at first: the parity of the columns
prepareTheta(a) ==
  Computed([x \in 0 .. 4 |->
     Xor64(Xor64(Xor64(a[x], a[x + 5]), Xor64(a[x + 10], a[x + 15])), a[x + 20])])

\* Da .. Du
ThetaEffect(c) == Computed([x \in 0 .. 4 |-> Xor64(c[(x + 4) % 5], ROL(c[(x + 1) % 5], 1))])

\* BCa .. BCu of the five rows
RotatedRows(a, d, rows) ==
  Computed([n \in 0 .. 24 |->
     LET from == rows[(n \div 5) + 1][(n % 5) + 1]
     IN  ROL(Xor64(a[from[1]], d[from[1] % 5]), from[2])])

\* The lanes of the next round, the first with the constant.
Combined(bc, constant) ==
  LET Chi(n) == LET y == 5 * (n \div 5)
                IN  Xor64(bc[n], bc[y + ((n + 2) % 5)] \ bc[y + ((n + 1) % 5)])
  IN  Computed([n \in 0 .. 24 |-> IF n = 0 THEN Xor64(Chi(0), constant) ELSE Chi(n)])

\* One unrolled round with its table and its constant.
thetaRhoPiChiIota(a, rows, constant) ==
  Combined(RotatedRows(a, ThetaEffect(prepareTheta(a)), rows), constant)

\* The body of the loop: from A to E and back.
TwoRounds(a, round) ==
  Value({thetaRhoPiChiIota(e, RowsEA, KeccakF_RoundConstants[round + 2]) :
           e \in {thetaRhoPiChiIota(a, RowsAE, KeccakF_RoundConstants[round + 1])}})

\* for(round = 0; round < NROUNDS; round += 2)
Rounds(a) ==
  LET after[n \in 0 .. NROUNDS \div 2] ==
        IF n = 0 THEN a
        ELSE Value({TwoRounds(x, 2 * (n - 1)) : x \in {after[n - 1]}})
  IN  after[NROUNDS \div 2]

load64(x) == UNION {{8 * i + j : j \in x[i]} : i \in 0 .. 7}
store64(u) == [i \in 0 .. 7 |-> {j \in 0 .. 7 : 8 * i + j \in u}]

\* The state is given as 200 bytes, each the set of its bits.
copyFromState(state) ==
  Computed([n \in 0 .. 24 |-> load64([i \in 0 .. 7 |-> state[8 * n + i]])])

copyToState(a) ==
  Value({Computed([i \in 0 .. 199 |-> bytes[i \div 8][i % 8]]) :
           bytes \in {Computed([n \in 0 .. 24 |-> store64(a[n])])}})

KeccakF1600_StatePermute(state) ==
  Value({copyToState(a) : a \in {Rounds(copyFromState(state))}})

----------------------------------------------------------------------------
(* FIPS 202, sections 3.2 and 3.3, as a reference.                          *)

Columns == 0 .. 4
Sheets == Columns \X Columns
Differ(p, q) == ~(p <=> q)

\* The bits z for which a lane has a one.
LaneOf(P(_)) == {z \in 0 .. 63 : P(z)}

Theta(a) ==
  LET c == Computed([x \in Columns |->
             LaneOf(LAMBDA z : Cardinality({y \in Columns : z \in a[<<x, y>>]}) % 2 = 1)])
  IN  Computed([p \in Sheets |->
        LaneOf(LAMBDA z : Differ(z \in a[p], Differ(z \in c[(p[1] + 4) % 5],
                                                   (z + 63) % 64 \in c[(p[1] + 1) % 5])))])

\* The walk of rho over the lanes, which starts at (1, 0).
Walk[t \in 0 .. 23] ==
  IF t = 0 THEN <<1, 0>> ELSE LET p == Walk[t - 1] IN <<p[2], (2 * p[1] + 3 * p[2]) % 5>>

RhoOffset ==
  Computed([p \in Sheets |->
     IF p = <<0, 0>> THEN 0
     ELSE LET t == CHOOSE t \in 0 .. 23 : Walk[t] = p
          IN  (((t + 1) * (t + 2)) \div 2) % 64])

Rho(a) == Computed([p \in Sheets |-> LaneOf(LAMBDA z : (z + 64 - RhoOffset[p]) % 64 \in a[p])])

Pi(a) == Computed([p \in Sheets |-> a[<<(p[1] + 3 * p[2]) % 5, p[1]>>]])

Chi(a) ==
  Computed([p \in Sheets |->
     LaneOf(LAMBDA z : Differ(z \in a[p], /\ z \notin a[<<(p[1] + 1) % 5, p[2]>>]
                                         /\ z \in a[<<(p[1] + 2) % 5, p[2]>>]))])

\* A step of the linear feedback shift register.
Shifted(r) ==
  LET up == {i + 1 : i \in r} IN IF 8 \in up THEN Xor64(up \ {8}, {0, 4, 5, 6}) ELSE up

\* The register before and after each of seven steps.
SevenSteps(r) ==
  LET r1 == Shifted(r) r2 == Shifted(r1) r3 == Shifted(r2) r4 == Shifted(r3)
      r5 == Shifted(r4) r6 == Shifted(r5)
  IN  <<r, r1, r2, r3, r4, r5, r6, Shifted(r6)>>

\* The register at the beginning of a round, {0} at first.
Register[n \in 0 .. NROUNDS - 1] ==
  IF n = 0 THEN {0} ELSE Value({SevenSteps(r)[8] : r \in {Register[n - 1]}})

\* A round takes seven bits, the one of step j as bit 2^j - 1.
RoundConstant ==
  Computed([n \in 0 .. NROUNDS - 1 |->
     {2 ^ j - 1 : j \in {j \in 0 .. 6 : 0 \in SevenSteps(Register[n])[j + 1]}}])

Iota(a, n) == Computed([a EXCEPT ![<<0, 0>>] = Xor64(@, RoundConstant[n])])

\* The five steps of a round.
ReferenceRound(a, n) == Iota(Chi(Pi(Rho(Theta(a)))), n)

ReferencePermutation(a) ==
  LET after[n \in 0 .. NROUNDS \div 2] ==
        IF n = 0 THEN [p \in Sheets |-> a[5 * p[2] + p[1]]]
        ELSE Value({ReferenceRound(y, 2 * n - 1) :
                      y \in {ReferenceRound(x, 2 * n - 2) : x \in {after[n - 1]}}})
  IN  Value({[n \in 0 .. 24 |-> x[<<n % 5, n \div 5>>]] : x \in {after[NROUNDS \div 2]}})

----------------------------------------------------------------------------
(* symmetric.h and symmetric-shake.c: the hash functions as Kyber uses      *)
(* them, on the sponge of fips202.c around the permutation.  Arrays of      *)
(* bytes are sequences of numbers here; the sponge has bytes as sets.       *)

Fips202 == INSTANCE Sponge WITH Width <- 200, Permute <- KeccakF1600_StatePermute

SHAKE128_RATE == 168
SHAKE256_RATE == 136
SHA3_256_RATE == 136
SHA3_512_RATE == 72

ByteBits(n) == {b \in 0 .. 7 : (n \div 2 ^ b) % 2 = 1}
ByteNumber(bits) ==
  LET Weight(b) == IF b \in bits THEN 2 ^ b ELSE 0
  IN  Weight(0) + Weight(1) + Weight(2) + Weight(3) + Weight(4) + Weight(5) + Weight(6) + Weight(7)

AsSets(in) == Computed([i \in 1 .. Len(in) |-> ByteBits(in[i])])
AsNumbers(out) == Computed([i \in 1 .. Len(out) |-> ByteNumber(out[i])])

sha3_256(in) == AsNumbers(Fips202!sha3(32, SHA3_256_RATE, AsSets(in)))
sha3_512(in) == AsNumbers(Fips202!sha3(64, SHA3_512_RATE, AsSets(in)))
shake256(n, in) == AsNumbers(Fips202!shake(n, SHAKE256_RATE, AsSets(in)))

shake128_absorb_once(in) ==
  Fips202!keccak_absorb_once(SHAKE128_RATE, AsSets(in), {0, 1, 2, 3, 4})
shake128_squeezeblocks(n, s) ==
  Value({[s |-> b.s, out |-> AsNumbers(b.out)] : b \in {Fips202!keccak_squeezeblocks(n, s, SHAKE128_RATE)}})

\* A state is [s, pos] while it absorbs.
shake256_init == [s |-> Fips202!keccak_init, pos |-> 0]
shake256_absorb(state, in) == Fips202!keccak_absorb(state.s, state.pos, SHAKE256_RATE, AsSets(in))
shake256_finalize(state) == Fips202!keccak_finalize(state.s, state.pos, SHAKE256_RATE, {0, 1, 2, 3, 4})
shake256_squeeze(n, s) == AsNumbers(Fips202!keccak_squeeze(n, s, SHAKE256_RATE, SHAKE256_RATE).out)

----------------------------------------------------------------------------

hash_h(in) == sha3_256(in)
hash_g(in) == sha3_512(in)

kyber_shake128_absorb(seed, x, y) == shake128_absorb_once(seed \o <<x, y>>)

kyber_shake256_prf(n, key, nonce) == shake256(n, key \o <<nonce>>)

\* The key and the ciphertext are absorbed by two calls.
kyber_shake256_rkprf(key, input) ==
  Value({shake256_squeeze(32, s) :
           s \in {shake256_finalize(a) :
             a \in {shake256_absorb(k, input) : k \in {shake256_absorb(shake256_init, key)}}}})
=============================================================================
