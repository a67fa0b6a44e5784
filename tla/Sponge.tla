------------------------------- MODULE Sponge -------------------------------
(***************************************************************************)
(* The sponge of fips202.c around a permutation: the functions that absorb *)
(* and squeeze bytes.  A byte is the set of its bits that are one, so that *)
(* ^= is the symmetric difference; the state is the array of its bytes in  *)
(* the little-endian order in which the code addresses its lanes           *)
(* (s[i/8] ^= (uint64_t)b << 8*(i%8) changes byte i).                      *)
(***************************************************************************)
EXTENDS Integers, Sequences, Strict

CONSTANTS
  Width,       \* bytes of the state; 200 in the code
  Permute(_)   \* KeccakF1600_StatePermute on an array of Width bytes

XorBits(a, b) == (a \ b) \cup (b \ a)

\* The state after a fixed number of bytes, from place pos on.
Mix(s, pos, in) ==
  Computed([i \in 0 .. Width - 1 |->
     IF i >= pos /\ i < pos + Len(in) THEN XorBits(s[i], in[i - pos + 1]) ELSE s[i]])

Bytes(s, from, n) == Computed([i \in 1 .. n |-> s[from + i - 1]])

keccak_init == [i \in 0 .. Width - 1 |-> {}]

\* Mutant: a block that is exactly full is left for later.
TurnsLate(pos, n, r) == IF pos + n = 0 THEN 0 ELSE (pos + n - 1) \div r

\* while(pos+inlen >= r): the turns of the loop.
Turns(pos, n, r) == (pos + n) \div r

\* The loop over the bytes that complete a block: the state, the place in the next
\* block, and the bytes that are left.
AbsorbBlocks(s, pos, r, in) ==
  LET turn[k \in 0 .. Turns(pos, Len(in), r)] ==
        IF k = 0 THEN [s |-> s, pos |-> pos, in |-> in]
        ELSE Value({[s |-> Permute(Mix(t.s, t.pos, SubSeq(t.in, 1, r - t.pos))),
                     pos |-> 0,
                     in |-> SubSeq(t.in, r - t.pos + 1, Len(t.in))] : t \in {turn[k - 1]}})
  IN  turn[Turns(pos, Len(in), r)]

\* The state and the new place in the current block.
keccak_absorb(s, pos, r, in) ==
  Value({[s |-> Mix(t.s, t.pos, t.in), pos |-> t.pos + Len(t.in)] :
           t \in {AbsorbBlocks(s, pos, r, m) : m \in {in}}})

\* Domain separation at the end of the message, a one in the last bit of the rate.
keccak_finalize(s, pos, r, p) == Mix(Mix(s, pos, <<p>>), r - 1, <<{7}>>)

\* if(pos == r)
Refill(pos, r) == pos = r

\* A turn of while(outlen), behind the bytes t.out of n.
SqueezePart(n, t, r) ==
  LET from == IF Refill(t.pos, r) THEN 0 ELSE t.pos
      k == IF n - Len(t.out) < r - from THEN n - Len(t.out) ELSE r - from
  IN  Value({[s |-> x, pos |-> from + k, out |-> t.out \o Bytes(x, from, k)] :
               x \in {IF Refill(t.pos, r) THEN Permute(t.s) ELSE t.s}})

\* A turn but the first and the last has r bytes.
keccak_squeeze(n, s, pos, r) ==
  LET turns == (n \div r) + 2
      turn[k \in 0 .. turns] ==
        IF k = 0 THEN [s |-> s, pos |-> pos, out |-> <<>>]
        ELSE Value({IF Len(t.out) < n THEN SqueezePart(n, t, r) ELSE t : t \in {turn[k - 1]}})
  IN  turn[turns]

\* The state begins as zero, and the loops are those of keccak_absorb.
keccak_absorb_once(r, in, p) ==
  Value({keccak_finalize(t.s, t.pos, r, p) : t \in {keccak_absorb(keccak_init, 0, r, in)}})

\* while(nblocks)
keccak_squeezeblocks(n, s, r) ==
  LET Block(x, out) == [s |-> x, out |-> out \o Bytes(x, 0, r)]
      turn[k \in 0 .. n] ==
        IF k = 0 THEN [s |-> s, out |-> <<>>]
        ELSE Value({Value({Block(x, t.out) : x \in {Permute(t.s)}}) : t \in {turn[k - 1]}})
  IN  turn[n]

\* shake128 and shake256: whole blocks, then the rest of the bytes.
shake(n, r, in) ==
  Value({b.out \o keccak_squeeze(n % r, b.s, r, r).out :
           b \in {keccak_squeezeblocks(n \div r, s, r) :
                    s \in {keccak_absorb_once(r, in, {0, 1, 2, 3, 4})}}})

\* sha3_256 and sha3_512: one block is enough for n bytes.
sha3(n, r, in) ==
  Value({Bytes(t, 0, n) : t \in {Permute(s) : s \in {keccak_absorb_once(r, in, {1, 2})}}})
=============================================================================
