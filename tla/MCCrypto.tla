------------------------------ MODULE MCCrypto ------------------------------
(* Crypto for TLC.                                                          *)
EXTENDS Crypto

\* Two users.  Three blocks are not enough for an entry of each one's matrix.
MCUsers == {"ann", "bob"}
MCKeyCoins == [u \in MCUsers |-> [i \in 1 .. 64 |-> (37 * i + (IF u = "ann" THEN 112 ELSE 28)) % 256]]
MCEncCoins == {[i \in 1 .. 32 |-> (31 * i * i + k) % 256] : k \in {1, 2}}

\* Messages as IdxToMessage writes them.
MCMessages ==
  {[i \in 0 .. 31 |-> IF i = 0 THEN 17 ELSE IF i = 31 THEN n ELSE 255] : n \in {0, 1, 254}}

\* A permutation of four bytes in the place of Keccak's, with small rates.
MCPermute(t) ==
  LET Turn(b, n) == {(i + n) % 8 : i \in b}
  IN  [i \in 0 .. 3 |->
         CASE i = 0 -> Turn(Xor64(t[1], t[2]), 1)
           [] i = 1 -> Turn(t[2], 2)
           [] i = 2 -> Xor64(Turn(t[3], 3), {0})
           [] i = 3 -> Turn(t[0], 5)]
MCRate == [shake128 |-> 3, shake256 |-> 2, sha3_256 |-> 2, sha3_512 |-> 1]
MCDigest == [sha3_256 |-> 2, sha3_512 |-> 1]
MCPieces == UNION {[1 .. n -> {{}, {0, 6}}] : n \in 0 .. 3}
=============================================================================
