-------------------------------- MODULE Kem --------------------------------
(***************************************************************************)
(* kem.c as this repository has changed it: the server makes key pairs and *)
(* encrypts messages of its choice, the client decrypts with its copy of   *)
(* indcpa.c.  Nobody keeps the shared secret of the original mechanism;    *)
(* crypto_kem_dec is still there (CryptoInterface::Decryption).            *)
(***************************************************************************)
EXTENDS Indcpa, DeliveryKeys, FiniteSets, TLC

CONSTANTS
  Users,      \* those whose key pairs the server makes
  KeyCoins,   \* the 64 random bytes of each user's key pair
  EncCoins,   \* the 32 random bytes of encryptions
  Messages    \* the messages encrypted

\* Who opens package codes with the keys that are compiled in.
Delivery == "delivery"
Owners == Users \cup {Delivery}

Bytes256 == 0 .. 255

ASSUME KemAssumption ==
  /\ Delivery \notin Users
  /\ KeyCoins \in [Users -> [1 .. 64 -> Bytes256]]
  /\ EncCoins \subseteq [1 .. 32 -> Bytes256]
  /\ Messages \subseteq [0 .. 31 -> Bytes256]

VARIABLES
  pk,      \* public keys of owners
  sk,      \* secret keys: 768 bytes, or 1632 where the server made the pair
  sealed,  \* for whom which message was encrypted
  ct,      \* the ciphertext
  opened,  \* who decrypted it, and to what
  ss       \* who decapsulated it, and what came out

vars == <<pk, sk, sealed, ct, opened, ss>>

\* KYBER_INDCPA_SECRETKEYBYTES, the public key, its hash, z
KemSecretKey(key, public, coins) ==
  LET tail == hash_h(Slice(public, 0, 800)) \o SubSeq(coins, 33, 64)
  IN  Computed([i \in 0 .. 1631 |-> IF i < 768 THEN key[i]
                                    ELSE IF i < 1568 THEN public[i - 768] ELSE tail[i - 1567]])

Init ==
  /\ pk = Delivery :> Array(DeliveryPublicKey)
  /\ sk = Delivery :> Array(DeliverySecretKey)
  /\ sealed = <<>>
  /\ ct = <<>>
  /\ opened = <<>>
  /\ ss = <<>>

crypto_kem_keypair(coins) ==
  Value({[pk |-> pair.pk, sk |-> KemSecretKey(pair.sk, pair.pk, coins)] :
           pair \in {indcpa_keypair_derand(coins)}})

\* A registration.  (\E x \in {e} names the value of e.)
CreateNewKey ==
  /\ ct = <<>>
  /\ \E o \in Users \ DOMAIN pk : \E pair \in {crypto_kem_keypair(KeyCoins[o])} :
       /\ pk' = pk @@ o :> pair.pk
       /\ sk' = sk @@ o :> pair.sk
  /\ UNCHANGED <<sealed, ct, opened, ss>>

\* Mutant: the coins are the message, as in the original mechanism.
HashedForCoinsMessage(m, coins, key) == Slice(m, 0, 32) \o hash_h(Slice(key, 0, 800))

\* buf of crypto_kem_enc_derand: the coins and the hash of the public key
HashedForCoins(m, coins, key) == coins \o hash_h(Slice(key, 0, 800))

crypto_kem_enc_derand(m, key, coins) ==
  Value({indcpa_enc(m, key, SubSeq(kr, 33, 64)) : kr \in {hash_g(HashedForCoins(m, coins, key))}})

\* What randombytes may make of a message; no shared secret is kept.
crypto_kem_enc(m, key) == {crypto_kem_enc_derand(m, key, coins) : coins \in EncCoins}

\* A challenge or a code: the message itself is encrypted.
Encryption ==
  /\ DOMAIN pk = Owners
  /\ ct = <<>>
  /\ \E o \in Owners, m \in Messages :
       /\ sealed' = <<o, m>>
       /\ ct' \in crypto_kem_enc(m, pk[o])
  /\ UNCHANGED <<pk, sk, opened, ss>>

\* The client answers with what a key makes of the ciphertext.
Decrypt ==
  /\ ct # <<>>
  /\ opened = <<>>
  /\ ss = <<>>
  /\ \E o \in Owners : opened' = <<o, indcpa_dec(ct, sk[o])>>
  /\ UNCHANGED <<pk, sk, sealed, ct, ss>>

\* 0 for arrays that agree in their first len bytes, 1 for others
verify(a, b, len) == IF \A i \in 0 .. len - 1 : a[i] = b[i] THEN 0 ELSE 1

\* r is overwritten if b is 1.
cmov(r, x, b) == IF b = 1 THEN x ELSE r

RejectionKey(key, c) == kyber_shake256_rkprf(Slice(key, 1600, 32), Slice(c, 0, 768))

crypto_kem_dec(c, key) ==
  LET public == Computed([i \in 0 .. 799 |-> key[768 + i]])
      kr(m) == hash_g(Slice(m, 0, 32) \o Slice(key, 1568, 32))
      Result(m, k) == cmov(RejectionKey(key, c), SubSeq(k, 1, 32),
                           1 - verify(c, indcpa_enc(m, public, SubSeq(k, 33, 64)), 768))
  IN  Value({Result(m, k) : m \in {indcpa_dec(c, key)}, k \in {kr(indcpa_dec(c, key))}})

\* With a secret key that is whole.
Decryption ==
  /\ ct # <<>>
  /\ opened = <<>>
  /\ ss = <<>>
  /\ \E o \in Users : ss' = <<o, crypto_kem_dec(ct, sk[o])>>
  /\ UNCHANGED <<pk, sk, sealed, ct, opened>>

Next == CreateNewKey \/ Encryption \/ Decrypt \/ Decryption

Spec == Init /\ [][Next]_vars

----------------------------------------------------------------------------

\* Blocks that are enough for every polynomial of the run.
MaxBlocks == 5

\* The stream of an entry of the matrix, squeezed at once and cut nowhere.
Stream(seed, x, y) ==
  LET n == MaxBlocks * XOF_BLOCKBYTES
      bytes == Array(AsNumbers(Fips202!shake(n, SHAKE128_RATE, AsSets(seed \o <<x, y>>))))
  IN  SelectSeq(Values(bytes, n), LAMBDA v : v < KYBER_Q)

\* The unrolled permutation is Keccak-f[1600] as FIPS 202 defines it, lane by lane of
\* the state that the first 200 bytes of a ciphertext make.
PermutationIsKeccak ==
  ct # <<>> /\ opened = <<>> /\ ss = <<>> =>
    \E lanes \in {Computed([n \in 0 .. 24 |-> UNION {{8 * i + b : b \in ByteBits(ct[8 * n + i])} : i \in 0 .. 7}])} :
      Rounds(lanes) = ReferencePermutation(lanes)

\* The number of ones among the bits i .. i+n-1 of an array of bytes.
Ones(buf, i, n) ==
  Cardinality({k \in i .. i + n - 1 : (buf[k \div 8] \div 2^(k % 8)) % 2 = 1})

\* The masked words of cbd2 and cbd3 give, for coefficient j, the ones among
\* eta bits less the ones among the next eta, of the 2 eta bits that are its own.
Binomial(seed, nonce) ==
  /\ \E buf \in {Array(kyber_shake256_prf(192, seed, nonce))} : \E r \in {Computed(cbd3(buf))} :
       \A j \in Index : r[j] = Ones(buf, 6 * j, 3) - Ones(buf, 6 * j + 3, 3)
  /\ \E buf \in {Array(kyber_shake256_prf(128, seed, nonce))} : \E r \in {Computed(cbd2(buf))} :
       \A j \in Index : r[j] = Ones(buf, 4 * j, 2) - Ones(buf, 4 * j + 2, 2)

\* The randomness of a key pair comes out of the streams as it should.  An entry of
\* the matrix is the first 256 values below q of its stream, no more and no fewer,
\* wherever the blocks that gen_matrix squeezes one by one begin and end; noise is
\* centred binomial.
SampledFromStreams ==
  sealed = <<>> =>
    \A o \in Users \cap DOMAIN pk :
      /\ \A x, y \in 0 .. 1 : \E u \in {Uniform(publicseed(KeyCoins[o]), x, y)} :
           u = SubSeq(Stream(publicseed(KeyCoins[o]), x, y), 1, 256)
      /\ \A nonce \in 0 .. 3 : Binomial(noiseseed(KeyCoins[o]), nonce)

\* The owner of the key recovers every byte of the message: matrix and transpose,
\* the Montgomery factors of the two transforms, the places of the polynomials in
\* keys and ciphertexts and the noise all fit together, for keys that the server
\* makes and for the pair that is compiled into two programs.
OwnerDecrypts ==
  opened # <<>> /\ opened[1] = sealed[1] => opened[2] = sealed[2]

\* Another's key does not give an answer the server accepts: the two bytes that
\* it compares do not both come out.
OtherRefused ==
  opened # <<>> /\ opened[1] # sealed[1] =>
    ~(opened[2][0] = sealed[2][0] /\ opened[2][31] = sealed[2][31])

\* Since the coins are no longer hashed from the message, the client's copy of
\* crypto_kem_dec can never repeat the encryption: it takes every ciphertext of the
\* server for a forgery and returns the rejection key, for the owner of the key
\* too.  Only indcpa_dec opens what the server sends.
DecapsulationRejects ==
  ss # <<>> => ss[2] = RejectionKey(sk[ss[1]], ct)
=============================================================================
