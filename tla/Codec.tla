------------------------------- MODULE Codec --------------------------------
(***************************************************************************)
(* The reductions at work, and the way of a group of coefficients through  *)
(* the bytes of a key, of a ciphertext and of a message.  What the server  *)
(* writes (poly_tobytes, poly_compress, polyvec_compress, poly_frommsg)    *)
(* the client reads with its own copy of the code.                         *)
(***************************************************************************)
EXTENDS Coeff

CONSTANTS
  KeyGroups,   \* pairs of coefficients of a key
  VGroups,     \* pairs of coefficients of the polynomial v of a ciphertext
  BGroups,     \* fours of coefficients of the vector b of a ciphertext
  Eights,      \* eights of coefficients of v and of b where KYBER_K is 4
  Messages,    \* bytes of a message
  Noises,      \* what decryption leaves of the noise in eight coefficients
  Sums,        \* arguments of barrett_reduce
  Products     \* arguments of montgomery_reduce

\* Coefficients are packed after a reduction.
ASSUME CodecAssumption ==
  /\ KeyGroups \subseteq [1 .. 2 -> Coefficient]
  /\ VGroups \subseteq [1 .. 2 -> Coefficient]
  /\ BGroups \subseteq [1 .. 4 -> Coefficient]
  /\ Eights \subseteq [1 .. 8 -> Coefficient]
  /\ Messages \subseteq Byte
  /\ Noises \subseteq [1 .. 8 -> Noise]
  /\ Sums \subseteq Int16
  /\ Products \subseteq Product

VARIABLES
  kind,    \* what is computed
  given,   \* its argument
  bytes,   \* the array of bytes written so far
  coeffs,  \* the coefficients computed so far
  pc       \* "begin", "between", "recovered" or "done"

vars == <<kind, given, bytes, coeffs, pc>>

----------------------------------------------------------------------------

Init ==
  /\ bytes = <<>>
  /\ coeffs = <<>>
  /\ pc = "begin"
  /\ \/ kind = "key" /\ given \in KeyGroups
     \/ kind = "v" /\ given \in VGroups
     \/ kind = "b" /\ given \in BGroups
     \/ kind \in {"v160", "b352"} /\ given \in Eights
     \/ kind = "message" /\ given \in Messages
     \/ kind = "sum" /\ given \in Sums
     \/ kind = "product" /\ given \in Products

\* A function of the code that writes bytes, or coefficients.
Write(k, from, to, b) ==
  /\ kind = k
  /\ pc = from
  /\ pc' = to
  /\ bytes' = b
  /\ UNCHANGED <<kind, given, coeffs>>

Read(k, from, to, c) ==
  /\ kind = k
  /\ pc = from
  /\ pc' = to
  /\ coeffs' = c
  /\ UNCHANGED <<kind, given, bytes>>

poly_tobytes == Write("key", "begin", "between", Pack12(OnEach(Positive, given)))
poly_frombytes == Read("key", "between", "done", Unpack12(bytes))

poly_compress == Write("v", "begin", "between", Pack4(OnEach(Compress4, given)))
poly_decompress == Read("v", "between", "done", OnEach(Decompress4, Unpack4(bytes)))

polyvec_compress == Write("b", "begin", "between", Pack10(OnEach(Compress10, given)))
polyvec_decompress == Read("b", "between", "done", OnEach(Decompress10, Unpack10(bytes)))

\* The branches of the two files for 160 bytes of v and 352 of a polynomial of b.
poly_compress160 == Write("v160", "begin", "between", Pack5(OnEach(Compress5, given)))
poly_decompress160 == Read("v160", "between", "done", OnEach(Decompress5, Unpack5(bytes)))

polyvec_compress352 == Write("b352", "begin", "between", Pack11(OnEach(Compress11, given)))
polyvec_decompress352 == Read("b352", "between", "done", OnEach(Decompress11, Unpack11(bytes)))

poly_frommsg == Read("message", "begin", "between", OnEach(FromBit, Bits(given)))

\* What poly_sub and poly_reduce leave in indcpa_dec: the message and a noise.
Recover == \E e \in Noises :
  Read("message", "between", "recovered",
       [j \in 1 .. 8 |-> barrett_reduce(coeffs[j] + e[j])])

poly_tomsg == Write("message", "recovered", "done", Pack1(OnEach(ToBit, coeffs)))

poly_reduce == Read("sum", "begin", "done", <<barrett_reduce(given)>>)
fqmul == Read("product", "begin", "done", <<montgomery_reduce(given)>>)

Next ==
  \/ poly_tobytes
  \/ poly_frombytes
  \/ poly_compress
  \/ poly_decompress
  \/ polyvec_compress
  \/ polyvec_decompress
  \/ poly_compress160
  \/ poly_decompress160
  \/ polyvec_compress352
  \/ polyvec_decompress352
  \/ poly_frommsg
  \/ Recover
  \/ poly_tomsg
  \/ poly_reduce
  \/ fqmul

Spec == Init /\ [][Next]_vars

----------------------------------------------------------------------------

Done(k) == kind = k /\ pc = "done"

\* Whatever the coefficients of a key are, its bytes are bytes, and what the
\* client's poly_frombytes reads is the coefficients modulo q that the server's
\* poly_tobytes was given.
KeyKept ==
  /\ kind = "key" /\ pc # "begin" => \A j \in 1 .. 3 : bytes[j] \in Byte
  /\ Done("key") => \A j \in 1 .. 2 : coeffs[j] = given[j] % KYBER_Q

\* The multiplications and shifts compute the rounded quotients by q that the
\* comments of poly_compress and polyvec_compress give for them.
CompressAsDocumented ==
  /\ kind = "v" /\ pc = "between" =>
       \A j \in 1 .. 2 :
          Unpack4(bytes)[j] = ((16 * (given[j] % KYBER_Q) + 1664) \div KYBER_Q) % 16
  /\ kind = "b" /\ pc = "between" =>
       \A j \in 1 .. 4 :
          Unpack10(bytes)[j] = ((1024 * (given[j] % KYBER_Q) + 1664) \div KYBER_Q) % 1024
  /\ kind = "v160" /\ pc = "between" =>
       \A j \in 1 .. 8 :
          Unpack5(bytes)[j] = ((32 * (given[j] % KYBER_Q) + 1664) \div KYBER_Q) % 32
  /\ kind = "b352" /\ pc = "between" =>
       \A j \in 1 .. 8 :
          Unpack11(bytes)[j] = ((2048 * (given[j] % KYBER_Q) + 1664) \div KYBER_Q) % 2048

\* What decryption computes with is within half a step of what encryption computed,
\* 104 for v (4 bits) and 2 for b (10 bits), the bounds the noise analysis of Kyber
\* counts with, 52 and 1 where 5 and 11 bits are kept (KYBER_K = 4); on the way, the multiplications and shifts have given the rounded
\* quotients that the comments in poly_compress and polyvec_compress name.
CiphertextClose ==
  /\ CompressAsDocumented
  /\ Done("v") => \A j \in 1 .. 2 : Near(coeffs[j], given[j], 104)
  /\ Done("b") => \A j \in 1 .. 4 : Near(coeffs[j], given[j], 2)
  /\ Done("v160") => \A j \in 1 .. 8 : Near(coeffs[j], given[j], 52)
  /\ Done("b352") => \A j \in 1 .. 8 : Near(coeffs[j], given[j], 1)

\* A message comes back unchanged through every noise from -832 to 831 in each
\* of its bits, also where the sum is beyond (q-1)/2 and wraps around.
MessageKept == Done("message") => bytes = <<given>>

\* barrett_reduce gives the centered representative of every int16_t, as its
\* description says, also where its product with q wraps.
BarrettCentered ==
  Done("sum") =>
    /\ -1664 <= coeffs[1] /\ coeffs[1] <= 1664
    /\ (coeffs[1] - given) % KYBER_Q = 0

\* montgomery_reduce gives a value between -q+1 and q-1 congruent to a / 2^16,
\* for every argument its description allows.
MontgomeryReduced ==
  Done("product") =>
    /\ -3328 <= coeffs[1] /\ coeffs[1] <= 3328
    /\ (65536 * coeffs[1] - given) % KYBER_Q = 0

\* The two reductions that every operation on coefficients ends with are exact at
\* every argument the code can give them, where their products wrap too.
ReductionsExact == BarrettCentered /\ MontgomeryReduced
=============================================================================
