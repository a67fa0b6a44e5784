-------------------------------- MODULE Xof --------------------------------
(***************************************************************************)
(* The interface of fips202.c: a keccak_state that is absorbed into and    *)
(* squeezed by calls of any size, and the functions that hash at once.     *)
(* The functions of SHAKE128 and of SHAKE256 differ in their rate only.    *)
(***************************************************************************)
EXTENDS Sponge

CONSTANTS
  Rate,        \* SHAKE128_RATE, SHAKE256_RATE, SHA3_256_RATE, SHA3_512_RATE
  Digest,      \* bytes of the two hash values
  Pieces,      \* what one call may absorb
  MaxMessage,  \* bounds on the bytes absorbed
  MaxOut       \* and on the bytes squeezed

Shake == {"shake128", "shake256"}
Sha3 == {"sha3_256", "sha3_512"}

Suffix == [a \in Shake \cup Sha3 |-> IF a \in Shake THEN {0, 1, 2, 3, 4} ELSE {1, 2}]

\* The blocks fit the state, and a hash value fits its block.
Sizes ==
  /\ Width \in Nat /\ MaxOut \in Nat
  /\ Rate \in [Shake \cup Sha3 -> 1 .. Width]
  /\ \A a \in Sha3 : Digest[a] \in 0 .. Rate[a] /\ Digest[a] <= MaxOut
  /\ Pieces \subseteq Seq(SUBSET (0 .. 7))

VARIABLES
  alg,    \* whose functions are called
  phase,  \* "idle", "absorb", "squeeze" or "done": which calls may come next
  s,      \* keccak_state: s
  pos,    \* keccak_state: pos
  msg,    \* the bytes given so far
  out     \* the bytes returned so far

xofVars == <<alg, phase, s, pos, msg, out>>

XofInit ==
  /\ alg = "none" /\ phase = "idle"
  /\ s = keccak_init /\ pos = 0
  /\ msg = <<>> /\ out = <<>>

shake_init(a) ==
  /\ alg' = a /\ phase' = "absorb"
  /\ s' = keccak_init /\ pos' = 0
  /\ msg' = <<>> /\ out' = <<>>

shake_absorb(in) ==
  /\ phase = "absorb"
  /\ Len(msg) + Len(in) <= MaxMessage
  /\ \E k \in {keccak_absorb(s, pos, Rate[alg], in)} : s' = k.s /\ pos' = k.pos
  /\ msg' = msg \o in
  /\ UNCHANGED <<alg, phase, out>>

shake_finalize ==
  /\ phase = "absorb"
  /\ s' = keccak_finalize(s, pos, Rate[alg], Suffix[alg])
  /\ pos' = Rate[alg]
  /\ phase' = "squeeze"
  /\ UNCHANGED <<alg, msg, out>>

shake_squeeze(n) ==
  /\ phase = "squeeze"
  /\ Len(out) + n <= MaxOut
  /\ \E k \in {keccak_squeeze(n, s, pos, Rate[alg])} : s' = k.s /\ pos' = k.pos /\ out' = out \o k.out
  /\ UNCHANGED <<alg, phase, msg>>

shake_absorb_once(a, in) ==
  /\ alg' = a /\ phase' = "squeeze"
  /\ s' = keccak_absorb_once(Rate[a], in, Suffix[a])
  /\ pos' = Rate[a]
  /\ msg' = in /\ out' = <<>>

\* "Assumes new block has not yet been started (state->pos = SHAKE128_RATE)."
shake_squeezeblocks(n) ==
  /\ phase = "squeeze" /\ pos = Rate[alg]
  /\ Len(out) + n * Rate[alg] <= MaxOut
  /\ \E k \in {keccak_squeezeblocks(n, s, Rate[alg])} : s' = k.s /\ out' = out \o k.out
  /\ UNCHANGED <<alg, phase, pos, msg>>

\* shake128 and shake256, sha3_256 and sha3_512: the state is local to the call.
AtOnce(a, in, n) ==
  /\ phase = "idle"
  /\ alg' = a /\ phase' = "done"
  /\ msg' = in
  /\ out' = IF a \in Shake THEN shake(n, Rate[a], in) ELSE sha3(Digest[a], Rate[a], in)
  /\ UNCHANGED <<s, pos>>

XofNext ==
  \/ \E a \in Shake : shake_init(a)
  \/ \E in \in Pieces : shake_absorb(in)
  \/ shake_finalize
  \/ \E n \in 0 .. MaxOut : shake_squeeze(n)
  \/ \E a \in Shake, in \in Pieces : shake_absorb_once(a, in)
  \/ \E n \in 0 .. MaxOut : shake_squeezeblocks(n)
  \/ \E a \in Shake, in \in Pieces, n \in 0 .. MaxOut : AtOnce(a, in, n)
  \/ \E a \in Sha3, in \in Pieces : AtOnce(a, in, Digest[a])

XofSpec == XofInit /\ [][XofNext]_xofVars

----------------------------------------------------------------------------

H == INSTANCE Hash

\* However a message is cut into calls that absorb, and its output into calls that
\* squeeze bytes or blocks, the bytes returned are those that FIPS 202 assigns to the
\* whole message: blocks that are exactly full, empty pieces, padding that falls into
\* one byte and positions carried from call to call are all met.
ImplementsHash == H!Spec
=============================================================================
