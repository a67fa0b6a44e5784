------------------------------- MODULE Crypto -------------------------------
(***************************************************************************)
(* The parts of Crypto/ that are machines of their own: the encryption     *)
(* (Kem), the incremental hash functions (Xof) and the source of coins     *)
(* (Randombytes).  They share no state; a behaviour is one of one part,    *)
(* with the others at rest.                                                *)
(***************************************************************************)
EXTENDS Kem, Xof, Randombytes

ASSUME CryptoAssumption == Sizes /\ Need \in Nat /\ MaxChunk \in Nat \ {0}

CryptoInit == Init /\ XofInit /\ RandomInit

\* The programs are built for Windows; the other variants of randombytes stand alone.
CryptoNext ==
  \/ XofInit /\ RandomInit /\ variant = "windows" /\ Next /\ UNCHANGED <<xofVars, randomVars>>
  \/ Init /\ RandomInit /\ variant = "windows" /\ XofNext /\ UNCHANGED <<vars, randomVars>>
  \/ Init /\ XofInit /\ RandomNext /\ UNCHANGED <<vars, xofVars>>

CryptoSpec == CryptoInit /\ [][CryptoNext]_<<vars, xofVars, randomVars>>
=============================================================================
