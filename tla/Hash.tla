-------------------------------- MODULE Hash --------------------------------
(***************************************************************************)
(* What the hash functions promise (FIPS 202, sections 4 and 5): output is *)
(* a function of the algorithm and of the whole message, however the bytes *)
(* are cut into calls.  A byte is the set of its bits that are one.        *)
(***************************************************************************)
EXTENDS Integers, Sequences, Strict

CONSTANTS
  Width,       \* bytes of the permutation's state
  Permute(_),  \* the permutation
  Rate,        \* bytes of a block, for each algorithm
  Suffix,      \* domain bits and the first bit of the padding
  Pieces,      \* what one call may absorb
  MaxOut       \* bound on the bytes squeezed

VARIABLES alg, phase, msg, out

vars == <<alg, phase, msg, out>>

SymmetricDifference(a, b) == (a \cup b) \ (a \cap b)

\* pad10*1 behind the suffix fills the last block.
Padded(a, m) ==
  LET n == Rate[a] * ((Len(m) \div Rate[a]) + 1)
  IN  [i \in 1 .. n |->
         SymmetricDifference(IF i <= Len(m) THEN m[i] ELSE IF i = Len(m) + 1 THEN Suffix[a] ELSE {},
                             IF i = n THEN {7} ELSE {})]

\* The states after 0 .. k blocks; permutations without a block follow the last.
States(a, m, k) ==
  LET p == Padded(a, m)
      Block(j) == [i \in 0 .. Width - 1 |->
                     IF i < Rate[a] /\ j * Rate[a] <= Len(p) THEN p[(j - 1) * Rate[a] + i + 1] ELSE {}]
      after[j \in 0 .. k] ==
        IF j = 0 THEN [i \in 0 .. Width - 1 |-> {}]
        ELSE Permute([i \in 0 .. Width - 1 |-> SymmetricDifference(after[j - 1][i], Block(j)[i])])
  IN  Computed(after)

\* The first n bytes of the output, block by block from the state that has absorbed all.
Output(a, m, n) ==
  LET first == (Len(m) \div Rate[a]) + 1
  IN  Value({[i \in 1 .. n |-> t[first + ((i - 1) \div Rate[a])][(i - 1) % Rate[a]]] :
               t \in {States(a, m, first + (n \div Rate[a]))}})

Init == alg = "none" /\ phase = "idle" /\ msg = <<>> /\ out = <<>>

Start(a) == alg' = a /\ phase' = "absorb" /\ msg' = <<>> /\ out' = <<>>

Absorb(in) ==
  /\ phase = "absorb"
  /\ msg' = msg \o in
  /\ UNCHANGED <<alg, phase, out>>

Finish ==
  /\ phase = "absorb"
  /\ phase' = "squeeze"
  /\ UNCHANGED <<alg, msg, out>>

\* The next n bytes of the output.
Squeeze(n) ==
  /\ phase = "squeeze"
  /\ UNCHANGED <<alg, phase, msg>>
  /\ Len(out') = Len(out) + n
  /\ out' = Output(alg, msg, Len(out) + n)

\* A message in one piece.
Given(a, in) == alg' = a /\ phase' = "squeeze" /\ msg' = in /\ out' = <<>>

\* The same with n bytes of output at once.
Whole(a, in, n) ==
  /\ alg' = a
  /\ phase' = "done"
  /\ msg' = in
  /\ Len(out') = n
  /\ out' = Output(a, in, n)

Next ==
  \/ \E a \in DOMAIN Rate : Start(a)
  \/ \E in \in Pieces : Absorb(in)
  \/ Finish
  \/ \E n \in 0 .. MaxOut : Squeeze(n)
  \/ \E a \in DOMAIN Rate, in \in Pieces : Given(a, in)
  \/ \E a \in DOMAIN Rate, in \in Pieces, n \in 0 .. MaxOut : Whole(a, in, n)

Spec == Init /\ [][Next]_vars
=============================================================================
